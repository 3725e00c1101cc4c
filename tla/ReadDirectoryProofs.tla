-------------------------- MODULE ReadDirectoryProofs --------------------------
(***************************************************************************)
(* Proofs about ReadDirectory, for every volume that satisfies             *)
(* LayoutAssumption and any threads that move the cursors; DirectoryProofs *)
(* is about the cursor alone.                                              *)
(***************************************************************************)
EXTENDS ReadDirectory, DirectoryProofs

-----------------------------------------------------------------------------
(* The invariant *)


\* Thread t has an entry of h in its hands, between NextEntry and the filler.
Holding(t, h) == pc[t] = "fill" /\ serving[t] = h

\* What has been listed is behind the cursor, in order, and so is the entry in
\* flight; and unless the filler refused one, that is all there is behind it.
Listing(h) ==
  /\ given[h] \in Seq(ActivePlaces(cursor[h].key))
  /\ InOrder(given[h])
  /\ \A i \in 1 .. Len(given[h]) : given[h][i] \in Passed(cursor[h])
  /\ \A t \in Threads : Holding(t, h) =>
       /\ entry[t] \in Passed(cursor[h])
       /\ \A i \in 1 .. Len(given[h]) : Before(given[h][i], entry[t])
  /\ ~lost[h] =>
       \A p \in Passed(cursor[h]) :
         \/ \E i \in 1 .. Len(given[h]) : p = given[h][i]
         \/ \E t \in Threads : Holding(t, h) /\ entry[t] = p

HandleInv(h) ==
  IF cursor[h] = NULL THEN given[h] = <<>> ELSE Counting(cursor[h]) /\ Listing(h)

\* A call that ends without a refusal ends because the cursor is at the end.
CallInv(t) ==
  /\ pc[t] # "idle" => serving[t] \in Handles /\ cursor[serving[t]] # NULL
  /\ pc[t] = "end" /\ ~lost[serving[t]] =>
       error[t] = "end_of_file" /\ AtEnd(cursor[serving[t]])
  /\ pc[t] = "reply" /\ ~lost[serving[t]] =>
       result[t] = "OK" /\ AtEnd(cursor[serving[t]])

\* libfuse's lock: no two threads serve one handle.
Exclusive ==
  \A s, t \in Threads :
    (pc[s] # "idle" /\ pc[t] # "idle" /\ serving[s] = serving[t]) => s = t

\* The inductive invariant behind the three theorems.
DirInv ==
  /\ TypeOK
  /\ ~terminated
  /\ Exclusive
  /\ \A h \in Handles : HandleInv(h)
  /\ \A t \in Threads : CallInv(t)

LEMMA HandleSame ==
  ASSUME NEW h \in Handles, HandleInv(h),
         cursor'[h] = cursor[h], given'[h] = given[h], lost'[h] = lost[h],
         \A t \in Threads : Holding(t, h)' <=> Holding(t, h),
         \A t \in Threads : Holding(t, h) => entry'[t] = entry[t]
  PROVE  HandleInv(h)'
<1>1. CASE cursor[h] = NULL
  BY <1>1 DEF HandleInv
<1>2. CASE cursor[h] # NULL
  <2>1. Counting(cursor'[h]) /\ Listing(h)
    BY <1>2 DEF HandleInv
  <2>2. Listing(h)'
    BY <2>1 DEF Listing
  <2>3. QED
    BY <1>2, <2>1, <2>2 DEF HandleInv
<1>3. QED
  BY <1>1, <1>2

LEMMA CallSame ==
  ASSUME NEW t \in Threads, CallInv(t),
         pc'[t] = pc[t], serving'[t] = serving[t],
         error'[t] = error[t], result'[t] = result[t],
         pc[t] # "idle" => cursor'[serving[t]] = cursor[serving[t]],
         pc[t] # "idle" => lost'[serving[t]] = lost[serving[t]]
  PROVE  CallInv(t)'
BY DEF CallInv

\* Nothing of an entry in flight or of a call depends on an idle thread.
LEMMA InitDirInv == Init => DirInv
<1> SUFFICES ASSUME Init PROVE DirInv
  OBVIOUS
<1>1. given \in [Handles -> Seq((Nat \ {0}) \X SlotNumbers)]
  BY DEF Init
<1>2. TypeOK
  BY <1>1 DEF Init, TypeOK, Errors, Results
<1>3. QED
  BY <1>2 DEF Init, DirInv, Exclusive, HandleInv, CallInv

LEMMA OpenDirInv ==
  ASSUME DirInv, NEW t \in Threads, NEW h \in Handles, NEW k \in Directories,
         OpenDir(t, h, k)
  PROVE  DirInv'
<1>1. /\ cursor' = [cursor EXCEPT ![h] = OpenCursor(k)]
      /\ given' = [given EXCEPT ![h] = <<>>]
      /\ lost' = [lost EXCEPT ![h] = FALSE]
      /\ UNCHANGED <<threadVars, terminated>>
      /\ cursor[h] = NULL
  BY DEF OpenDir
<1>2. /\ TypeOK /\ ~terminated /\ Exclusive
      /\ \A i \in Handles : HandleInv(i)
      /\ \A s \in Threads : CallInv(s)
  BY DEF DirInv
<1>3. /\ cursor'[h] = OpenCursor(k) /\ given'[h] = <<>> /\ lost'[h] = FALSE
      /\ \A i \in Handles : i # h => /\ cursor'[i] = cursor[i] /\ given'[i] = given[i]
                                    /\ lost'[i] = lost[i]
  BY <1>1, <1>2 DEF TypeOK
<1>4. /\ Counting(OpenCursor(k)) /\ Standing(OpenCursor(k)) /\ OpenCursor(k).key = k
      /\ OpenCursor(k) # NULL
  BY OpenCounts, NullAssumption DEF Counting, Standing, NullAssumption
<1>5. Passed(OpenCursor(k)) = {}
  BY OpenCounts
<1>6. TypeOK'
  <2>1. <<>> \in Seq((Nat \ {0}) \X SlotNumbers)
    OBVIOUS
  <2>2. cursor' \in [Handles -> Cursors \cup {NULL}]
    BY <1>1, <1>2, <1>4 DEF TypeOK, Standing
  <2>3. \A i \in Handles :
          cursor'[i] # NULL => cursor'[i].block \in 1 .. Len(Slots[cursor'[i].key])
    BY <1>2, <1>3, <1>4 DEF TypeOK, Standing
  <2>4. QED
    BY <1>1, <1>2, <2>1, <2>2, <2>3 DEF TypeOK, threadVars
<1>7. HandleInv(h)'
  <2>1. Counting(cursor'[h])
    BY <1>3, <1>4
  <2>2. ASSUME NEW s \in Threads PROVE ~Holding(s, h)'
    BY <1>1, <1>2 DEF CallInv, Holding, threadVars
  <2>3. Listing(h)'
    BY <1>3, <1>4, <1>5, <2>2 DEF Listing, InOrder
  <2>4. QED
    BY <1>3, <1>4, <2>1, <2>3 DEF HandleInv
<1>8. ASSUME NEW i \in Handles, i # h PROVE HandleInv(i)'
  BY <1>1, <1>2, <1>3, <1>8, HandleSame DEF Holding, threadVars
<1>9. ASSUME NEW s \in Threads PROVE CallInv(s)'
  BY <1>1, <1>2, <1>3, CallSame DEF CallInv, threadVars
<1>10. QED
  BY <1>1, <1>2, <1>6, <1>7, <1>8, <1>9 DEF DirInv, Exclusive, threadVars

LEMMA CloseDirInv ==
  ASSUME DirInv, NEW t \in Threads, NEW h \in Handles, CloseDir(t, h)
  PROVE  DirInv'
<1>1. /\ cursor' = [cursor EXCEPT ![h] = NULL]
      /\ given' = [given EXCEPT ![h] = <<>>]
      /\ lost' = [lost EXCEPT ![h] = FALSE]
      /\ UNCHANGED <<threadVars, terminated>>
      /\ \A s \in Threads : pc[s] # "idle" => serving[s] # h
  BY DEF CloseDir, Busy
<1>2. /\ TypeOK /\ ~terminated /\ Exclusive
      /\ \A i \in Handles : HandleInv(i)
      /\ \A s \in Threads : CallInv(s)
  BY DEF DirInv
<1>3. /\ cursor'[h] = NULL /\ given'[h] = <<>> /\ lost'[h] = FALSE
      /\ \A i \in Handles : i # h => /\ cursor'[i] = cursor[i] /\ given'[i] = given[i]
                                    /\ lost'[i] = lost[i]
  BY <1>1, <1>2 DEF TypeOK
<1>4. TypeOK'
  <2>1. <<>> \in Seq((Nat \ {0}) \X SlotNumbers)
    OBVIOUS
  <2>2. \A i \in Handles :
          cursor'[i] # NULL => cursor'[i].block \in 1 .. Len(Slots[cursor'[i].key])
    BY <1>2, <1>3 DEF TypeOK
  <2>3. QED
    BY <1>1, <1>2, <2>1, <2>2 DEF TypeOK, threadVars
<1>5. HandleInv(h)'
  BY <1>3 DEF HandleInv
<1>6. ASSUME NEW i \in Handles, i # h PROVE HandleInv(i)'
  BY <1>1, <1>2, <1>3, <1>6, HandleSame DEF Holding, threadVars
<1>7. ASSUME NEW s \in Threads PROVE CallInv(s)'
  BY <1>1, <1>2, <1>3, CallSame DEF CallInv, threadVars
<1>8. QED
  BY <1>1, <1>2, <1>4, <1>5, <1>6, <1>7 DEF DirInv, Exclusive, threadVars

LEMMA OtherCallbackInv ==
  ASSUME DirInv, NEW t \in Threads, NEW e \in Failures, OtherCallback(t, e)
  PROVE  DirInv'
<1>1. /\ error' = [error EXCEPT ![t] = e]
      /\ UNCHANGED <<handleVars, pc, serving, entry, result, full, terminated>>
      /\ pc[t] = "idle"
  BY DEF OtherCallback, ErrorSet
<1>2. /\ TypeOK /\ ~terminated /\ Exclusive
      /\ \A i \in Handles : HandleInv(i)
      /\ \A s \in Threads : CallInv(s)
  BY DEF DirInv
<1>3. TypeOK'
  BY <1>1, <1>2, FailureAssumption DEF TypeOK, handleVars, FailureAssumption
<1>4. ASSUME NEW i \in Handles PROVE HandleInv(i)'
  BY <1>1, <1>2, HandleSame DEF Holding, handleVars
<1>5. ASSUME NEW s \in Threads PROVE CallInv(s)'
  BY <1>1, <1>2 DEF CallInv, handleVars, TypeOK
<1>6. QED
  BY <1>1, <1>2, <1>3, <1>4, <1>5 DEF DirInv, Exclusive, handleVars

LEMMA StartReadDirInv ==
  ASSUME DirInv, NEW t \in Threads, NEW h \in Handles, StartReadDir(t, h)
  PROVE  DirInv'
<1>1. /\ serving' = [serving EXCEPT ![t] = h]
      /\ pc' = [pc EXCEPT ![t] = "next"]
      /\ UNCHANGED <<handleVars, error, entry, result, full, terminated>>
      /\ pc[t] = "idle" /\ cursor[h] # NULL
      /\ \A s \in Threads : pc[s] # "idle" => serving[s] # h
  BY DEF StartReadDir, Busy
<1>2. /\ TypeOK /\ ~terminated /\ Exclusive
      /\ \A i \in Handles : HandleInv(i)
      /\ \A s \in Threads : CallInv(s)
  BY DEF DirInv
<1>3. /\ pc'[t] = "next" /\ serving'[t] = h
      /\ \A s \in Threads : s # t => pc'[s] = pc[s] /\ serving'[s] = serving[s]
  BY <1>1, <1>2 DEF TypeOK
<1>4. TypeOK'
  BY <1>1, <1>2 DEF TypeOK, handleVars
<1>5. ASSUME NEW i \in Handles PROVE HandleInv(i)'
  <2>1. \A s \in Threads : Holding(s, i)' <=> Holding(s, i)
    BY <1>1, <1>3 DEF Holding
  <2>2. QED
    BY <1>1, <1>2, <2>1, HandleSame DEF handleVars
<1>6. ASSUME NEW s \in Threads PROVE CallInv(s)'
  BY <1>1, <1>2, <1>3 DEF CallInv, handleVars
<1>7. Exclusive'
  BY <1>1, <1>2, <1>3 DEF Exclusive
<1>8. QED
  BY <1>1, <1>2, <1>4, <1>5, <1>6, <1>7 DEF DirInv

LEMMA NextEntryAtEndInv ==
  ASSUME DirInv, NEW t \in Threads, NextEntryAtEnd(t)
  PROVE  DirInv'
<1>1. /\ error' = [error EXCEPT ![t] = "end_of_file"]
      /\ pc' = [pc EXCEPT ![t] = "end"]
      /\ UNCHANGED <<handleVars, serving, entry, result, full, terminated>>
      /\ pc[t] = "next" /\ AtEnd(cursor[serving[t]])
  BY DEF NextEntryAtEnd, ErrorSet
<1>2. /\ TypeOK /\ ~terminated /\ Exclusive
      /\ \A i \in Handles : HandleInv(i)
      /\ \A s \in Threads : CallInv(s)
  BY DEF DirInv
<1>3. /\ pc'[t] = "end" /\ error'[t] = "end_of_file"
      /\ \A s \in Threads : s # t => pc'[s] = pc[s] /\ error'[s] = error[s]
  BY <1>1, <1>2 DEF TypeOK
<1>4. TypeOK'
  BY <1>1, <1>2 DEF TypeOK, handleVars, Errors
<1>5. ASSUME NEW i \in Handles PROVE HandleInv(i)'
  <2>1. \A s \in Threads : Holding(s, i)' <=> Holding(s, i)
    BY <1>1, <1>3 DEF Holding
  <2>2. QED
    BY <1>1, <1>2, <2>1, HandleSame DEF handleVars
<1>6. ASSUME NEW s \in Threads PROVE CallInv(s)'
  BY <1>1, <1>2, <1>3 DEF CallInv, handleVars
<1>7. Exclusive'
  BY <1>1, <1>2, <1>3 DEF Exclusive
<1>8. QED
  BY <1>1, <1>2, <1>4, <1>5, <1>6, <1>7 DEF DirInv

\* The thread that serves a handle is the only one that can hold an entry of it.
LEMMA Serves ==
  ASSUME DirInv, NEW t \in Threads, pc[t] # "idle"
  PROVE  /\ serving[t] \in Handles /\ cursor[serving[t]] # NULL
         /\ Counting(cursor[serving[t]]) /\ Listing(serving[t])
         /\ \A s \in Threads : s # t /\ pc[s] # "idle" => serving[s] # serving[t]
BY DEF DirInv, CallInv, HandleInv, Exclusive

LEMMA SkipInactiveInv ==
  ASSUME DirInv, NEW t \in Threads, SkipInactive(t)
  PROVE  DirInv'
<1> DEFINE h == serving[t]
           c == cursor[h]
<1>1. /\ h \in Handles /\ c # NULL /\ Counting(c) /\ Listing(h)
      /\ pc[t] = "next" /\ ~AtEnd(c) /\ EntryAt(c.key, Place(c)) = Inactive
      /\ \A s \in Threads : s # t /\ pc[s] # "idle" => serving[s] # h
  BY Serves DEF SkipInactive
<1>2. /\ cursor' = [cursor EXCEPT ![h] = NextCursor(c)]
      /\ UNCHANGED <<given, lost, threadVars, terminated>>
  BY <1>1, BlocksSuffice DEF SkipInactive
<1>3. /\ TypeOK /\ ~terminated /\ Exclusive
      /\ \A i \in Handles : HandleInv(i)
      /\ \A s \in Threads : CallInv(s)
  BY DEF DirInv
<1>4. /\ Counting(NextCursor(c)) /\ NextCursor(c).key = c.key
      /\ Passed(NextCursor(c)) = Passed(c)
      /\ NextCursor(c) # NULL
  <2>1. /\ Counting(NextCursor(c)) /\ NextCursor(c).key = c.key
        /\ Passed(NextCursor(c)) = Passed(c)
    BY <1>1, BlocksSuffice, SkipCounts
  <2>2. QED
    BY <2>1, NullAssumption DEF NullAssumption, Counting, Standing
<1>5. /\ cursor'[h] = NextCursor(c)
      /\ \A i \in Handles : i # h => cursor'[i] = cursor[i]
  BY <1>1, <1>2, <1>3 DEF TypeOK
<1>6. TypeOK'
  <2>1. cursor' \in [Handles -> Cursors \cup {NULL}]
    BY <1>2, <1>3, <1>4 DEF TypeOK, Counting, Standing
  <2>2. \A i \in Handles :
          cursor'[i] # NULL => cursor'[i].block \in 1 .. Len(Slots[cursor'[i].key])
    BY <1>3, <1>4, <1>5 DEF TypeOK, Counting, Standing
  <2>3. QED
    BY <1>2, <1>3, <2>1, <2>2 DEF TypeOK, threadVars
<1> HIDE DEF c, h
<1>7. ASSUME NEW k \in Handles, k = h PROVE HandleInv(k)'
  <2>1. \A s \in Threads : Holding(s, k)' <=> Holding(s, k)
    BY <1>2 DEF Holding, threadVars
  <2>2. /\ cursor[k] = c /\ Listing(k) /\ cursor'[k] = NextCursor(c)
        /\ given'[k] = given[k] /\ lost'[k] = lost[k] /\ entry' = entry
    BY <1>1, <1>2, <1>5, <1>7 DEF c, threadVars
  <2>3. Listing(k)'
    BY <1>4, <2>1, <2>2 DEF Listing
  <2>4. QED
    BY <1>4, <2>2, <2>3 DEF HandleInv
<1>8. ASSUME NEW i \in Handles, i # h PROVE HandleInv(i)'
  BY <1>2, <1>3, <1>5, <1>8, HandleSame DEF Holding, threadVars
<1>9. ASSUME NEW s \in Threads PROVE CallInv(s)'
  <2>1. CASE s = t
    BY <1>1, <1>2, <1>4, <1>5, <2>1 DEF CallInv, threadVars, h
  <2>2. CASE s # t
    BY <1>1, <1>2, <1>3, <1>5, <2>2, CallSame DEF CallInv, threadVars
  <2>3. QED
    BY <2>1, <2>2
<1>10. QED
  BY <1>2, <1>3, <1>6, <1>7, <1>8, <1>9 DEF DirInv, Exclusive, threadVars

LEMMA TakeEntryInv ==
  ASSUME DirInv, NEW t \in Threads, TakeEntry(t)
  PROVE  DirInv'
<1> DEFINE h == serving[t]
           c == cursor[h]
<1>1. /\ h \in Handles /\ c # NULL /\ Counting(c) /\ Listing(h)
      /\ pc[t] = "next" /\ ~AtEnd(c) /\ EntryAt(c.key, Place(c)) # Inactive
      /\ \A s \in Threads : s # t /\ pc[s] # "idle" => serving[s] # h
  BY Serves DEF TakeEntry
<1>2. /\ cursor' = [cursor EXCEPT ![h] = Taken(c)]
      /\ entry' = [entry EXCEPT ![t] = Place(c)]
      /\ pc' = [pc EXCEPT ![t] = "fill"]
      /\ UNCHANGED <<given, lost, error, serving, result, full, terminated>>
  BY <1>1, BlocksSuffice DEF TakeEntry
<1>3. /\ TypeOK /\ ~terminated /\ Exclusive
      /\ \A i \in Handles : HandleInv(i)
      /\ \A s \in Threads : CallInv(s)
  BY DEF DirInv
<1>4. /\ Counting(Taken(c)) /\ Taken(c).key = c.key
      /\ Place(c) \in ActivePlaces(c.key) \ Passed(c)
      /\ Passed(Taken(c)) = Passed(c) \cup {Place(c)}
      /\ Taken(c) # NULL
  <2>1. /\ Counting(Taken(c)) /\ Taken(c).key = c.key
        /\ Place(c) \in ActivePlaces(c.key) \ Passed(c)
        /\ Passed(Taken(c)) = Passed(c) \cup {Place(c)}
    BY <1>1, BlocksSuffice, TakeCounts
  <2>2. QED
    BY <2>1, NullAssumption DEF NullAssumption, Counting, Standing
<1>5. /\ cursor'[h] = Taken(c) /\ pc'[t] = "fill" /\ entry'[t] = Place(c)
      /\ \A i \in Handles : i # h => cursor'[i] = cursor[i]
      /\ \A s \in Threads : s # t => pc'[s] = pc[s] /\ entry'[s] = entry[s]
  BY <1>1, <1>2, <1>3 DEF TypeOK
<1>6. TypeOK'
  <2>1. cursor' \in [Handles -> Cursors \cup {NULL}]
    BY <1>2, <1>3, <1>4 DEF TypeOK, Counting, Standing
  <2>2. \A i \in Handles :
          cursor'[i] # NULL => cursor'[i].block \in 1 .. Len(Slots[cursor'[i].key])
    BY <1>3, <1>4, <1>5 DEF TypeOK, Counting, Standing
  <2>3. Place(c) \in (Nat \ {0}) \X SlotNumbers
    BY <1>1 DEF Counting, Standing, Cursors, Place
  <2>4. QED
    BY <1>2, <1>3, <2>1, <2>2, <2>3 DEF TypeOK
<1> HIDE DEF c, h
<1>7. ASSUME NEW k \in Handles, k = h PROVE HandleInv(k)'
  <2>1. \A s \in Threads : Holding(s, k)' => s = t
    BY <1>1, <1>2, <1>5, <1>7 DEF Holding, h
  <2>2. Holding(t, k)' /\ \A s \in Threads : ~Holding(s, k)
    BY <1>1, <1>2, <1>5, <1>7 DEF Holding, h
  <2>3. /\ cursor[k] = c /\ Listing(k) /\ cursor'[k] = Taken(c)
        /\ given'[k] = given[k] /\ lost'[k] = lost[k]
    BY <1>1, <1>2, <1>5, <1>7 DEF c
  <2>4. ASSUME NEW q \in Passed(c) PROVE Before(q, Place(c))
    BY DEF Passed
  <2>5. Listing(k)'
    <3>1. \A s \in Threads : Holding(s, k)' =>
            /\ entry'[s] \in Passed(cursor'[k])
            /\ \A i \in 1 .. Len(given'[k]) : Before(given'[k][i], entry'[s])
      BY <1>4, <1>5, <2>1, <2>3, <2>4 DEF Listing
    <3>2. ~lost'[k] =>
            \A p \in Passed(cursor'[k]) :
              \/ \E i \in 1 .. Len(given'[k]) : p = given'[k][i]
              \/ \E s \in Threads : Holding(s, k)' /\ entry'[s] = p
      BY <1>4, <1>5, <2>2, <2>3 DEF Listing
    <3>3. QED
      BY <1>4, <2>3, <3>1, <3>2 DEF Listing
  <2>6. QED
    BY <1>4, <2>3, <2>5 DEF HandleInv
<1>8. ASSUME NEW i \in Handles, i # h PROVE HandleInv(i)'
  <2>1. \A s \in Threads : /\ Holding(s, i)' <=> Holding(s, i)
                           /\ Holding(s, i) => entry'[s] = entry[s]
    BY <1>1, <1>2, <1>5, <1>8 DEF Holding, h
  <2>2. QED
    BY <1>2, <1>3, <1>5, <1>8, <2>1, HandleSame
<1>9. ASSUME NEW s \in Threads PROVE CallInv(s)'
  <2>1. CASE s = t
    BY <1>1, <1>2, <1>4, <1>5, <2>1 DEF CallInv, h
  <2>2. CASE s # t
    BY <1>1, <1>2, <1>3, <1>5, <2>2, CallSame
  <2>3. QED
    BY <2>1, <2>2
<1>10. Exclusive'
  BY <1>1, <1>2, <1>3, <1>5 DEF Exclusive
<1>11. QED
  BY <1>2, <1>3, <1>6, <1>7, <1>8, <1>9, <1>10 DEF DirInv

LEMMA FillInv ==
  ASSUME DirInv, NEW t \in Threads, Fill(t)
  PROVE  DirInv'
<1> DEFINE h == serving[t]
           e == entry[t]
<1>1. /\ h \in Handles /\ cursor[h] # NULL /\ Counting(cursor[h]) /\ Listing(h)
      /\ pc[t] = "fill"
      /\ \A s \in Threads : s # t /\ pc[s] # "idle" => serving[s] # h
  BY Serves DEF Fill
<1>2. /\ given' = [given EXCEPT ![h] = Append(@, e)]
      /\ entry' = [entry EXCEPT ![t] = NULL]
      /\ pc' = [pc EXCEPT ![t] = "next"]
      /\ UNCHANGED <<cursor, lost, error, serving, result, full, terminated>>
  BY DEF Fill
<1>3. /\ TypeOK /\ ~terminated /\ Exclusive
      /\ \A i \in Handles : HandleInv(i)
      /\ \A s \in Threads : CallInv(s)
  BY DEF DirInv
<1>4. /\ e \in Passed(cursor[h]) /\ e \in ActivePlaces(cursor[h].key)
      /\ \A i \in 1 .. Len(given[h]) : Before(given[h][i], e)
  BY <1>1 DEF Listing, Holding, Passed
<1>5. /\ given'[h] = Append(given[h], e) /\ pc'[t] = "next"
      /\ \A i \in Handles : i # h => given'[i] = given[i]
      /\ \A s \in Threads : s # t => pc'[s] = pc[s] /\ entry'[s] = entry[s]
  BY <1>1, <1>2, <1>3 DEF TypeOK
<1>6. TypeOK'
  <2>1. e \in (Nat \ {0}) \X SlotNumbers
    BY <1>4 DEF ActivePlaces, Places
  <2>2. Append(given[h], e) \in Seq((Nat \ {0}) \X SlotNumbers)
    BY <1>1, <1>3, <2>1, AppendElements DEF TypeOK
  <2>3. given' \in [Handles -> Seq((Nat \ {0}) \X SlotNumbers)]
    BY <1>2, <1>3, <2>2 DEF TypeOK
  <2>4. QED
    BY <1>2, <1>3, <2>3 DEF TypeOK
<1> HIDE DEF e, h
<1>7. ASSUME NEW k \in Handles, k = h PROVE HandleInv(k)'
  <2>1. \A s \in Threads : ~Holding(s, k)'
    BY <1>1, <1>2, <1>5, <1>7 DEF Holding, h
  <2>2. \A s \in Threads : Holding(s, k) => s = t
    BY <1>1, <1>7 DEF Holding, h
  <2>3. /\ cursor'[k] = cursor[k] /\ Listing(k) /\ Counting(cursor[k])
        /\ cursor[k] # NULL
        /\ lost'[k] = lost[k] /\ given'[k] = Append(given[k], e)
        /\ e \in Passed(cursor[k]) /\ e \in ActivePlaces(cursor[k].key)
        /\ \A i \in 1 .. Len(given[k]) : Before(given[k][i], e)
    BY <1>1, <1>2, <1>4, <1>5, <1>7
  <2>4. /\ given'[k] \in Seq(ActivePlaces(cursor[k].key))
        /\ Len(given'[k]) = Len(given[k]) + 1 /\ Len(given[k]) \in Nat
        /\ given'[k][Len(given[k]) + 1] = e
        /\ \A i \in 1 .. Len(given[k]) : given'[k][i] = given[k][i]
    BY <2>3, AppendElements DEF Listing
  <2>5. InOrder(given'[k])
    BY <2>3, <2>4 DEF Listing, InOrder
  <2>6. \A i \in 1 .. Len(given'[k]) : given'[k][i] \in Passed(cursor'[k])
    BY <2>3, <2>4 DEF Listing
  <2>7. ~lost'[k] =>
          \A p \in Passed(cursor'[k]) : \E i \in 1 .. Len(given'[k]) : p = given'[k][i]
    <3>1. SUFFICES ASSUME ~lost[k], NEW p \in Passed(cursor[k])
                   PROVE  \E i \in 1 .. Len(given'[k]) : p = given'[k][i]
      BY <2>3
    <3>2. CASE \E i \in 1 .. Len(given[k]) : p = given[k][i]
      BY <2>4, <3>2
    <3>3. CASE \E s \in Threads : Holding(s, k) /\ entry[s] = p
      <4>1. p = e
        BY <2>2, <3>3 DEF e
      <4>2. Len(given[k]) + 1 \in 1 .. Len(given'[k])
        BY <2>4
      <4>3. QED
        BY <2>4, <4>1, <4>2
    <3>4. QED
      BY <2>3, <3>1, <3>2, <3>3 DEF Listing
  <2>8. Listing(k)'
    BY <2>1, <2>3, <2>4, <2>5, <2>6, <2>7 DEF Listing
  <2>9. QED
    BY <2>3, <2>8 DEF HandleInv
<1>8. ASSUME NEW i \in Handles, i # h PROVE HandleInv(i)'
  <2>1. \A s \in Threads : /\ Holding(s, i)' <=> Holding(s, i)
                           /\ Holding(s, i) => entry'[s] = entry[s]
    BY <1>1, <1>2, <1>5, <1>8 DEF Holding, h
  <2>2. QED
    BY <1>2, <1>3, <1>5, <1>8, <2>1, HandleSame
<1>9. ASSUME NEW s \in Threads PROVE CallInv(s)'
  <2>1. CASE s = t
    BY <1>1, <1>2, <1>5, <2>1 DEF CallInv, h
  <2>2. CASE s # t
    BY <1>2, <1>3, <1>5, <2>2, CallSame
  <2>3. QED
    BY <2>1, <2>2
<1>10. Exclusive'
  BY <1>1, <1>2, <1>3, <1>5 DEF Exclusive
<1>11. QED
  BY <1>2, <1>3, <1>6, <1>7, <1>8, <1>9, <1>10 DEF DirInv

LEMMA FillerFullInv ==
  ASSUME DirInv, NEW t \in Threads, FillerFull(t)
  PROVE  DirInv'
<1> DEFINE h == serving[t]
<1>1. /\ h \in Handles /\ cursor[h] # NULL /\ Counting(cursor[h]) /\ Listing(h)
      /\ pc[t] = "fill"
      /\ \A s \in Threads : s # t /\ pc[s] # "idle" => serving[s] # h
  BY Serves DEF FillerFull
<1>2. /\ full' = [full EXCEPT ![t] = TRUE]
      /\ lost' = [lost EXCEPT ![h] = TRUE]
      /\ entry' = [entry EXCEPT ![t] = NULL]
      /\ pc' = [pc EXCEPT ![t] = "end"]
      /\ UNCHANGED <<cursor, given, error, serving, result, terminated>>
  BY DEF FillerFull
<1>3. /\ TypeOK /\ ~terminated /\ Exclusive
      /\ \A i \in Handles : HandleInv(i)
      /\ \A s \in Threads : CallInv(s)
  BY DEF DirInv
<1>4. /\ lost'[h] = TRUE /\ pc'[t] = "end"
      /\ \A i \in Handles : i # h => lost'[i] = lost[i]
      /\ \A s \in Threads : s # t => pc'[s] = pc[s] /\ entry'[s] = entry[s]
  BY <1>1, <1>2, <1>3 DEF TypeOK
<1>5. TypeOK'
  BY <1>2, <1>3 DEF TypeOK
<1> HIDE DEF h
<1>6. ASSUME NEW k \in Handles, k = h PROVE HandleInv(k)'
  <2>1. \A s \in Threads : ~Holding(s, k)'
    BY <1>1, <1>2, <1>4, <1>6 DEF Holding, h
  <2>2. /\ cursor'[k] = cursor[k] /\ Listing(k) /\ Counting(cursor[k])
        /\ cursor[k] # NULL /\ lost'[k] /\ given'[k] = given[k]
    BY <1>1, <1>2, <1>4, <1>6
  <2>3. Listing(k)'
    BY <2>1, <2>2 DEF Listing
  <2>4. QED
    BY <2>2, <2>3 DEF HandleInv
<1>7. ASSUME NEW i \in Handles, i # h PROVE HandleInv(i)'
  <2>1. \A s \in Threads : /\ Holding(s, i)' <=> Holding(s, i)
                           /\ Holding(s, i) => entry'[s] = entry[s]
    BY <1>1, <1>2, <1>4, <1>7 DEF Holding, h
  <2>2. QED
    BY <1>2, <1>3, <1>4, <1>7, <2>1, HandleSame
<1>8. ASSUME NEW s \in Threads PROVE CallInv(s)'
  <2>1. CASE s = t
    BY <1>1, <1>2, <1>4, <2>1 DEF CallInv, h
  <2>2. CASE s # t
    <3>1. CallInv(s) /\ (pc[s] # "idle" => lost'[serving[s]] = lost[serving[s]])
      BY <1>1, <1>3, <1>4, <2>2 DEF CallInv
    <3>2. QED
      BY <1>2, <1>4, <2>2, <3>1, CallSame
  <2>3. QED
    BY <2>1, <2>2
<1>9. Exclusive'
  BY <1>1, <1>2, <1>3, <1>4 DEF Exclusive
<1>10. QED
  BY <1>2, <1>3, <1>5, <1>6, <1>7, <1>8, <1>9 DEF DirInv

LEMMA FinishInv ==
  ASSUME DirInv, NEW t \in Threads, Finish(t)
  PROVE  DirInv'
<1>1. /\ result' = [result EXCEPT ![t] = ToError(error[t])]
      /\ pc' = [pc EXCEPT ![t] = "reply"]
      /\ UNCHANGED <<handleVars, error, serving, entry, full, terminated>>
      /\ pc[t] = "end"
  BY DEF Finish
<1>2. /\ TypeOK /\ ~terminated /\ Exclusive
      /\ \A i \in Handles : HandleInv(i)
      /\ \A s \in Threads : CallInv(s)
  BY DEF DirInv
<1>3. /\ pc'[t] = "reply" /\ result'[t] = ToError(error[t])
      /\ \A s \in Threads : s # t => pc'[s] = pc[s] /\ result'[s] = result[s]
  BY <1>1, <1>2 DEF TypeOK
<1>4. ToError(error[t]) \in Results
  BY DEF ToError, Results
<1>5. TypeOK'
  BY <1>1, <1>2, <1>4 DEF TypeOK, handleVars
<1>6. ASSUME NEW i \in Handles PROVE HandleInv(i)'
  <2>1. \A s \in Threads : Holding(s, i)' <=> Holding(s, i)
    BY <1>1, <1>3 DEF Holding
  <2>2. QED
    BY <1>1, <1>2, <2>1, HandleSame DEF handleVars
<1>7. ASSUME NEW s \in Threads PROVE CallInv(s)'
  <2>1. CASE s = t
    BY <1>1, <1>2, <1>3, <2>1 DEF CallInv, handleVars, ToError
  <2>2. CASE s # t
    BY <1>1, <1>2, <1>3, <2>2, CallSame DEF handleVars
  <2>3. QED
    BY <2>1, <2>2
<1>8. Exclusive'
  BY <1>1, <1>2, <1>3 DEF Exclusive
<1>9. QED
  BY <1>1, <1>2, <1>5, <1>6, <1>7, <1>8 DEF DirInv

LEMMA ReplyInv ==
  ASSUME DirInv, NEW t \in Threads, Reply(t)
  PROVE  DirInv'
<1>1. /\ pc' = [pc EXCEPT ![t] = "idle"]
      /\ serving' = [serving EXCEPT ![t] = NULL]
      /\ result' = [result EXCEPT ![t] = "OK"]
      /\ full' = [full EXCEPT ![t] = FALSE]
      /\ UNCHANGED <<handleVars, error, entry, terminated>>
      /\ pc[t] = "reply"
  BY DEF Reply
<1>2. /\ TypeOK /\ ~terminated /\ Exclusive
      /\ \A i \in Handles : HandleInv(i)
      /\ \A s \in Threads : CallInv(s)
  BY DEF DirInv
<1>3. /\ pc'[t] = "idle"
      /\ \A s \in Threads : s # t => /\ pc'[s] = pc[s] /\ serving'[s] = serving[s]
                                    /\ result'[s] = result[s]
  BY <1>1, <1>2 DEF TypeOK
<1>4. TypeOK'
  BY <1>1, <1>2 DEF TypeOK, handleVars, Results
<1>5. ASSUME NEW i \in Handles PROVE HandleInv(i)'
  <2>1. \A s \in Threads : Holding(s, i)' <=> Holding(s, i)
    BY <1>1, <1>3 DEF Holding
  <2>2. QED
    BY <1>1, <1>2, <2>1, HandleSame DEF handleVars
<1>6. ASSUME NEW s \in Threads PROVE CallInv(s)'
  <2>1. CASE s = t
    BY <1>3, <2>1 DEF CallInv
  <2>2. CASE s # t
    BY <1>1, <1>2, <1>3, <2>2, CallSame DEF handleVars
  <2>3. QED
    BY <2>1, <2>2
<1>7. Exclusive'
  BY <1>1, <1>2, <1>3 DEF Exclusive
<1>8. QED
  BY <1>1, <1>2, <1>4, <1>5, <1>6, <1>7 DEF DirInv

LEMMA StepDirInv ==
  ASSUME DirInv, [Next]_vars
  PROVE  DirInv'
<1>1. CASE UNCHANGED vars
  <2>1. \A h \in Handles, t \in Threads : Holding(t, h)' <=> Holding(t, h)
    BY <1>1 DEF vars, threadVars, Holding
  <2>2. \A h \in Handles : HandleInv(h)'
    BY <1>1, <2>1, HandleSame DEF DirInv, vars, handleVars, threadVars
  <2>3. \A t \in Threads : CallInv(t)'
    BY <1>1, CallSame DEF DirInv, vars, handleVars, threadVars
  <2>4. QED
    BY <1>1, <2>2, <2>3 DEF DirInv, TypeOK, Exclusive, vars, handleVars, threadVars
<1>2. CASE Next
  <2>1. PICK t \in Threads :
          \/ \E h \in Handles, k \in Directories : OpenDir(t, h, k)
          \/ \E h \in Handles : CloseDir(t, h) \/ StartReadDir(t, h)
          \/ \E e \in Failures : OtherCallback(t, e)
          \/ Work(t)
    BY <1>2 DEF Next
  <2>2. CASE \E h \in Handles, k \in Directories : OpenDir(t, h, k)
    BY <2>2, OpenDirInv
  <2>3. CASE \E h \in Handles : CloseDir(t, h) \/ StartReadDir(t, h)
    BY <2>3, CloseDirInv, StartReadDirInv
  <2>4. CASE \E e \in Failures : OtherCallback(t, e)
    BY <2>4, OtherCallbackInv
  <2>5. CASE Work(t)
    BY <2>5, NextEntryAtEndInv, SkipInactiveInv, TakeEntryInv, FillInv, FillerFullInv,
       FinishInv, ReplyInv DEF Work
  <2>6. QED
    BY <2>1, <2>2, <2>3, <2>4, <2>5
<1>3. QED
  BY <1>1, <1>2

LEMMA DirInvariant == Spec => []DirInv
<1>1. Init => DirInv
  BY InitDirInv
<1>2. DirInv /\ [Next]_vars => DirInv'
  BY StepDirInv
<1>3. QED
  BY <1>1, <1>2, PTL DEF Spec

-----------------------------------------------------------------------------
(* The theorems *)

\* Every variable keeps its type; a cursor stays in the blocks of its directory.
THEOREM TypeCorrect == Spec => []TypeOK
<1>1. DirInv => TypeOK
  BY DEF DirInv
<1>2. QED
  BY <1>1, DirInvariant, PTL

\* NextEntry never runs out of blocks (prodosfs_readdir).
THEOREM NoException == Spec => []NeverTerminates
<1>1. DirInv => NeverTerminates
  BY DEF DirInv, NeverTerminates
<1>2. QED
  BY <1>1, DirInvariant, PTL

\* A handle lists active entries only, in disk order, and none twice.
THEOREM NoRepetition == Spec => []ListedOnce
<1>1. ASSUME DirInv PROVE ListedOnce
  <2>1. ASSUME NEW h \in Handles
        PROVE  /\ InOrder(given[h])
               /\ cursor[h] # NULL =>
                    \A i \in 1 .. Len(given[h]) : given[h][i] \in ActivePlaces(cursor[h].key)
    <3>1. CASE cursor[h] = NULL
      <4>1. given[h] = <<>>
        BY <1>1, <3>1 DEF DirInv, HandleInv
      <4>2. QED
        BY <3>1, <4>1 DEF InOrder
    <3>2. CASE cursor[h] # NULL
      BY <1>1, <3>2 DEF DirInv, HandleInv, Listing, Passed
    <3>3. QED
      BY <3>1, <3>2
  <2>2. QED
    BY <2>1 DEF ListedOnce
<1>2. QED
  BY <1>1, DirInvariant, PTL

\* A listing that ends without a refusal is complete, and succeeds.
THEOREM CompleteListing == Spec => []ListingComplete
<1>1. ASSUME DirInv PROVE ListingComplete
  <2>1. SUFFICES ASSUME NEW t \in Threads, pc[t] = "reply", ~lost[serving[t]]
                 PROVE  /\ result[t] = "OK"
                        /\ {given[serving[t]][i] : i \in 1 .. Len(given[serving[t]])}
                             = ActivePlaces(cursor[serving[t]].key)
    BY DEF ListingComplete
  <2> DEFINE h == serving[t]
  <2>2. /\ h \in Handles /\ Counting(cursor[h]) /\ Listing(h)
        /\ \A s \in Threads : s # t /\ pc[s] # "idle" => serving[s] # h
    BY <1>1, <2>1, Serves
  <2>3. result[t] = "OK" /\ AtEnd(cursor[h])
    BY <1>1, <2>1 DEF DirInv, CallInv
  <2>4. Passed(cursor[h]) = ActivePlaces(cursor[h].key)
    BY <2>2, <2>3, AtEndPassedAll
  <2>5. \A s \in Threads : ~Holding(s, h)
    BY <2>1, <2>2 DEF Holding
  <2>6. \A p : p \in Passed(cursor[h]) <=> \E i \in 1 .. Len(given[h]) : p = given[h][i]
    BY <2>1, <2>2, <2>5 DEF Listing
  <2>7. QED
    BY <2>3, <2>4, <2>6
<1>2. QED
  BY <1>1, DirInvariant, PTL

-----------------------------------------------------------------------------
(* The refinement of DirectoryService *)

\* Only a call that is about to end has refused an entry, and one that has not refused
\* any ends because the cursor is at the end.
RefusalInv ==
  \A t \in Threads :
    /\ full[t] => pc[t] \in {"end", "reply"}
    /\ pc[t] = "end" /\ ~full[t] => error[t] = "end_of_file" /\ AtEnd(cursor[serving[t]])

LEMMA InitRefusal == Init => RefusalInv
BY DEF Init, RefusalInv

LEMMA StepRefusal ==
  ASSUME DirInv, RefusalInv, [Next]_vars
  PROVE  RefusalInv'
<1> SUFFICES ASSUME NEW s \in Threads
             PROVE  /\ full'[s] => pc'[s] \in {"end", "reply"}
                    /\ pc'[s] = "end" /\ ~full'[s] =>
                         error'[s] = "end_of_file" /\ AtEnd(cursor'[serving'[s]])
  BY DEF RefusalInv
<1> USE DEF handleVars, threadVars
<1>1. /\ full[s] => pc[s] \in {"end", "reply"}
      /\ pc[s] = "end" /\ ~full[s] => error[s] = "end_of_file" /\ AtEnd(cursor[serving[s]])
  BY DEF RefusalInv
<1>2. TypeOK
  BY DEF DirInv
<1>3. ASSUME NEW t \in Threads, pc[t] # "idle", s # t, pc[s] # "idle" PROVE serving[s] # serving[t]
  BY <1>3, Serves
<1>4. ASSUME NEW t \in Threads, NEW h \in Handles, NEW k \in Directories, OpenDir(t, h, k)
      PROVE  pc[s] = "end" => cursor'[serving[s]] = cursor[serving[s]]
  BY <1>2, <1>4, Serves DEF OpenDir, TypeOK
<1>5. ASSUME NEW t \in Threads, NEW h \in Handles, CloseDir(t, h)
      PROVE  pc[s] = "end" => cursor'[serving[s]] = cursor[serving[s]]
  BY <1>2, <1>5 DEF CloseDir, Busy, TypeOK
<1>6. CASE UNCHANGED vars
  BY <1>1, <1>6 DEF vars
<1>7. ASSUME NEW t \in Threads, NEW h \in Handles,
             (\E k \in Directories : OpenDir(t, h, k)) \/ CloseDir(t, h)
      PROVE  /\ full'[s] => pc'[s] \in {"end", "reply"}
             /\ pc'[s] = "end" /\ ~full'[s] =>
                  error'[s] = "end_of_file" /\ AtEnd(cursor'[serving'[s]])
  <2>1. UNCHANGED threadVars
    BY <1>7 DEF OpenDir, CloseDir
  <2>2. pc[s] = "end" => cursor'[serving[s]] = cursor[serving[s]]
    BY <1>4, <1>5, <1>7
  <2>3. QED
    BY <1>1, <2>1, <2>2
<1>8. ASSUME NEW t \in Threads,
             \/ \E h \in Handles : StartReadDir(t, h)
             \/ \E e \in Failures : OtherCallback(t, e)
             \/ NextEntryAtEnd(t) \/ Fill(t) \/ FillerFull(t) \/ Finish(t) \/ Reply(t)
      PROVE  /\ full'[s] => pc'[s] \in {"end", "reply"}
             /\ pc'[s] = "end" /\ ~full'[s] =>
                  error'[s] = "end_of_file" /\ AtEnd(cursor'[serving'[s]])
  BY <1>1, <1>2, <1>8 DEF StartReadDir, OtherCallback, NextEntryAtEnd, Fill, FillerFull, Finish,
                          Reply, ErrorSet, TypeOK
<1>9. ASSUME NEW t \in Threads, SkipInactive(t) \/ TakeEntry(t)
      PROVE  /\ full'[s] => pc'[s] \in {"end", "reply"}
             /\ pc'[s] = "end" /\ ~full'[s] =>
                  error'[s] = "end_of_file" /\ AtEnd(cursor'[serving'[s]])
  <2>1. /\ pc[t] = "next" /\ UNCHANGED <<full, error, serving>>
        /\ \A r \in Threads : r # t => pc'[r] = pc[r]
        /\ pc'[t] \in {"next", "fill"}
    BY <1>2, <1>9 DEF SkipInactive, TakeEntry, TypeOK
  <2>2. \A h \in Handles : h # serving[t] => cursor'[h] = cursor[h]
    BY <1>2, <1>9 DEF SkipInactive, TakeEntry, TypeOK
  <2>3. pc[s] = "end" => serving[s] \in Handles /\ serving[s] # serving[t]
    BY <1>3, <2>1, Serves
  <2>4. QED
    BY <1>1, <2>1, <2>2, <2>3
<1>10. QED
  BY <1>6, <1>7, <1>8, <1>9 DEF Next, Work

LeftMap == [h \in Handles |-> Left(h)]
CallMap == [t \in Threads |-> PendingCall(t)]

\* What is left is what the cursor has ahead, and what the thread that serves the handle
\* has in its hands.
LEMMA LeftFacts ==
  ASSUME DirInv, NEW t \in Threads, pc[t] # "idle"
  PROVE  LET h == serving[t] IN
         LeftMap[h] = Ahead(cursor[h]) \cup (IF pc[t] = "fill" THEN {entry[t]} ELSE {})
<1>1. /\ serving[t] \in Handles /\ cursor[serving[t]] # NULL
      /\ \A s \in Threads : s # t /\ pc[s] # "idle" => serving[s] # serving[t]
  BY Serves
<1>2. {u \in Threads : pc[u] = "fill" /\ serving[u] = serving[t]}
        = IF pc[t] = "fill" THEN {t} ELSE {}
  BY <1>1
<1>3. InFlight(serving[t]) = IF pc[t] = "fill" THEN {entry[t]} ELSE {}
  BY <1>2 DEF InFlight
<1>4. QED
  BY <1>1, <1>3 DEF LeftMap, Left

\* A handle that is open has a set of entries left, not NULL.
LEMMA LeftIsASet ==
  ASSUME DirInv, NEW h \in Handles
  PROVE  cursor[h] # NULL <=> LeftMap[h] # NULL
<1>1. CASE cursor[h] = NULL
  BY <1>1 DEF LeftMap, Left
<1>2. CASE cursor[h] # NULL
  <2>1. Counting(cursor[h]) /\ Listing(h)
    BY <1>2 DEF DirInv, HandleInv
  <2>2. cursor[h].key \in Directories
    BY <2>1 DEF Counting, Standing, Cursors
  <2>3. InFlight(h) \subseteq ActivePlaces(cursor[h].key)
    BY <2>1 DEF Listing, Holding, InFlight, Passed
  <2>4. Left(h) \in SUBSET ActivePlaces(cursor[h].key)
    BY <1>2, <2>3 DEF Left, Ahead
  <2>5. QED
    BY <1>2, <2>2, <2>4, NullAssumption DEF NullAssumption, LeftMap
<1>3. QED
  BY <1>1, <1>2

\* A thread has a call in the abstract exactly when it serves one.
LEMMA CallFacts ==
  ASSUME DirInv, NEW t \in Threads
  PROVE  /\ pc[t] = "idle" => CallMap[t] = NULL
         /\ pc[t] # "idle" =>
              /\ CallMap[t] # NULL
              /\ CallMap[t] = [handle |-> serving[t], refused |-> full[t],
                               answer |-> IF pc[t] = "reply" THEN result[t] ELSE NULL]
              /\ CallMap[t].handle = serving[t]
              /\ CallMap[t].refused = full[t]
              /\ CallMap[t].answer = IF pc[t] = "reply" THEN result[t] ELSE NULL
         /\ result[t] # NULL
<1>1. result[t] \in Results /\ full[t] \in BOOLEAN
  BY DEF DirInv, TypeOK
<1>2. result[t] # NULL
  BY <1>1, NullAssumption DEF NullAssumption
<1>3. CASE pc[t] = "idle"
  BY <1>2, <1>3 DEF CallMap, PendingCall
<1>4. CASE pc[t] # "idle"
  <2> DEFINE c == [handle |-> serving[t], refused |-> full[t],
                   answer |-> IF pc[t] = "reply" THEN result[t] ELSE NULL]
  <2>1. CallMap[t] = c
    BY <1>4 DEF CallMap, PendingCall
  <2>2. c \in [handle: Handles, refused: BOOLEAN, answer: Results \cup {NULL}]
    BY <1>1, <1>4, Serves
  <2>3. c # NULL
    BY <2>2, NullAssumption DEF NullAssumption
  <2>4. QED
    BY <1>2, <1>4, <2>1, <2>3
<1>5. QED
  BY <1>3, <1>4

LEMMA LeftSame ==
  ASSUME NEW h \in Handles, cursor'[h] = cursor[h],
         \A t \in Threads : Holding(t, h)' <=> Holding(t, h),
         \A t \in Threads : Holding(t, h) => entry'[t] = entry[t]
  PROVE  LeftMap'[h] = LeftMap[h]
<1>1. InFlight(h)' = InFlight(h)
  BY DEF InFlight, Holding
<1>2. QED
  BY <1>1 DEF LeftMap, Left

LEMMA CallSameMap ==
  ASSUME NEW t \in Threads, pc'[t] = pc[t], serving'[t] = serving[t], full'[t] = full[t],
         result'[t] = result[t]
  PROVE  CallMap'[t] = CallMap[t]
BY DEF CallMap, PendingCall

\* The maps change as their values do.
LEMMA LeftUpdate ==
  ASSUME NEW h \in Handles, \A g \in Handles \ {h} : LeftMap'[g] = LeftMap[g]
  PROVE  LeftMap' = [LeftMap EXCEPT ![h] = LeftMap'[h]]
BY DEF LeftMap

LEMMA CallUpdate ==
  ASSUME NEW t \in Threads, \A s \in Threads \ {t} : CallMap'[s] = CallMap[s]
  PROVE  CallMap' = [CallMap EXCEPT ![t] = CallMap'[t]]
BY DEF CallMap

LEMMA LeftUnchanged ==
  ASSUME \A h \in Handles : LeftMap'[h] = LeftMap[h]
  PROVE  LeftMap' = LeftMap
BY DEF LeftMap

LEMMA CallUnchanged ==
  ASSUME \A t \in Threads : CallMap'[t] = CallMap[t]
  PROVE  CallMap' = CallMap
BY DEF CallMap

LEMMA UsedFacts ==
  ASSUME DirInv, NEW h \in Handles
  PROVE  Busy(h) <=> \E t \in Threads : CallMap[t] # NULL /\ CallMap[t].handle = h
<1>1. ASSUME NEW t \in Threads
      PROVE  (pc[t] # "idle" /\ serving[t] = h) <=> (CallMap[t] # NULL /\ CallMap[t].handle = h)
  <2>1. CASE pc[t] = "idle"
    BY <2>1, CallFacts
  <2>2. CASE pc[t] # "idle"
    <3>1. CallMap[t] # NULL /\ CallMap[t].handle = serving[t]
      BY <2>2, CallFacts
    <3>2. QED
      BY <2>2, <3>1
  <2>3. QED
    BY <2>1, <2>2
<1>2. QED
  BY <1>1 DEF Busy

LEMMA OpenDirStep ==
  ASSUME DirInv, NEW t \in Threads, NEW h \in Handles, NEW k \in Directories, OpenDir(t, h, k)
  PROVE  Service!Open(h, k)
<1>1. /\ cursor[h] = NULL /\ cursor' = [cursor EXCEPT ![h] = OpenCursor(k)]
      /\ UNCHANGED threadVars
  BY DEF OpenDir
<1>2. /\ cursor'[h] = OpenCursor(k) /\ \A g \in Handles : g # h => cursor'[g] = cursor[g]
  BY <1>1 DEF DirInv, TypeOK
<1>3. LeftMap[h] = NULL
  BY <1>1, LeftIsASet
<1>4. LeftMap'[h] = ActivePlaces(k)
  <2>1. InFlight(h)' = {}
    BY <1>1, Serves DEF InFlight, threadVars
  <2>2. Ahead(OpenCursor(k)) = ActivePlaces(k) /\ OpenCursor(k) # NULL
    <3>1. /\ Standing(OpenCursor(k)) /\ OpenCursor(k).key = k
          /\ Passed(OpenCursor(k)) = {}
      BY OpenCounts DEF Counting
    <3>2. Ahead(OpenCursor(k)) = ActivePlaces(k)
      BY <3>1, AheadFacts
    <3>3. QED
      BY <3>1, <3>2, NullAssumption DEF Standing, NullAssumption
  <2>3. QED
    BY <1>2, <2>1, <2>2 DEF LeftMap, Left
<1>5. ASSUME NEW g \in Handles \ {h} PROVE LeftMap'[g] = LeftMap[g]
  BY <1>1, <1>2, LeftSame DEF Holding, threadVars
<1>6. LeftMap' = [LeftMap EXCEPT ![h] = ActivePlaces(k)]
  BY <1>4, <1>5, LeftUpdate
<1>7. CallMap' = CallMap
  BY <1>1, CallSameMap, CallUnchanged DEF threadVars
<1>8. QED
  BY <1>3, <1>6, <1>7 DEF Service!Open, LeftMap, CallMap

LEMMA CloseDirStep ==
  ASSUME DirInv, NEW t \in Threads, NEW h \in Handles, CloseDir(t, h)
  PROVE  Service!Close(h)
<1>1. /\ cursor[h] # NULL /\ cursor' = [cursor EXCEPT ![h] = NULL] /\ ~Busy(h)
      /\ UNCHANGED threadVars
  BY DEF CloseDir
<1>2. /\ cursor'[h] = NULL /\ \A g \in Handles : g # h => cursor'[g] = cursor[g]
  BY <1>1 DEF DirInv, TypeOK
<1>3. LeftMap[h] # NULL /\ LeftMap'[h] = NULL
  BY <1>1, <1>2, LeftIsASet DEF LeftMap, Left
<1>4. ASSUME NEW g \in Handles \ {h} PROVE LeftMap'[g] = LeftMap[g]
  BY <1>1, <1>2, LeftSame DEF Holding, threadVars
<1>5. LeftMap' = [LeftMap EXCEPT ![h] = NULL]
  BY <1>3, <1>4, LeftUpdate
<1>6. CallMap' = CallMap
  BY <1>1, CallSameMap, CallUnchanged DEF threadVars
<1>7. QED
  BY <1>1, <1>3, <1>5, <1>6, UsedFacts DEF Service!Close, Service!Used, LeftMap, CallMap

LEMMA StartReadDirStep ==
  ASSUME DirInv, RefusalInv, NEW t \in Threads, NEW h \in Handles, StartReadDir(t, h)
  PROVE  Service!Ask(t, h)
<1>1. /\ pc[t] = "idle" /\ cursor[h] # NULL /\ ~Busy(h)
      /\ UNCHANGED <<handleVars, entry, result, full>>
  BY DEF StartReadDir
<1>2. /\ pc'[t] = "next" /\ serving'[t] = h
      /\ \A s \in Threads : s # t => pc'[s] = pc[s] /\ serving'[s] = serving[s]
  BY DEF StartReadDir, DirInv, TypeOK
<1>3. CallMap[t] = NULL /\ LeftMap[h] # NULL
  BY <1>1, CallFacts, LeftIsASet
<1>4. full[t] = FALSE
  BY <1>1 DEF RefusalInv, DirInv, TypeOK
<1>5. CallMap'[t] = [handle |-> h, refused |-> FALSE, answer |-> NULL]
  BY <1>1, <1>2, <1>4 DEF CallMap, PendingCall
<1>6. ASSUME NEW s \in Threads \ {t} PROVE CallMap'[s] = CallMap[s]
  BY <1>1, <1>2, CallSameMap
<1>7. CallMap' = [CallMap EXCEPT ![t] = [handle |-> h, refused |-> FALSE, answer |-> NULL]]
  BY <1>5, <1>6, CallUpdate
<1>8. LeftMap' = LeftMap
  BY <1>1, <1>2, LeftSame, LeftUnchanged DEF Holding, handleVars
<1>9. QED
  BY <1>1, <1>3, <1>7, <1>8, UsedFacts DEF Service!Ask, Service!Used, LeftMap, CallMap

\* The steps that the client does not see.
LEMMA HiddenStep ==
  ASSUME DirInv, NEW t \in Threads,
         \/ \E e \in Failures : OtherCallback(t, e)
         \/ NextEntryAtEnd(t) \/ SkipInactive(t) \/ TakeEntry(t)
  PROVE  UNCHANGED <<LeftMap, CallMap>>
<1>1. TypeOK
  BY DEF DirInv
<1>2. CASE \E e \in Failures : OtherCallback(t, e)
  <2>1. UNCHANGED <<handleVars, pc, serving, entry, result, full>>
    BY <1>2 DEF OtherCallback
  <2>2. QED
    BY <2>1, LeftSame, LeftUnchanged, CallSameMap, CallUnchanged DEF Holding, handleVars
<1>3. CASE NextEntryAtEnd(t)
  <2>1. /\ UNCHANGED <<handleVars, serving, entry, result, full>>
        /\ pc[t] = "next" /\ pc'[t] = "end" /\ \A s \in Threads : s # t => pc'[s] = pc[s]
    BY <1>1, <1>3 DEF NextEntryAtEnd, TypeOK
  <2>2. LeftMap' = LeftMap
    BY <2>1, LeftSame, LeftUnchanged DEF Holding, handleVars
  <2>3. CallMap'[t] = CallMap[t]
    BY <2>1 DEF CallMap, PendingCall
  <2>4. \A s \in Threads \ {t} : CallMap'[s] = CallMap[s]
    BY <2>1, CallSameMap
  <2>5. QED
    BY <2>2, <2>3, <2>4, CallUnchanged
<1>4. CASE SkipInactive(t) \/ TakeEntry(t)
  <2> DEFINE h == serving[t]
             c == cursor[h]
  <2>1. /\ h \in Handles /\ c # NULL /\ Counting(c) /\ pc[t] = "next" /\ ~AtEnd(c)
        /\ \A s \in Threads : s # t /\ pc[s] # "idle" => serving[s] # h
    BY <1>4, Serves DEF SkipInactive, TakeEntry
  <2>2. ~NoMoreBlocks(c)
    BY <2>1, BlocksSuffice
  <2>3. /\ UNCHANGED <<serving, result, full>>
        /\ \A g \in Handles : g # h => cursor'[g] = cursor[g]
        /\ \A s \in Threads : s # t => pc'[s] = pc[s] /\ entry'[s] = entry[s]
    BY <1>1, <1>4, <2>2 DEF SkipInactive, TakeEntry, TypeOK, threadVars
  <2>4. pc'[t] \in {"next", "fill"}
    BY <1>1, <1>4, <2>1, <2>2 DEF SkipInactive, TakeEntry, TypeOK, threadVars
  <2>5. CallMap' = CallMap
    <3>1. CallMap'[t] = CallMap[t]
      BY <2>1, <2>3, <2>4 DEF CallMap, PendingCall
    <3>2. \A s \in Threads \ {t} : CallMap'[s] = CallMap[s]
      BY <2>3, CallSameMap
    <3>3. QED
      BY <3>1, <3>2, CallUnchanged
  <2>6. ASSUME NEW g \in Handles \ {h} PROVE LeftMap'[g] = LeftMap[g]
    BY <2>1, <2>3, LeftSame DEF Holding
  <2>7. LeftMap[h] = Ahead(c)
    BY <2>1, LeftFacts
  <2>8. LeftMap'[h] = Ahead(cursor'[h]) \cup (IF pc'[t] = "fill" THEN {entry'[t]} ELSE {})
    <3>1. DirInv'
      BY <1>4, SkipInactiveInv, TakeEntryInv
    <3>2. \A s \in Threads : pc'[s] = "fill" /\ serving'[s] = h => s = t
      BY <2>1, <2>3
    <3>3. InFlight(h)' = IF pc'[t] = "fill" THEN {entry'[t]} ELSE {}
      BY <2>3, <3>2 DEF InFlight
    <3>4. cursor'[h] # NULL
      BY <2>1, <2>3, <2>4, <3>1 DEF DirInv, CallInv
    <3>5. QED
      BY <2>1, <2>3, <3>3, <3>4 DEF LeftMap, Left
  <2>9. LeftMap'[h] = Ahead(c)
    <3>1. CASE SkipInactive(t)
      <4>1. EntryAt(c.key, Place(c)) = Inactive /\ cursor'[h] = NextCursor(c) /\ pc'[t] = "next"
        BY <1>1, <2>1, <2>2, <3>1 DEF SkipInactive, TypeOK, threadVars
      <4>2. Ahead(NextCursor(c)) = Ahead(c)
        BY <2>1, <2>2, <4>1, SkipCounts, AheadFacts DEF Counting
      <4>3. QED
        BY <2>8, <4>1, <4>2
    <3>2. CASE TakeEntry(t)
      <4>1. /\ EntryAt(c.key, Place(c)) # Inactive /\ cursor'[h] = Taken(c)
            /\ pc'[t] = "fill" /\ entry'[t] = Place(c)
        BY <1>1, <2>1, <2>2, <3>2 DEF TakeEntry, TypeOK
      <4>2. Ahead(Taken(c)) \cup {Place(c)} = Ahead(c)
        <5>1. /\ Counting(Taken(c)) /\ Taken(c).key = c.key
              /\ Place(c) \in ActivePlaces(c.key) \ Passed(c)
              /\ Passed(Taken(c)) = Passed(c) \cup {Place(c)}
          BY <2>1, <2>2, <4>1, TakeCounts
        <5>2. /\ Ahead(c) = ActivePlaces(c.key) \ Passed(c)
              /\ Ahead(Taken(c)) = ActivePlaces(c.key) \ Passed(Taken(c))
          BY <2>1, <5>1, AheadFacts DEF Counting
        <5>3. QED
          BY <5>1, <5>2
      <4>3. QED
        BY <2>8, <4>1, <4>2
    <3>3. QED
      BY <1>4, <3>1, <3>2
  <2>10. LeftMap' = LeftMap
    BY <2>1, <2>6, <2>7, <2>9, LeftUnchanged
  <2>11. QED
    BY <2>5, <2>10
<1>5. QED
  BY <1>2, <1>3, <1>4

\* The entry in flight is the first that is left, and leaves.
LEMMA LeavesStep ==
  ASSUME DirInv, RefusalInv, NEW t \in Threads, pc[t] = "fill",
         UNCHANGED <<cursor, serving>>, pc'[t] # "fill",
         \A s \in Threads : s # t => pc'[s] = pc[s] /\ entry'[s] = entry[s]
  PROVE  Service!Leaves(t)
<1> DEFINE h == serving[t]
           c == cursor[h]
<1>1. /\ h \in Handles /\ c # NULL /\ Counting(c) /\ Listing(h)
      /\ \A s \in Threads : s # t /\ pc[s] # "idle" => serving[s] # h
  BY Serves
<1>2. LeftMap[h] = Ahead(c) \cup {entry[t]}
  BY LeftFacts
<1>3. entry[t] \in Passed(c)
  BY <1>1 DEF Listing, Holding
<1>4. entry[t] \notin Ahead(c) /\ \A q \in Ahead(c) : Before(entry[t], q)
  BY <1>1, <1>3, AheadFacts DEF Counting
<1>5. LeftMap'[h] = Ahead(c)
  <2>1. \A s \in Threads : ~(pc'[s] = "fill" /\ serving'[s] = serving[t])
    BY <1>1
  <2>2. {s \in Threads : pc'[s] = "fill" /\ serving'[s] = serving[t]} = {}
    BY <2>1
  <2>3. InFlight(serving[t])' = {}
    BY <2>1 DEF InFlight
  <2>4. QED
    BY <1>1, <2>3 DEF LeftMap, Left
<1>6. ASSUME NEW g \in Handles \ {h} PROVE LeftMap'[g] = LeftMap[g]
  BY <1>1, LeftSame DEF Holding
<1>7. LeftMap' = [LeftMap EXCEPT ![h] = LeftMap[h] \ {entry[t]}]
  <2>1. LeftMap[h] \ {entry[t]} = Ahead(c)
    BY <1>2, <1>4
  <2>2. QED
    BY <1>1, <1>5, <1>6, <2>1, LeftUpdate
<1>8. /\ CallMap[t] # NULL /\ CallMap[t].handle = h /\ CallMap[t].refused = FALSE
      /\ CallMap[t].answer = NULL
  <2>1. full[t] = FALSE
    BY DEF RefusalInv, DirInv, TypeOK
  <2>2. QED
    BY <2>1, CallFacts
<1>9. \A q \in LeftMap[h] \ {entry[t]} : Before(entry[t], q)
  BY <1>2, <1>4
<1>10. entry[t] \in LeftMap[h]
  BY <1>2
<1> HIDE DEF h, c
<1>11. QED
  BY <1>7, <1>8, <1>9, <1>10 DEF Service!Leaves, LeftMap, CallMap

LEMMA FillStep ==
  ASSUME DirInv, RefusalInv, NEW t \in Threads, Fill(t)
  PROVE  Service!Give(t)
<1>1. /\ pc[t] = "fill" /\ pc'[t] = "next"
      /\ \A s \in Threads : s # t => pc'[s] = pc[s] /\ entry'[s] = entry[s]
      /\ UNCHANGED <<cursor, serving, result, full>>
  BY DEF Fill, DirInv, TypeOK
<1>2. Service!Leaves(t)
  BY <1>1, LeavesStep
<1>3. CallMap'[t] = CallMap[t]
  BY <1>1 DEF CallMap, PendingCall
<1>4. \A s \in Threads \ {t} : CallMap'[s] = CallMap[s]
  BY <1>1, CallSameMap
<1>5. CallMap' = CallMap
  BY <1>3, <1>4, CallUnchanged
<1>6. QED
  BY <1>2, <1>5 DEF Service!Give, CallMap

LEMMA RefusedFact ==
  ASSUME NEW c, NEW h, NEW r, NEW a, NEW b, c = [handle |-> h, refused |-> r, answer |-> a]
  PROVE  [c EXCEPT !.refused = b] = [handle |-> h, refused |-> b, answer |-> a]
OBVIOUS

LEMMA FillerFullStep ==
  ASSUME DirInv, RefusalInv, NEW t \in Threads, FillerFull(t)
  PROVE  Service!Refuse(t)
<1>1. /\ pc[t] = "fill" /\ pc'[t] = "end" /\ full'[t] = TRUE
      /\ \A s \in Threads : s # t => /\ pc'[s] = pc[s] /\ entry'[s] = entry[s]
                                    /\ full'[s] = full[s]
      /\ UNCHANGED <<cursor, serving, result>>
  BY DEF FillerFull, DirInv, TypeOK
<1>2. Service!Leaves(t)
  BY <1>1, LeavesStep
<1>3. CallMap'[t] = [CallMap[t] EXCEPT !.refused = full'[t]]
  <2>1. CallMap[t] = [handle |-> serving[t], refused |-> full[t], answer |-> NULL]
    BY <1>1 DEF CallMap, PendingCall
  <2>2. CallMap'[t] = [handle |-> serving[t], refused |-> full'[t], answer |-> NULL]
    BY <1>1 DEF CallMap, PendingCall
  <2>3. QED
    BY <2>1, <2>2, RefusedFact
<1>4. \A s \in Threads \ {t} : CallMap'[s] = CallMap[s]
  BY <1>1, CallSameMap
<1>5. CallMap' = [CallMap EXCEPT ![t] = [CallMap[t] EXCEPT !.refused = full'[t]]]
  BY <1>3, <1>4, CallUpdate
<1>6. QED
  BY <1>1, <1>2, <1>5 DEF Service!Refuse, CallMap

LEMMA FinishStep ==
  ASSUME DirInv, RefusalInv, NEW t \in Threads, Finish(t)
  PROVE  Service!Answer(t)
<1>1. /\ pc[t] = "end" /\ pc'[t] = "reply" /\ result'[t] = ToError(error[t])
      /\ \A s \in Threads : s # t => pc'[s] = pc[s] /\ result'[s] = result[s]
      /\ UNCHANGED <<handleVars, serving, entry, full>>
  BY DEF Finish, DirInv, TypeOK
<1>2. CallMap[t] # NULL /\ CallMap[t] = [handle |-> serving[t], refused |-> full[t], answer |-> NULL]
  BY <1>1, CallFacts
<1>3. CallMap'[t] = [CallMap[t] EXCEPT !.answer = ToError(error[t])]
  BY <1>1, <1>2 DEF CallMap, PendingCall
<1>4. \A s \in Threads \ {t} : CallMap'[s] = CallMap[s]
  BY <1>1, CallSameMap
<1>5. CallMap' = [CallMap EXCEPT ![t] = [CallMap[t] EXCEPT !.answer = ToError(error[t])]]
  BY <1>3, <1>4, CallUpdate
<1>6. LeftMap' = LeftMap
  BY <1>1, LeftSame, LeftUnchanged DEF Holding, handleVars
<1>7. ASSUME ~full[t] PROVE LeftMap[serving[t]] = {} /\ ToError(error[t]) = "OK"
  <2>2. error[t] = "end_of_file" /\ AtEnd(cursor[serving[t]])
    BY <1>1, <1>7 DEF RefusalInv
  <2>3. Counting(cursor[serving[t]])
    BY <1>1, Serves
  <2>4. Ahead(cursor[serving[t]]) = {}
    BY <2>2, <2>3, AtEndPassedAll, AheadFacts DEF Counting
  <2>5. LeftMap[serving[t]] = {}
    BY <1>1, <2>4, LeftFacts
  <2>6. QED
    BY <2>2, <2>5 DEF ToError
<1>8. ToError(error[t]) \in Results
  BY DEF ToError, Results
<1>9. /\ CallMap[t] # NULL /\ CallMap[t].answer = NULL /\ CallMap[t].refused = full[t]
      /\ CallMap[t].handle = serving[t]
  BY <1>2
<1>10. CASE full[t]
  BY <1>5, <1>6, <1>8, <1>9, <1>10 DEF Service!Answer, LeftMap, CallMap
<1>11. CASE ~full[t]
  <2>1. CallMap' = [CallMap EXCEPT ![t] = [CallMap[t] EXCEPT !.answer = "OK"]]
    BY <1>5, <1>7, <1>11
  <2>2. QED
    BY <1>6, <1>7, <1>9, <1>11, <2>1 DEF Service!Answer, LeftMap, CallMap
<1>12. QED
  BY <1>10, <1>11

LEMMA ReplyStep ==
  ASSUME DirInv, NEW t \in Threads, Reply(t)
  PROVE  Service!Return(t)
<1>1. /\ pc[t] = "reply" /\ pc'[t] = "idle" /\ UNCHANGED <<handleVars, entry>>
      /\ \A s \in Threads : s # t => /\ pc'[s] = pc[s] /\ serving'[s] = serving[s]
                                    /\ result'[s] = result[s] /\ full'[s] = full[s]
  BY DEF Reply, DirInv, TypeOK
<1>2. CallMap[t] # NULL /\ CallMap[t].answer # NULL
  BY <1>1, CallFacts
<1>3. CallMap'[t] = NULL
  BY <1>1 DEF CallMap, PendingCall
<1>4. \A s \in Threads \ {t} : CallMap'[s] = CallMap[s]
  BY <1>1, CallSameMap
<1>5. CallMap' = [CallMap EXCEPT ![t] = NULL]
  BY <1>3, <1>4, CallUpdate
<1>6. LeftMap' = LeftMap
  BY <1>1, LeftSame, LeftUnchanged DEF Holding, handleVars
<1>7. QED
  BY <1>2, <1>5, <1>6 DEF Service!Return, LeftMap, CallMap

LEMMA ServiceStep ==
  ASSUME DirInv, RefusalInv, [Next]_vars
  PROVE  [Service!Next]_(Service!vars)
<1>1. CASE UNCHANGED vars
  <2>1. UNCHANGED <<LeftMap, CallMap>>
    BY <1>1, LeftSame, LeftUnchanged, CallSameMap, CallUnchanged
       DEF vars, threadVars, handleVars, Holding
  <2>2. QED
    BY <2>1 DEF Service!vars, LeftMap, CallMap
<1>2. ASSUME NEW t \in Threads,
             \/ \E h \in Handles, k \in Directories : OpenDir(t, h, k)
             \/ \E h \in Handles : CloseDir(t, h) \/ StartReadDir(t, h)
             \/ Fill(t) \/ FillerFull(t) \/ Finish(t) \/ Reply(t)
      PROVE  Service!Next
  BY <1>2, OpenDirStep, CloseDirStep, StartReadDirStep, FillStep, FillerFullStep, FinishStep,
     ReplyStep DEF Service!Next, Service!Serve
<1>3. ASSUME NEW t \in Threads,
             \/ \E e \in Failures : OtherCallback(t, e)
             \/ NextEntryAtEnd(t) \/ SkipInactive(t) \/ TakeEntry(t)
      PROVE  UNCHANGED Service!vars
  BY <1>3, HiddenStep DEF Service!vars, LeftMap, CallMap
<1>4. QED
  BY <1>1, <1>2, <1>3 DEF Next, Work

\* The slots, the count and the thread's error together list an open directory as
\* DirectoryService promises, whatever threads there are and whatever the filler refuses
\* (prodosfs_readdir, NextEntry).
THEOREM Refinement == Spec => ImplementsService
<1>1. Init => Service!Init
  BY DEF Init, Service!Init, Left, PendingCall
<1>2. DirInv /\ RefusalInv /\ [Next]_vars => RefusalInv' /\ [Service!Next]_(Service!vars)
  BY StepRefusal, ServiceStep
<1>3. QED
  BY <1>1, <1>2, InitRefusal, DirInvariant, PTL DEF Spec, ImplementsService, Service!Spec
=============================================================================
