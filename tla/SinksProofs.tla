---------------------------- MODULE SinksProofs ----------------------------
(***************************************************************************)
(* Proofs about Sinks, for any writers and workers, every chain, and any   *)
(* sizes, budgets and number of entries.                                   *)
(***************************************************************************)
EXTENDS Sinks, SequenceLemmas, TLAPS

USE DEF chain, asyncs, buffers, ends, fates

----------------------------------------------------------------------------
(* Types, of the variables the proofs are about.                           *)

WriterLabels  == IF front = "async" THEN {"idle", "send"} ELSE {"idle", "lock", "flush"}
WorkerLabels  == IF front = "async" THEN {"idle", "lock", "flush", "exit"} ELSE {"exit"}
FlusherLabels == {"idle", "lock", "flush", "exit"}
CloserLabels  == {"idle", "stop", "wait", "lock", "flush", "inner", "done"}
AllLabels     == {"idle", "send", "exit"} \cup FlusherLabels \cup CloserLabels

\* Where everybody can be, and that who is about to send or to put holds an entry.
Labels ==
  /\ \A w \in Writers : pc[w] \in WriterLabels
  /\ \A w \in Workers : pc[w] \in WorkerLabels
  /\ pc[Flusher] \in FlusherLabels /\ pc[Closer] \in CloserLabels
  /\ \A a \in Writers \cup Workers :
       hand[a] \in IF pc[a] \in {"send", "lock"} THEN 1..next ELSE {0}
  /\ hand[Flusher] = 0 /\ hand[Closer] = 0

Types ==
  /\ front \in {"async", "buffered"}
  /\ pc \in [Actors -> AllLabels] /\ hand \in [Actors -> 0..MaxEntries]
  /\ Labels
  /\ next \in 0..MaxEntries
  /\ queue \in Seq(1..next) /\ buffer \in Seq(1..next) /\ kept \in Seq(1..next)
  /\ stored \in [Entries -> Nat]
  /\ mu \in Actors \cup {NoOne}
  /\ front = "buffered" => queue = <<>>

----------------------------------------------------------------------------
(* Where the entries are.                                                  *)

Waiting == ToSet(queue)
Buffer  == ToSet(buffer)
Kept    == ToSet(kept)

\* No entry is in two places, or twice in one.
OnceInv ==
  /\ IsInjective(queue) /\ IsInjective(buffer) /\ IsInjective(kept)
  /\ Waiting \cap Buffer = {} /\ Waiting \cap Kept = {} /\ Buffer \cap Kept = {}
  /\ \A a \in Actors : hand[a] \notin Waiting \cup Buffer \cup Kept
  /\ \A a, b \in Actors : hand[a] = hand[b] /\ hand[a] # 0 => a = b

\* An entry yet to come is not stored, and one stored already is held for no other write
\* unless the sink at the end was unclear about it.
StoredInv ==
  /\ \A e \in Entries : e > next => stored[e] = 0
  /\ Accounted
  /\ DuplicatesExplained

\* Who flushes holds the mutex, and so does Close until the inner sink is closed.
MutexInv ==
  /\ \A a \in Actors : pc[a] = "flush" => mu = a
  /\ pc[Closer] = "inner" => mu = Closer

\* How far Close is: who has left by then, and what can be left in the queue.
CloseInv ==
  /\ (pc[Closer] = "idle" => ~closed) /\ (pc[Closer] = "stop" => closed)
  /\ stopA => closed
  /\ closed => \A w \in Writers : pc[w] = "send" => hand[w] \in raced
  /\ \A w \in draining : stopA
  /\ front = "async" =>
       /\ pc[Closer] \in {"wait", "lock", "flush", "inner", "done"} => stopA
       /\ pc[Closer] \in {"lock", "flush", "inner", "done"} => \A w \in Workers : pc[w] = "exit"
       /\ \A w \in Workers : pc[w] = "exit" => stopA /\ Waiting \subseteq raced
  /\ pc[Closer] \in {"flush", "inner", "done"} => pc[Flusher] = "exit"

\* What a flush keeps has failed, and what the final one leaves has failed or came later.
LeftInv ==
  /\ Kept \subseteq failed
  /\ pc[Closer] = "inner" => Buffer \subseteq failed
  /\ pc[Closer] = "done" => /\ Buffer \subseteq failed \cup late
                            /\ (\E a \in Actors : pc[a] = "flush") => late # {}
                            /\ opened => toggled \/ late # {}

SinksInv == Types /\ OnceInv /\ StoredInv /\ MutexInv /\ CloseInv /\ LeftInv

----------------------------------------------------------------------------
(* The sinks at the end.                                                   *)

\* What any of them does with the first entry of the buffer: it is dealt with, or it will
\* be tried again.
AtTheEnd(a, e) ==
  /\ Flushing(a) /\ e = Head(buffer)
  /\ UNCHANGED <<front, toggled, pc, hand, queue, closed, stopA, draining, mu>>
  /\ UNCHANGED <<refused, raced, late, trimmed, next>>
  /\ unclear \subseteq unclear' /\ off \subseteq off'
  /\ stored' \in [Entries -> Nat]
  /\ \A x \in Entries : x # e => stored'[x] = stored[x]
  /\ stored'[e] \in {stored[e], stored[e] + 1}
  /\ \/ /\ UNCHANGED <<buffer, kept, failed>>
        /\ stored'[e] = stored[e] \/ e \in unclear'
     \/ Written(e, TRUE) /\ (stored'[e] = stored[e] \/ e \in unclear')
     \/ Written(e, FALSE) /\ (stored'[e] > 0 \/ e \in off')

LEMMA HeadOfBuffer ==
  ASSUME Types, buffer # <<>>
  PROVE  Head(buffer) \in 1..next /\ Head(buffer) \in Entries /\ Head(buffer) # 0
<1>1. Head(buffer) \in 1..next
  BY HeadTailProperties DEF Types
<1>. QED
  BY <1>1, SinksAssumption DEF Types, Entries

LEMMA LeafSteps ==
  ASSUME Types, NEW a \in Actors,
         WriteOff(a) \/ FileRefused(a) \/ FileWrite(a) \/ AlertPost(a) \/ LokiWrite(a)
  PROVE  AtTheEnd(a, Head(buffer))
<1>. DEFINE e == Head(buffer)
<1>1. Flushing(a)
  BY DEF WriteOff, FileRefused, FileWrite, AlertPost, LokiWrite, Writing
<1>2. e \in Entries /\ stored \in [Entries -> Nat] /\ stored[e] \in Nat
  BY <1>1, HeadOfBuffer DEF Flushing, Types
<1>3. /\ UNCHANGED <<front, toggled, pc, hand, queue, closed, stopA, draining, mu>>
      /\ UNCHANGED <<refused, raced, late, trimmed, next>>
  BY DEF WriteOff, FileRefused, FileWrite, AlertPost, LokiWrite, WritingUnchanged
<1>. DEFINE More == [stored EXCEPT ![e] = @ + 1]
<1>4. /\ More \in [Entries -> Nat] /\ More[e] = stored[e] + 1 /\ More[e] > 0
      /\ \A x \in Entries : x # e => More[x] = stored[x]
  BY <1>2
<1>. HIDE DEF More
<1>5. CASE WriteOff(a)
  <2>1. stored' = stored /\ unclear' = unclear /\ off' = off \cup {e} /\ Written(e, FALSE)
    BY <1>5 DEF WriteOff
  <2>. QED
    BY <1>1, <1>2, <1>3, <2>1 DEF AtTheEnd
<1>6. CASE FileRefused(a)
  <2>1. stored' = stored /\ unclear' = unclear /\ off' = off /\ Written(e, TRUE)
    BY <1>6 DEF FileRefused, WritingUnchanged
  <2>. QED
    BY <1>1, <1>2, <1>3, <2>1 DEF AtTheEnd
<1>7. CASE FileWrite(a)
  <2>1. unclear' = unclear /\ off' = off
    BY <1>7 DEF FileWrite, WritingUnchanged
  <2>2. \/ stored' = stored /\ Written(e, TRUE)
        \/ stored' = More /\ Written(e, FALSE)
    <3>1. /\ Written(e, e \in Unencodable)
          /\ IF e \in Unencodable THEN stored' = stored ELSE stored' = More
      BY <1>7 DEF FileWrite, More
    <3>2. CASE e \in Unencodable
      BY <3>1, <3>2 DEF Written
    <3>3. CASE e \notin Unencodable
      BY <3>1, <3>3 DEF Written
    <3>. QED
      BY <3>2, <3>3
  <2>. QED
    BY <1>1, <1>2, <1>3, <1>4, <2>1, <2>2 DEF AtTheEnd
<1>8. CASE AlertPost(a)
  <2>1. off' = off
    BY <1>8 DEF AlertPost, WritingUnchanged
  <2>2. PICK d \in Durations :
          LET p == Requested(d)
          IN  \/ stored' = More /\ Written(e, FALSE) /\ unclear' = unclear
              \/ Written(e, TRUE) /\ UNCHANGED <<stored, unclear>>
              \/ /\ \/ UNCHANGED <<stored, unclear>>
                    \/ stored' = More /\ unclear' = unclear \cup {e}
                 /\ \/ UNCHANGED <<buffer, kept, failed>>
                    \/ Written(e, TRUE)
    BY <1>8 DEF AlertPost, More
  <2>3. CASE stored' = More /\ Written(e, FALSE) /\ unclear' = unclear
    BY <1>1, <1>2, <1>3, <1>4, <2>1, <2>3 DEF AtTheEnd
  <2>4. CASE Written(e, TRUE) /\ UNCHANGED <<stored, unclear>>
    BY <1>1, <1>2, <1>3, <2>1, <2>4 DEF AtTheEnd
  <2>5. CASE /\ \/ UNCHANGED <<stored, unclear>>
                \/ stored' = More /\ unclear' = unclear \cup {e}
             /\ \/ UNCHANGED <<buffer, kept, failed>>
                \/ Written(e, TRUE)
    BY <1>1, <1>2, <1>3, <1>4, <2>1, <2>5 DEF AtTheEnd
  <2>. QED
    BY <2>2, <2>3, <2>4, <2>5
<1>9. CASE LokiWrite(a)
  <2>1. off' = off /\ stored' = More
    BY <1>9 DEF LokiWrite, WritingUnchanged, More
  <2>2. PICK err \in BOOLEAN : Written(e, err) /\ unclear' = IF err THEN unclear \cup {e} ELSE unclear
    BY <1>9 DEF LokiWrite
  <2>3. CASE err = TRUE
    BY <1>1, <1>2, <1>3, <1>4, <2>1, <2>2, <2>3 DEF AtTheEnd
  <2>4. CASE err = FALSE
    BY <1>1, <1>2, <1>3, <1>4, <2>1, <2>2, <2>4 DEF AtTheEnd
  <2>. QED
    BY <2>3, <2>4
<1>. QED
  BY <1>5, <1>6, <1>7, <1>8, <1>9

\* What a first entry that is dealt with does to the buffer and to what is kept.
LEMMA WrittenSets ==
  ASSUME Types, OnceInv, buffer # <<>>, NEW e, e = Head(buffer), NEW err \in BOOLEAN, Written(e, err)
  PROVE  /\ Buffer = Buffer' \cup {e} /\ e \notin Buffer'
         /\ Kept' = IF err THEN Kept \cup {e} ELSE Kept
         /\ IsInjective(buffer') /\ IsInjective(kept')
         /\ buffer' \in Seq(1..next) /\ kept' \in Seq(1..next)
<1>1. e \in 1..next /\ e \notin Kept
  <2>1. e \in Buffer
    BY TailOf DEF Buffer, Types
  <2>. QED
    BY <2>1, HeadOfBuffer DEF OnceInv
<1>2. /\ Buffer = Buffer' \cup {e} /\ e \notin Buffer' /\ IsInjective(buffer')
      /\ buffer' \in Seq(1..next)
  BY TailOf DEF Written, Buffer, Types, OnceInv
<1>3. CASE err
  BY <1>1, <1>2, <1>3, Appended DEF Written, Kept, Types, OnceInv
<1>4. CASE ~err
  BY <1>2, <1>4 DEF Written, Kept, Types, OnceInv
<1>. QED
  BY <1>3, <1>4

\* What the end of a flush does: the newest of what it kept is the buffer.
LEMMA FlushEndSets ==
  ASSUME Types, OnceInv, NEW a \in Actors, FlushEnd(a)
  PROVE  /\ Buffer = {} /\ Kept' = {} /\ trimmed \subseteq trimmed'
         /\ Kept \subseteq Buffer' \cup trimmed' /\ Buffer' \subseteq Kept
         /\ IsInjective(buffer') /\ IsInjective(kept')
         /\ buffer' \in Seq(1..next) /\ kept' \in Seq(1..next)
         /\ trimmed' = trimmed \cup (Kept \ Buffer')
<1>. DEFINE n    == Len(kept)
            over == IF n > MaxSize * CapFactor THEN n - MaxSize * CapFactor ELSE 0
<1>1. over \in 0..n
  BY SinksAssumption DEF Types
<1>2. /\ buffer = <<>> /\ buffer' = SubSeq(kept, over + 1, n) /\ kept' = <<>>
      /\ trimmed' = trimmed \cup ToSet(SubSeq(kept, 1, over))
  BY DEF FlushEnd
<1>. HIDE DEF over
<1>3. /\ SubSeq(kept, over + 1, n) \in Seq(1..next)
      /\ Kept = ToSet(SubSeq(kept, over + 1, n)) \cup ToSet(SubSeq(kept, 1, over))
      /\ IsInjective(SubSeq(kept, over + 1, n))
      /\ ToSet(SubSeq(kept, 1, over)) \cap ToSet(SubSeq(kept, over + 1, n)) = {}
  BY <1>1, Cut DEF Types, Kept, OnceInv
<1>4. Buffer = {} /\ Kept' = {} /\ IsInjective(kept') /\ kept' \in Seq(1..next)
  BY <1>2, Empty DEF Buffer, Kept
<1>5. Buffer' = ToSet(SubSeq(kept, over + 1, n))
  BY <1>2 DEF Buffer
<1>. QED
  BY <1>2, <1>3, <1>4, <1>5

----------------------------------------------------------------------------
(* Types are kept.                                                         *)

LEMMA ActorsApart ==
  /\ Flusher \in Actors /\ Closer \in Actors /\ Flusher # Closer /\ NoOne \notin Actors
  /\ Flusher \notin Writers \cup Workers /\ Closer \notin Writers \cup Workers
  /\ \A w \in Writers : w \in Actors /\ w \notin Workers
  /\ \A w \in Workers : w \in Actors /\ w \notin Writers
BY SinksAssumption DEF Actors

LEMMA InitTypes == Init => Types
<1>. SUFFICES ASSUME Init PROVE Types
  OBVIOUS
<1>1. front \in {"async", "buffered"} /\ next = 0 /\ next \in 0..MaxEntries
  BY SinksAssumption DEF Init
<1>2. pc \in [Actors -> AllLabels] /\ hand \in [Actors -> 0..MaxEntries]
  BY SinksAssumption DEF Init, AllLabels
<1>3. Labels
  BY ActorsApart, <1>1 DEF Init, Labels, WriterLabels, WorkerLabels, FlusherLabels, CloserLabels
<1>4. queue \in Seq(1..next) /\ buffer \in Seq(1..next) /\ kept \in Seq(1..next)
  BY DEF Init
<1>5. stored \in [Entries -> Nat] /\ mu \in Actors \cup {NoOne} /\ (front = "buffered" => queue = <<>>)
  BY DEF Init
<1>. QED
  BY <1>1, <1>2, <1>3, <1>4, <1>5 DEF Types

LEMMA MoreEntries ==
  ASSUME Types, next' = next + 1, next < MaxEntries
  PROVE  /\ next' \in 1..next' /\ next' \in 0..MaxEntries /\ next' \in Entries /\ 1..next \subseteq 1..next'
         /\ next' \notin 1..next /\ 1..next' = 1..next \cup {next'}
         /\ queue \in Seq(1..next') /\ buffer \in Seq(1..next') /\ kept \in Seq(1..next')
<1>1. /\ next' \in 1..next' /\ next' \in 0..MaxEntries /\ next' \in Entries /\ 1..next \subseteq 1..next'
      /\ next' \notin 1..next /\ 1..next' = 1..next \cup {next'}
  BY SinksAssumption DEF Types, Entries
<1>2. \A s \in Seq(1..next) : s \in Seq(1..next')
  BY <1>1, SeqMonotonic
<1>. QED
  BY <1>1, <1>2 DEF Types

LEMMA OneMoves ==
  ASSUME Types, NEW a \in Writers \cup Workers, NEW p, NEW h,
         pc' = [pc EXCEPT ![a] = p], hand' = [hand EXCEPT ![a] = h],
         front' = front, 1..next \subseteq 1..next',
         a \in Writers => p \in WriterLabels, a \in Workers => p \in WorkerLabels,
         h \in IF p \in {"send", "lock"} THEN 1..next' ELSE {0}
  PROVE  Labels'
<1>1. pc'[a] = p /\ hand'[a] = h /\ \A b \in Actors : b # a => pc'[b] = pc[b] /\ hand'[b] = hand[b]
  BY ActorsApart DEF Types
<1>2. WriterLabels' = WriterLabels /\ WorkerLabels' = WorkerLabels
  BY DEF WriterLabels, WorkerLabels
<1>3. \A w \in Writers : pc'[w] \in WriterLabels
  BY <1>1, ActorsApart DEF Types, Labels
<1>4. \A w \in Workers : pc'[w] \in WorkerLabels
  BY <1>1, ActorsApart DEF Types, Labels
<1>5. /\ pc'[Flusher] = pc[Flusher] /\ pc'[Closer] = pc[Closer]
      /\ hand'[Flusher] = hand[Flusher] /\ hand'[Closer] = hand[Closer]
  BY <1>1, ActorsApart
<1>6. ASSUME NEW b \in Writers \cup Workers
      PROVE  hand'[b] \in IF pc'[b] \in {"send", "lock"} THEN 1..next' ELSE {0}
  <2>1. CASE b = a
    BY <1>1, <2>1
  <2>2. CASE b # a
    <3>1. pc'[b] = pc[b] /\ hand'[b] = hand[b]
      BY <1>1, <2>2, ActorsApart
    <3>2. hand[b] \in IF pc[b] \in {"send", "lock"} THEN 1..next ELSE {0}
      BY DEF Types, Labels
    <3>. QED
      BY <3>1, <3>2
  <2>. QED
    BY <2>1, <2>2
<1>. QED
  BY <1>2, <1>3, <1>4, <1>5, <1>6 DEF Labels, Types, FlusherLabels, CloserLabels

LEMMA NextTypes == SinksInv /\ [Next]_vars => Types'
<1>. SUFFICES ASSUME Types, OnceInv, [Next]_vars PROVE Types'
  BY DEF SinksInv
<1>. USE ActorsApart DEF Go, AllLabels, WriterLabels, WorkerLabels, FlusherLabels, CloserLabels
<1>1. ASSUME NEW w \in Writers, Check(w) PROVE Types'
  <2>1. next' = next + 1 /\ next < MaxEntries /\ front = "async" /\ pc[w] = "idle" /\ front' = front
    BY <1>1 DEF Check
  <2>2. \/ pc' = pc /\ hand' = hand
        \/ pc' = [pc EXCEPT ![w] = "send"] /\ hand' = [hand EXCEPT ![w] = next']
    BY <1>1 DEF Check
  <2>3. Labels'
    <3>1. CASE pc' = pc /\ hand' = hand
      <4>1. \A b \in Writers \cup Workers :
              hand[b] \in IF pc[b] \in {"send", "lock"} THEN 1..next' ELSE {0}
        BY <2>1, MoreEntries DEF Types, Labels
      <4>. QED
        BY <2>1, <3>1, <4>1 DEF Types, Labels
    <3>2. CASE pc' = [pc EXCEPT ![w] = "send"] /\ hand' = [hand EXCEPT ![w] = next']
      BY <2>1, <3>2, MoreEntries, OneMoves
    <3>. QED
      BY <2>2, <3>1, <3>2
  <2>4. pc' \in [Actors -> AllLabels] /\ hand' \in [Actors -> 0..MaxEntries]
    <3>1. next' \in 0..MaxEntries /\ w \in Actors /\ "send" \in AllLabels
      BY <2>1, MoreEntries
    <3>2. CASE pc' = pc /\ hand' = hand
      BY <3>2 DEF Types
    <3>3. CASE pc' = [pc EXCEPT ![w] = "send"] /\ hand' = [hand EXCEPT ![w] = next']
      BY <3>1, <3>3 DEF Types
    <3>. QED
      BY <2>2, <3>2, <3>3
  <2>5. UNCHANGED <<queue, buffer, kept, stored, mu>>
    BY <1>1 DEF Check
  <2>. QED
    BY <2>1, <2>3, <2>4, <2>5, MoreEntries DEF Types
<1>2. ASSUME NEW w \in Writers, Send(w) PROVE Types'
  <2>1. pc[w] = "send" /\ hand[w] \in 1..next /\ front = "async"
    BY <1>2 DEF Send, Types, Labels
  <2>2. queue' \in Seq(1..next)
    <3>1. queue \in Seq(1..next)
      BY DEF Types
    <3>2. Append(queue, hand[w]) \in Seq(1..next)
      BY <2>1, <3>1, Appended
    <3>. QED
      BY <1>2, <3>1, <3>2 DEF Send
  <2>3. Labels'
    <3>1. /\ pc' = [pc EXCEPT ![w] = "idle"] /\ hand' = [hand EXCEPT ![w] = 0]
          /\ front' = front /\ next' = next
      BY <1>2 DEF Send
    <3>. QED
      BY <2>1, <3>1, OneMoves
  <2>. QED
    <3>1. pc' \in [Actors -> AllLabels] /\ hand' \in [Actors -> 0..MaxEntries]
      BY <1>2, SinksAssumption DEF Send, Types
    <3>2. UNCHANGED <<front, next, buffer, kept, stored, mu>>
      BY <1>2 DEF Send
    <3>. QED
      BY <2>1, <2>2, <2>3, <3>1, <3>2 DEF Types
<1>3. ASSUME NEW w \in Writers, WriteBuffered(w) PROVE Types'
  <2>1. next' = next + 1 /\ next < MaxEntries /\ front = "buffered" /\ pc[w] = "idle" /\ front' = front
    BY <1>3 DEF WriteBuffered
  <2>2. pc' = [pc EXCEPT ![w] = "lock"] /\ hand' = [hand EXCEPT ![w] = next']
    BY <1>3 DEF WriteBuffered
  <2>3. Labels'
    BY <2>1, <2>2, MoreEntries DEF Types, Labels
  <2>4. pc' \in [Actors -> AllLabels] /\ hand' \in [Actors -> 0..MaxEntries]
    BY <2>1, <2>2, MoreEntries DEF Types
  <2>5. UNCHANGED <<queue, buffer, kept, stored, mu>>
    BY <1>3 DEF WriteBuffered
  <2>. QED
    BY <2>1, <2>3, <2>4, <2>5, MoreEntries DEF Types
<1>4. ASSUME NEW w \in Workers, Take(w) PROVE Types'
  <2>1. Head(queue) \in 1..next /\ Tail(queue) \in Seq(1..next) /\ Head(queue) \in 0..MaxEntries
    BY SMTT(30), <1>4, SinksAssumption DEF Take, Types
  <2>2. Labels'
    BY <1>4, <2>1 DEF Take, Types, Labels
  <2>. QED
    BY <1>4, <2>1, <2>2 DEF Take, Types
<1>5. ASSUME NEW w \in Workers, SeeStop(w) \/ Exit(w) PROVE Types'
  BY <1>5 DEF SeeStop, Exit, Types, Labels
<1>6. ASSUME NEW a \in Writers \cup Workers, Put(a) PROVE Types'
  <2>1. pc[a] = "lock" /\ hand[a] \in 1..next
    BY <1>6 DEF Put, Types, Labels
  <2>2. buffer' \in Seq(1..next)
    BY <1>6, <2>1, Appended DEF Put, Types
  <2>3. /\ pc' = [pc EXCEPT ![a] = "flush"] \/ pc' = [pc EXCEPT ![a] = "idle"]
        /\ hand' = [hand EXCEPT ![a] = 0] /\ front' = front /\ next' = next
    BY <1>6 DEF Put
  <2>4. Labels'
    <3>1. front = "buffered" \/ a \in Workers
      BY <2>1 DEF Types, Labels
    <3>2. CASE pc' = [pc EXCEPT ![a] = "flush"]
      BY <2>1, <2>3, <3>1, <3>2, OneMoves DEF Types, Labels
    <3>3. CASE pc' = [pc EXCEPT ![a] = "idle"]
      BY <2>1, <2>3, <3>1, <3>3, OneMoves DEF Types, Labels
    <3>. QED
      BY <2>3, <3>2, <3>3
  <2>5. mu' \in Actors \cup {NoOne} /\ UNCHANGED <<queue, kept, stored>>
    BY <1>6 DEF Put, Types, Actors
  <2>. QED
    <3>1. pc' \in [Actors -> AllLabels] /\ hand' \in [Actors -> 0..MaxEntries]
      <4>1. a \in Actors /\ "flush" \in AllLabels /\ "idle" \in AllLabels
        OBVIOUS
      <4>2. pc' \in [Actors -> AllLabels]
        BY <2>3, <4>1 DEF Types
      <4>3. hand' \in [Actors -> 0..MaxEntries]
        BY <2>3, SinksAssumption DEF Types
      <4>. QED
        BY <4>2, <4>3
    <3>. QED
      BY <2>1, <2>2, <2>3, <2>4, <2>5, <3>1 DEF Types
<1>7. CASE Tick \/ FlushTick \/ FlusherExit
  <2>1. /\ \E p \in FlusherLabels : pc' = [pc EXCEPT ![Flusher] = p]
        /\ mu' \in {mu, Flusher}
        /\ UNCHANGED <<front, hand, next, queue, buffer, kept, stored>>
    BY <1>7 DEF Tick, FlushTick, FlusherExit
  <2>2. Labels'
    BY <2>1 DEF Types, Labels
  <2>. QED
    BY <2>1, <2>2 DEF Types
<1>8. ASSUME NEW a \in Actors, Flush(a) PROVE Types'
  <2>1. CASE FlushEnd(a)
    <3>1. /\ \E p \in {"idle", "inner"} : pc' = [pc EXCEPT ![a] = p] /\ (p = "inner" <=> a = Closer)
          /\ mu' \in {mu, Closer, NoOne} /\ UNCHANGED <<front, hand, next, queue, stored>>
      BY <2>1 DEF FlushEnd, Back
    <3>2. pc[a] = "flush"
      BY <2>1 DEF FlushEnd
    <3>3. Labels'
      BY <3>1, <3>2 DEF Types, Labels, Actors
    <3>. QED
      BY <2>1, <3>1, <3>3, FlushEndSets DEF Types
  <2>2. CASE AtTheEnd(a, Head(buffer))
    <3>1. UNCHANGED <<front, pc, hand, next, queue, mu>> /\ stored' \in [Entries -> Nat] /\ buffer # <<>>
      BY <2>2 DEF AtTheEnd, Flushing
    <3>2. buffer' \in Seq(1..next) /\ kept' \in Seq(1..next)
      <4>1. CASE UNCHANGED <<buffer, kept>>
        BY <4>1 DEF Types
      <4>2. ASSUME NEW err \in BOOLEAN, Written(Head(buffer), err)
            PROVE  buffer' \in Seq(1..next) /\ kept' \in Seq(1..next)
        BY <3>1, <4>2, WrittenSets
      <4>. QED
        BY <2>2, <4>1, <4>2 DEF AtTheEnd
    <3>. QED
      BY <3>1, <3>2 DEF Types, Labels
  <2>. QED
    BY <1>8, <2>1, <2>2, LeafSteps DEF Flush
<1>9. CASE CloseFlag \/ CloseStep
  <2>1. /\ UNCHANGED <<front, hand, next, queue, buffer, kept, stored>>
        /\ mu' \in {mu, Closer, NoOne}
    BY <1>9 DEF CloseFlag, CloseStep, CloseStop, BufferStop, FinalFlush, CloseInner
  <2>2. \E p \in CloserLabels : pc' = [pc EXCEPT ![Closer] = p]
    BY <1>9 DEF CloseFlag, CloseStep, CloseStop, BufferStop, FinalFlush, CloseInner
  <2>3. Labels'
    BY <2>1, <2>2 DEF Types, Labels
  <2>. QED
    BY <2>1, <2>2, <2>3 DEF Types
<1>10. CASE Toggle \/ UNCHANGED vars
  BY <1>10 DEF Toggle, vars, Types, Labels
<1>. QED
  BY <1>1, <1>2, <1>3, <1>4, <1>5, <1>6, <1>7, <1>8, <1>9, <1>10 DEF Next, WorkerStep

----------------------------------------------------------------------------
(* The mutex.                                                              *)

LEMMA NextMutex == SinksInv /\ [Next]_vars => MutexInv'
<1>. SUFFICES ASSUME Types, MutexInv, [Next]_vars PROVE MutexInv'
  BY DEF SinksInv
<1>. USE ActorsApart DEF Go, MutexInv
<1>0. pc \in [Actors -> AllLabels]
  BY DEF Types
<1>1. ASSUME NEW w \in Writers, Check(w) \/ Send(w) \/ WriteBuffered(w) PROVE MutexInv'
  BY <1>0, <1>1 DEF Check, Send, WriteBuffered
<1>2. ASSUME NEW w \in Workers, WorkerStep(w) PROVE MutexInv'
  BY <1>0, <1>2 DEF WorkerStep, Take, SeeStop, Exit
<1>3. ASSUME NEW a \in Writers \cup Workers, Put(a) PROVE MutexInv'
  <2>1. /\ mu = NoOne /\ a \in Actors /\ a # Closer
        /\ \/ mu' = a /\ pc' = [pc EXCEPT ![a] = "flush"]
           \/ mu' = mu /\ pc' = [pc EXCEPT ![a] = "idle"]
    BY <1>3 DEF Put
  <2>. QED
    BY <1>0, <2>1
<1>4. CASE Tick \/ FlushTick \/ FlusherExit
  BY <1>0, <1>4 DEF Tick, FlushTick, FlusherExit
<1>5. ASSUME NEW a \in Actors, Flush(a) PROVE MutexInv'
  <2>1. CASE FlushEnd(a)
    <3>1. pc[a] = "flush" /\ mu = a
      BY <2>1 DEF FlushEnd
    <3>2. CASE a = Closer
      BY <1>0, <2>1, <3>1, <3>2 DEF FlushEnd, Back
    <3>3. CASE a # Closer
      BY <1>0, <2>1, <3>1, <3>3 DEF FlushEnd, Back
    <3>. QED
      BY <3>2, <3>3
  <2>2. CASE AtTheEnd(a, Head(buffer))
    BY <2>2 DEF AtTheEnd
  <2>. QED
    BY <1>5, <2>1, <2>2, LeafSteps DEF Flush
<1>6. CASE CloseFlag \/ CloseStop \/ BufferStop
  BY <1>0, <1>6 DEF CloseFlag, CloseStop, BufferStop
<1>7. CASE FinalFlush \/ CloseInner
  BY <1>0, <1>7 DEF FinalFlush, CloseInner
<1>8. CASE Toggle \/ UNCHANGED vars
  BY <1>8 DEF Toggle, vars
<1>. QED
  BY <1>1, <1>2, <1>3, <1>4, <1>5, <1>6, <1>7, <1>8 DEF Next, CloseStep

----------------------------------------------------------------------------
(* Where the entries are.                                                  *)

Hands  == {hand[a] : a \in Actors}
Places == Waiting \cup Buffer \cup Kept \cup Hands

\* StoredInv in terms of the places.
LEMMA StoredIs ==
  /\ StoredInv <=> /\ \A e \in Entries : e > next => stored[e] = 0
                   /\ \A e \in 1..next : e \in Places \/ stored[e] > 0 \/ e \in refused \cup off \cup trimmed
                   /\ \A e \in 1..next : stored[e] > 1 \/ (stored[e] = 1 /\ e \in Places) => e \in unclear
  /\ StoredInv' <=>
       /\ \A e \in Entries : e > next' => stored'[e] = 0
       /\ \A e \in 1..next' : e \in Places' \/ stored'[e] > 0 \/ e \in refused' \cup off' \cup trimmed'
       /\ \A e \in 1..next' : stored'[e] > 1 \/ (stored'[e] = 1 /\ e \in Places') => e \in unclear'
<1>1. \A e : Held(e) <=> e \in Places
  BY DEF Held, Places, Waiting, Buffer, Kept, Hands
<1>2. \A e : Held(e)' <=> e \in Places'
  BY DEF Held, Places, Waiting, Buffer, Kept, Hands
<1>. HIDE DEF Places
<1>3. Accounted <=> \A e \in 1..next : e \in Places \/ stored[e] > 0 \/ e \in refused \cup off \cup trimmed
  BY <1>1 DEF Accounted
<1>4. Accounted' <=>
        \A e \in 1..next' : e \in Places' \/ stored'[e] > 0 \/ e \in refused' \cup off' \cup trimmed'
  BY <1>2 DEF Accounted
<1>5. DuplicatesExplained <=>
        \A e \in 1..next : stored[e] > 1 \/ (stored[e] = 1 /\ e \in Places) => e \in unclear
  BY <1>1 DEF DuplicatesExplained
<1>6. DuplicatesExplained' <=>
        \A e \in 1..next' : stored'[e] > 1 \/ (stored'[e] = 1 /\ e \in Places') => e \in unclear'
  BY <1>2 DEF DuplicatesExplained
<1>7. Entries' = Entries
  BY DEF Entries
<1>. QED
  BY <1>3, <1>4, <1>5, <1>6, <1>7 DEF StoredInv

LEMMA SetsInRange ==
  ASSUME Types PROVE Waiting \subseteq 1..next /\ Buffer \subseteq 1..next /\ Kept \subseteq 1..next
<1>1. queue \in Seq(1..next) /\ buffer \in Seq(1..next) /\ kept \in Seq(1..next)
  BY DEF Types
<1>. QED
  BY <1>1, Members DEF Waiting, Buffer, Kept

\* Steps that store nothing: what is not held any more was refused or trimmed.
LEMMA NothingStored ==
  ASSUME StoredInv, UNCHANGED <<next, stored, unclear, off>>,
         refused \subseteq refused', trimmed \subseteq trimmed',
         Places' \subseteq Places \cup {0}, Places \subseteq Places' \cup {0} \cup refused' \cup trimmed'
  PROVE  StoredInv'
<1>1. \A e \in 1..next : e # 0
  OBVIOUS
<1>2. \A e \in 1..next : (e \in Places' => e \in Places)
                         /\ (e \in Places => e \in Places' \cup refused' \cup trimmed')
  BY <1>1
<1>. HIDE DEF Places
<1>. QED
  BY <1>2, StoredIs

\* Steps that move no entry.
LEMMA NothingMoves ==
  ASSUME OnceInv, StoredInv, UNCHANGED <<queue, buffer, kept, hand>>,
         UNCHANGED <<next, stored, unclear, off, refused, trimmed>>
  PROVE  OnceInv' /\ StoredInv'
<1>1. Waiting' = Waiting /\ Buffer' = Buffer /\ Kept' = Kept /\ Hands' = Hands
  BY DEF Waiting, Buffer, Kept, Hands
<1>2. Places' = Places
  BY <1>1 DEF Places
<1>3. OnceInv'
  BY <1>1 DEF OnceInv
<1>. QED
  BY <1>2, <1>3, NothingStored

\* What becomes of the hands when one of them changes.
LEMMA HandsAfter ==
  ASSUME Types, OnceInv, NEW a \in Actors, NEW h, hand' = [hand EXCEPT ![a] = h]
  PROVE  /\ hand'[a] = h /\ \A b \in Actors : b # a => hand'[b] = hand[b]
         /\ Hands' \subseteq Hands \cup {h} /\ Hands \subseteq Hands' \cup {hand[a]} /\ h \in Hands'
         /\ hand[a] # 0 => (hand[a] = h \/ hand[a] \notin Hands')
         /\ h = 0 \/ h \notin Hands => \A b, c \in Actors : hand'[b] = hand'[c] /\ hand'[b] # 0 => b = c
<1>1. hand'[a] = h /\ \A b \in Actors : b # a => hand'[b] = hand[b]
  BY DEF Types
<1>2. Hands' \subseteq Hands \cup {h} /\ h \in Hands'
  BY <1>1 DEF Hands
<1>3. Hands \subseteq Hands' \cup {hand[a]}
  BY <1>1 DEF Hands
<1>4. hand[a] # 0 => (hand[a] = h \/ hand[a] \notin Hands')
  BY <1>1 DEF Hands, OnceInv
<1>5. h = 0 \/ h \notin Hands => \A b, c \in Actors : hand'[b] = hand'[c] /\ hand'[b] # 0 => b = c
  BY <1>1 DEF Hands, OnceInv
<1>. QED
  BY <1>1, <1>2, <1>3, <1>4, <1>5

LEMMA InHands ==
  /\ \A S : (\A a \in Actors : hand[a] \notin S) <=> Hands \cap S = {}
  /\ \A S : (\A a \in Actors : hand'[a] \notin S) <=> Hands' \cap S = {}
BY DEF Hands

\* A new entry: the hand of a writer takes it, or the sink refuses it.
LEMMA NewEntry ==
  ASSUME Types, OnceInv, StoredInv, NEW w \in Writers, pc[w] = "idle", next < MaxEntries, next' = next + 1,
         UNCHANGED <<queue, buffer, kept, stored, unclear, off, trimmed>>, refused \subseteq refused',
         \/ hand' = hand /\ next' \in refused'
         \/ hand' = [hand EXCEPT ![w] = next']
  PROVE  OnceInv' /\ StoredInv'
<1>1. Waiting' = Waiting /\ Buffer' = Buffer /\ Kept' = Kept
  BY DEF Waiting, Buffer, Kept
<1>2. hand[w] = 0 /\ w \in Actors /\ next' # 0 /\ next' \notin 1..next
  <2>1. w \in Writers \cup Workers /\ w \in Actors
    BY ActorsApart
  <2>2. hand[w] \in IF pc[w] \in {"send", "lock"} THEN 1..next ELSE {0}
    BY <2>1 DEF Types, Labels
  <2>3. next \in Nat
    BY SinksAssumption DEF Types
  <2>. QED
    BY <2>1, <2>2, <2>3
<1>3. next' \notin Waiting \cup Buffer \cup Kept
  BY <1>2, SetsInRange
<1>4. next' \notin Hands
  <2>1. \A a \in Actors : hand[a] \in 1..next \cup {0}
    BY DEF Types, Labels, Actors
  <2>. QED
    BY <1>2, <2>1 DEF Hands
<1>5. /\ Hands' \subseteq Hands \cup {next'} /\ Hands \subseteq Hands' \cup {0}
      /\ next' \in Hands' \/ next' \in refused'
      /\ \A b, c \in Actors : hand'[b] = hand'[c] /\ hand'[b] # 0 => b = c
  <2>1. CASE hand' = hand /\ next' \in refused'
    BY <2>1 DEF Hands, OnceInv
  <2>2. CASE hand' = [hand EXCEPT ![w] = next']
    BY <1>2, <1>4, <2>2, HandsAfter
  <2>. QED
    BY <2>1, <2>2
<1>6. OnceInv'
  <2>1. Hands \cap (Waiting \cup Buffer \cup Kept) = {}
    BY InHands DEF OnceInv
  <2>2. Hands' \cap (Waiting \cup Buffer \cup Kept) = {}
    BY <1>3, <1>5, <2>1
  <2>3. \A a \in Actors : hand'[a] \notin Waiting \cup Buffer \cup Kept
    BY <2>2, InHands
  <2>. QED
    BY <1>1, <1>5, <2>3 DEF OnceInv
<1>7. Places' \subseteq Places \cup {next'} /\ Places \subseteq Places' \cup {0}
  BY <1>1, <1>5 DEF Places
<1>8. next' \in Places' \/ next' \in refused'
  BY <1>5 DEF Places
<1>. HIDE DEF Places
<1>9. \A e \in 1..next : (e \in Places' <=> e \in Places) /\ e # 0
  BY <1>2, <1>7
<1>10. StoredInv'
  <2>1. stored[next'] = 0 /\ next' \in Entries /\ 1..next' = 1..next \cup {next'}
    BY MoreEntries, StoredIs DEF Types, Entries
  <2>2. \A e \in Entries : e > next' => stored'[e] = 0
    BY StoredIs DEF Types, Entries
  <2>3. \A e \in 1..next' : e \in Places' \/ stored'[e] > 0 \/ e \in refused' \cup off' \cup trimmed'
    BY <1>8, <1>9, <2>1, StoredIs
  <2>4. \A e \in 1..next' : stored'[e] > 1 \/ (stored'[e] = 1 /\ e \in Places') => e \in unclear'
    <3>1. \A e \in 1..next : stored'[e] > 1 \/ (stored'[e] = 1 /\ e \in Places') => e \in unclear'
      BY <1>9, StoredIs
    <3>2. ~(stored'[next'] > 1) /\ stored'[next'] # 1
      BY <2>1
    <3>. QED
      BY <2>1, <3>1, <3>2
  <2>. QED
    BY <2>2, <2>3, <2>4, StoredIs
<1>. QED
  BY <1>6, <1>10

\* What one more entry does to the queue and to the buffer.
LEMMA OneMore ==
  /\ \A e \in 1..next : queue \in Seq(1..next) =>
       /\ ToSet(Append(queue, e)) = ToSet(queue) \cup {e}
       /\ IsInjective(queue) /\ e \notin ToSet(queue) => IsInjective(Append(queue, e))
  /\ \A e \in 1..next : buffer \in Seq(1..next) =>
       /\ ToSet(Append(buffer, e)) = ToSet(buffer) \cup {e}
       /\ IsInjective(buffer) /\ e \notin ToSet(buffer) => IsInjective(Append(buffer, e))
<1>1. ASSUME NEW e \in 1..next, queue \in Seq(1..next)
      PROVE  /\ ToSet(Append(queue, e)) = ToSet(queue) \cup {e}
             /\ IsInjective(queue) /\ e \notin ToSet(queue) => IsInjective(Append(queue, e))
  <2>. DEFINE S == 1..next
  <2>1. queue \in Seq(S) /\ e \in S
    BY <1>1
  <2>. HIDE DEF S
  <2>. QED
    BY <2>1, Appended
<1>2. ASSUME NEW e \in 1..next, buffer \in Seq(1..next)
      PROVE  /\ ToSet(Append(buffer, e)) = ToSet(buffer) \cup {e}
             /\ IsInjective(buffer) /\ e \notin ToSet(buffer) => IsInjective(Append(buffer, e))
  <2>. DEFINE S == 1..next
  <2>1. buffer \in Seq(S) /\ e \in S
    BY <1>2
  <2>. HIDE DEF S
  <2>. QED
    BY <2>1, Appended
<1>. QED
  BY <1>1, <1>2

\* A hand puts what it holds into the queue, or has it refused.
LEMMA SendMoves ==
  ASSUME Types, OnceInv, StoredInv, NEW w \in Writers, Send(w)
  PROVE  OnceInv' /\ StoredInv'
<1>. DEFINE e == hand[w]
<1>1. pc[w] = "send" /\ e \in 1..next /\ e # 0 /\ w \in Actors
  BY ActorsApart DEF Send, Types, Labels
<1>2. Buffer' = Buffer /\ Kept' = Kept /\ UNCHANGED <<buffer, kept, next, stored, unclear, off, trimmed>>
  BY DEF Send, Buffer, Kept
<1>3. hand' = [hand EXCEPT ![w] = 0]
  BY DEF Send
<1>4. /\ Hands' \subseteq Hands \cup {0} /\ Hands \subseteq Hands' \cup {e} /\ e \notin Hands'
      /\ \A b, c \in Actors : hand'[b] = hand'[c] /\ hand'[b] # 0 => b = c
  BY <1>1, <1>3, HandsAfter
<1>5. e \in Hands /\ Hands \cap (Waiting \cup Buffer \cup Kept) = {}
  BY <1>1, InHands DEF OnceInv, Hands
<1>6. 0 \notin Waiting \cup Buffer \cup Kept
  BY SetsInRange
<1>7. \/ queue' = queue /\ refused' = refused \cup {e}
      \/ queue' = Append(queue, e) /\ refused' = refused
  BY DEF Send
<1>8. /\ Waiting \subseteq Waiting' /\ Waiting' \subseteq Waiting \cup {e} /\ e \in Waiting' \cup refused'
      /\ refused \subseteq refused' /\ IsInjective(queue')
  <2>1. CASE queue' = queue /\ refused' = refused \cup {e}
    BY <2>1 DEF Waiting, OnceInv
  <2>2. CASE queue' = Append(queue, e) /\ refused' = refused
    <3>1. queue \in Seq(1..next) /\ e \notin Waiting
      BY <1>5 DEF Types
    <3>2. /\ ToSet(Append(queue, e)) = ToSet(queue) \cup {e}
          /\ IsInjective(queue) => IsInjective(Append(queue, e))
      <4>. HIDE DEF e
      <4>1. e \in 1..next /\ queue \in Seq(1..next) /\ e \notin ToSet(queue)
        BY <1>1, <3>1 DEF Waiting
      <4>. QED
        BY <4>1, OneMore
    <3>3. Waiting' = Waiting \cup {e} /\ IsInjective(queue')
      BY <2>2, <3>2 DEF Waiting, OnceInv
    <3>. QED
      BY <2>2, <3>3
  <2>. QED
    BY <1>7, <2>1, <2>2
<1>. HIDE DEF e
<1>9. OnceInv'
  <2>1. Hands' \cap (Waiting' \cup Buffer' \cup Kept') = {}
    BY <1>1, <1>2, <1>4, <1>5, <1>6, <1>8
  <2>2. \A a \in Actors : hand'[a] \notin Waiting' \cup Buffer' \cup Kept'
    BY <2>1, InHands
  <2>3. Waiting' \cap Buffer' = {} /\ Waiting' \cap Kept' = {} /\ Buffer' \cap Kept' = {}
    BY <1>2, <1>5, <1>8 DEF OnceInv
  <2>. QED
    BY <1>2, <1>4, <1>8, <2>2, <2>3 DEF OnceInv
<1>10. Places' \subseteq Places \cup {0} /\ Places \subseteq Places' \cup refused' \cup trimmed'
  BY <1>2, <1>4, <1>5, <1>8 DEF Places
<1>. QED
  BY <1>2, <1>8, <1>9, <1>10, NothingStored

\* A worker's hand takes the first of the queue.
LEMMA TakeMoves ==
  ASSUME Types, OnceInv, StoredInv, NEW w \in Workers, Take(w)
  PROVE  OnceInv' /\ StoredInv'
<1>. DEFINE e == Head(queue)
<1>1. hand[w] = 0 /\ w \in Actors /\ queue # <<>>
  BY ActorsApart DEF Take, Types, Labels
<1>2. /\ Buffer' = Buffer /\ Kept' = Kept
      /\ UNCHANGED <<buffer, kept, next, stored, unclear, off, refused, trimmed>>
  BY DEF Take, Buffer, Kept
<1>3. hand' = [hand EXCEPT ![w] = e]
  BY DEF Take
<1>4. Waiting = {e} \cup Waiting' /\ e \notin Waiting' /\ IsInjective(queue')
  BY <1>1, TailOf DEF Take, Types, OnceInv, Waiting
<1>5. Hands \cap (Waiting \cup Buffer \cup Kept) = {}
  BY <1>1, InHands DEF OnceInv
<1>. HIDE DEF e
<1>6. e \notin Hands
  BY <1>4, <1>5
<1>7. /\ Hands' \subseteq Hands \cup {e} /\ Hands \subseteq Hands' \cup {0} /\ e \in Hands'
      /\ \A b, c \in Actors : hand'[b] = hand'[c] /\ hand'[b] # 0 => b = c
  BY <1>1, <1>3, <1>6, HandsAfter
<1>8. OnceInv'
  <2>1. Hands' \cap (Waiting' \cup Buffer' \cup Kept') = {}
    BY <1>2, <1>4, <1>5, <1>7 DEF OnceInv
  <2>2. \A a \in Actors : hand'[a] \notin Waiting' \cup Buffer' \cup Kept'
    BY <2>1, InHands
  <2>3. Waiting' \cap Buffer' = {} /\ Waiting' \cap Kept' = {} /\ Buffer' \cap Kept' = {}
    BY <1>2, <1>4 DEF OnceInv
  <2>. QED
    BY <1>2, <1>4, <1>7, <2>2, <2>3 DEF OnceInv
<1>9. Places' \subseteq Places /\ Places \subseteq Places' \cup {0}
  BY <1>2, <1>4, <1>7 DEF Places
<1>. QED
  BY <1>2, <1>8, <1>9, NothingStored

\* A hand puts what it holds into the buffer.
LEMMA PutMoves ==
  ASSUME Types, OnceInv, StoredInv, NEW a \in Writers \cup Workers, Put(a)
  PROVE  OnceInv' /\ StoredInv'
<1>. DEFINE e == hand[a]
<1>1. e \in 1..next /\ e # 0 /\ a \in Actors
  <2>1. pc[a] = "lock" /\ a \in Actors
    BY ActorsApart DEF Put
  <2>2. hand[a] \in IF pc[a] \in {"send", "lock"} THEN 1..next ELSE {0}
    BY DEF Types, Labels
  <2>. QED
    BY <2>1, <2>2
<1>2. /\ Waiting' = Waiting /\ Kept' = Kept
      /\ UNCHANGED <<queue, kept, next, stored, unclear, off, refused, trimmed>>
  BY DEF Put, Waiting, Kept
<1>3. hand' = [hand EXCEPT ![a] = 0] /\ buffer' = Append(buffer, e)
  BY DEF Put
<1>4. /\ Hands' \subseteq Hands \cup {0} /\ Hands \subseteq Hands' \cup {e} /\ e \notin Hands'
      /\ \A b, c \in Actors : hand'[b] = hand'[c] /\ hand'[b] # 0 => b = c
  BY <1>1, <1>3, HandsAfter
<1>5. e \in Hands /\ Hands \cap (Waiting \cup Buffer \cup Kept) = {}
  BY <1>1, InHands DEF OnceInv, Hands
<1>6. 0 \notin Waiting \cup Buffer \cup Kept
  BY SetsInRange
<1>7. Buffer' = Buffer \cup {e} /\ IsInjective(buffer')
  <2>. HIDE DEF e
  <2>1. buffer \in Seq(1..next) /\ e \notin ToSet(buffer) /\ IsInjective(buffer)
    BY <1>5 DEF Types, OnceInv, Buffer
  <2>2. ToSet(Append(buffer, e)) = ToSet(buffer) \cup {e} /\ IsInjective(Append(buffer, e))
    BY <1>1, <2>1, OneMore
  <2>. QED
    BY <1>3, <2>2 DEF Buffer
<1>. HIDE DEF e
<1>8. OnceInv'
  <2>1. Hands' \cap (Waiting' \cup Buffer' \cup Kept') = {}
    BY <1>1, <1>2, <1>4, <1>5, <1>6, <1>7
  <2>2. \A b \in Actors : hand'[b] \notin Waiting' \cup Buffer' \cup Kept'
    BY <2>1, InHands
  <2>3. Waiting' \cap Buffer' = {} /\ Waiting' \cap Kept' = {} /\ Buffer' \cap Kept' = {}
    BY <1>2, <1>5, <1>7 DEF OnceInv
  <2>4. IsInjective(queue') /\ IsInjective(kept')
    BY <1>2 DEF OnceInv
  <2>. QED
    BY <1>4, <1>7, <2>2, <2>3, <2>4 DEF OnceInv
<1>9. Places' \subseteq Places \cup {0} /\ Places \subseteq Places'
  BY <1>2, <1>4, <1>5, <1>7 DEF Places
<1>. QED
  BY <1>2, <1>8, <1>9, NothingStored

\* The sink at the end takes the first of the buffer.
LEMMA LeafMoves ==
  ASSUME Types, OnceInv, StoredInv, NEW a \in Actors, AtTheEnd(a, Head(buffer))
  PROVE  OnceInv' /\ StoredInv'
<1>. DEFINE e == Head(buffer)
<1>1. buffer # <<>> /\ e \in 1..next /\ e \in Entries /\ e \in Buffer
  <2>1. buffer # <<>> /\ buffer \in Seq(1..next)
    BY DEF AtTheEnd, Flushing, Types
  <2>. QED
    BY <2>1, HeadOfBuffer, TailOf DEF Buffer
<1>2. /\ Waiting' = Waiting /\ Hands' = Hands
      /\ UNCHANGED <<queue, hand, next, refused, trimmed>>
      /\ unclear \subseteq unclear' /\ off \subseteq off'
      /\ \A x \in Entries : x # e => stored'[x] = stored[x]
      /\ stored'[e] \in {stored[e], stored[e] + 1} /\ stored[e] \in Nat
  BY <1>1 DEF AtTheEnd, Waiting, Hands, Types
<1>3. \/ /\ UNCHANGED <<buffer, kept>>
         /\ stored'[e] = stored[e] \/ e \in unclear'
      \/ Written(e, TRUE) /\ (stored'[e] = stored[e] \/ e \in unclear')
      \/ Written(e, FALSE) /\ (stored'[e] > 0 \/ e \in off')
  BY DEF AtTheEnd
<1>4. Hands \cap (Waiting \cup Buffer \cup Kept) = {}
  BY InHands DEF OnceInv
<1>5. /\ Buffer = Buffer' \cup {e} /\ IsInjective(buffer') /\ IsInjective(kept') /\ Buffer' \cap Kept' = {}
      /\ \/ Kept' = Kept /\ e \in Buffer' /\ (stored'[e] = stored[e] \/ e \in unclear')
         \/ Kept' = Kept \cup {e} /\ (stored'[e] = stored[e] \/ e \in unclear')
         \/ Kept' = Kept /\ e \notin Buffer' /\ (stored'[e] > 0 \/ e \in off')
  <2>1. CASE UNCHANGED <<buffer, kept>> /\ (stored'[e] = stored[e] \/ e \in unclear')
    <3>1. Buffer' = Buffer /\ Kept' = Kept /\ IsInjective(buffer') /\ IsInjective(kept')
      BY <2>1 DEF Buffer, Kept, OnceInv
    <3>. HIDE DEF e
    <3>. QED
      BY <1>1, <2>1, <3>1 DEF OnceInv
  <2>2. CASE Written(e, TRUE) /\ (stored'[e] = stored[e] \/ e \in unclear')
    <3>1. /\ Buffer = Buffer' \cup {e} /\ e \notin Buffer' /\ Kept' = Kept \cup {e}
          /\ IsInjective(buffer') /\ IsInjective(kept')
      BY <1>1, <2>2, WrittenSets
    <3>. HIDE DEF e
    <3>. QED
      BY <2>2, <3>1 DEF OnceInv
  <2>3. CASE Written(e, FALSE) /\ (stored'[e] > 0 \/ e \in off')
    <3>1. /\ Buffer = Buffer' \cup {e} /\ e \notin Buffer' /\ Kept' = Kept
          /\ IsInjective(buffer') /\ IsInjective(kept')
      BY <1>1, <2>3, WrittenSets
    <3>. HIDE DEF e
    <3>. QED
      BY <2>3, <3>1 DEF OnceInv
  <2>. QED
    BY <1>3, <2>1, <2>2, <2>3
<1>. HIDE DEF e
<1>6. OnceInv'
  <2>1. Kept' \subseteq Kept \cup Buffer /\ Buffer' \subseteq Buffer
    BY <1>5
  <2>2. Hands' \cap (Waiting' \cup Buffer' \cup Kept') = {}
    BY <1>2, <1>4, <2>1
  <2>3. \A b \in Actors : hand'[b] \notin Waiting' \cup Buffer' \cup Kept'
    BY <2>2, InHands
  <2>4. Waiting' \cap Buffer' = {} /\ Waiting' \cap Kept' = {}
    BY <1>2, <2>1 DEF OnceInv
  <2>5. IsInjective(queue') /\ \A b, c \in Actors : hand'[b] = hand'[c] /\ hand'[b] # 0 => b = c
    BY <1>2 DEF OnceInv
  <2>. QED
    BY <1>5, <2>3, <2>4, <2>5 DEF OnceInv
<1>7. Places' \subseteq Places /\ Places \subseteq Places' \cup {e}
  BY <1>1, <1>2, <1>5 DEF Places
<1>8. e \in Places /\ (e \in Places' \/ (e \notin Places' /\ (stored'[e] > 0 \/ e \in off')))
  <2>1. e \in Places
    BY <1>1 DEF Places
  <2>2. e \in Buffer' \cup Kept' => e \in Places'
    BY DEF Places
  <2>. QED
    BY <1>5, <2>1, <2>2
<1>9. e \in Places' => stored'[e] = stored[e] \/ e \in unclear'
  <2>1. e \notin Waiting' /\ e \notin Hands' /\ e \notin Kept
    BY <1>1, <1>2, <1>4 DEF OnceInv
  <2>. QED
    BY <1>5, <2>1 DEF Places
<1>. HIDE DEF Places
<1>10. StoredInv'
  <2>1. \A x \in 1..next : x \in Entries
    BY SinksAssumption DEF Types, Entries
  <2>2. \A x \in Entries : x > next' => stored'[x] = 0
    <3>1. ~(e > next)
      BY <1>1, SinksAssumption DEF Types
    <3>. QED
      BY <1>2, <3>1, StoredIs
  <2>3. ASSUME NEW x \in 1..next'
        PROVE  x \in Places' \/ stored'[x] > 0 \/ x \in refused' \cup off' \cup trimmed'
    <3>1. x \in 1..next /\ x \in Entries
      BY <1>2, <2>1
    <3>2. CASE x = e
      BY <1>8, <3>2
    <3>3. CASE x # e
      <4>1. stored'[x] = stored[x] /\ (x \in Places => x \in Places')
        BY <1>2, <1>7, <3>1, <3>3
      <4>2. x \in Places \/ stored[x] > 0 \/ x \in refused \cup off \cup trimmed
        BY <3>1, StoredIs
      <4>. QED
        BY <1>2, <4>1, <4>2
    <3>. QED
      BY <3>2, <3>3
  <2>4. ASSUME NEW x \in 1..next', stored'[x] > 1 \/ (stored'[x] = 1 /\ x \in Places')
        PROVE  x \in unclear'
    <3>1. x \in 1..next /\ x \in Entries
      BY <1>2, <2>1
    <3>2. CASE x = e
      <4>1. stored[e] >= 1 => e \in unclear
        <5>1. stored[e] > 1 \/ stored[e] = 1 => e \in unclear
          BY <1>1, <1>8, StoredIs
        <5>. QED
          BY <1>2, <5>1
      <4>2. CASE stored[e] >= 1
        BY <1>2, <3>2, <4>1, <4>2
      <4>3. CASE stored[e] = 0
        <5>1. stored'[e] = 1 /\ e \in Places'
          BY <1>2, <2>4, <3>2, <4>3
        <5>. QED
          BY <1>9, <3>2, <4>3, <5>1
      <4>. QED
        BY <1>2, <4>2, <4>3
    <3>3. CASE x # e
      <4>1. stored'[x] = stored[x] /\ (x \in Places' => x \in Places)
        BY <1>2, <1>7, <3>1, <3>3
      <4>2. stored[x] > 1 \/ (stored[x] = 1 /\ x \in Places) => x \in unclear
        BY <3>1, StoredIs
      <4>. QED
        BY <1>2, <2>4, <4>1, <4>2
    <3>. QED
      BY <3>2, <3>3
  <2>. QED
    BY <2>2, <2>3, <2>4, StoredIs
<1>. QED
  BY <1>6, <1>10

\* At the end of a flush the buffer is what it kept, or the newest of that.
LEMMA FlushEndMoves ==
  ASSUME Types, OnceInv, StoredInv, NEW a \in Actors, FlushEnd(a)
  PROVE  OnceInv' /\ StoredInv'
<1>1. /\ Buffer = {} /\ Kept' = {} /\ trimmed \subseteq trimmed'
      /\ Kept \subseteq Buffer' \cup trimmed' /\ Buffer' \subseteq Kept
      /\ IsInjective(buffer') /\ IsInjective(kept')
  BY FlushEndSets
<1>2. /\ Waiting' = Waiting /\ Hands' = Hands
      /\ UNCHANGED <<queue, hand, next, stored, unclear, off, refused>>
  BY DEF FlushEnd, Waiting, Hands
<1>3. Hands \cap (Waiting \cup Buffer \cup Kept) = {}
  BY InHands DEF OnceInv
<1>4. OnceInv'
  <2>1. Hands' \cap (Waiting' \cup Buffer' \cup Kept') = {}
    BY <1>1, <1>2, <1>3
  <2>2. \A b \in Actors : hand'[b] \notin Waiting' \cup Buffer' \cup Kept'
    BY <2>1, InHands
  <2>3. Waiting' \cap Buffer' = {} /\ Waiting' \cap Kept' = {} /\ Buffer' \cap Kept' = {}
    BY <1>1, <1>2 DEF OnceInv
  <2>4. IsInjective(queue') /\ \A b, c \in Actors : hand'[b] = hand'[c] /\ hand'[b] # 0 => b = c
    BY <1>2 DEF OnceInv
  <2>. QED
    BY <1>1, <2>2, <2>3, <2>4 DEF OnceInv
<1>5. Places' \subseteq Places /\ Places \subseteq Places' \cup trimmed'
  BY <1>1, <1>2 DEF Places
<1>. QED
  BY <1>1, <1>2, <1>4, <1>5, NothingStored

LEMMA NextPlaces == SinksInv /\ [Next]_vars => OnceInv' /\ StoredInv'
<1>. SUFFICES ASSUME Types, OnceInv, StoredInv, [Next]_vars PROVE OnceInv' /\ StoredInv'
  BY DEF SinksInv
<1>1. ASSUME NEW w \in Writers, Check(w) PROVE OnceInv' /\ StoredInv'
  <2>1. /\ pc[w] = "idle" /\ next < MaxEntries /\ next' = next + 1
        /\ UNCHANGED <<queue, buffer, kept, stored, unclear, off, trimmed>>
        /\ \/ refused' = refused \cup {next'} /\ hand' = hand
           \/ refused' = refused /\ hand' = [hand EXCEPT ![w] = next']
    BY <1>1 DEF Check
  <2>. QED
    BY <2>1, NewEntry
<1>2. ASSUME NEW w \in Writers, WriteBuffered(w) PROVE OnceInv' /\ StoredInv'
  <2>1. /\ pc[w] = "idle" /\ next < MaxEntries /\ next' = next + 1
        /\ UNCHANGED <<queue, buffer, kept, stored, unclear, off, trimmed, refused>>
        /\ hand' = [hand EXCEPT ![w] = next']
    BY <1>2 DEF WriteBuffered
  <2>. QED
    BY <2>1, NewEntry
<1>3. ASSUME NEW w \in Writers, Send(w) PROVE OnceInv' /\ StoredInv'
  BY <1>3, SendMoves
<1>4. ASSUME NEW w \in Workers, Take(w) PROVE OnceInv' /\ StoredInv'
  BY <1>4, TakeMoves
<1>5. ASSUME NEW w \in Workers, SeeStop(w) \/ Exit(w) PROVE OnceInv' /\ StoredInv'
  <2>1. UNCHANGED <<queue, buffer, kept, hand, next, stored, unclear, off, refused, trimmed>>
    BY <1>5 DEF SeeStop, Exit
  <2>. QED
    BY <2>1, NothingMoves
<1>6. ASSUME NEW a \in Writers \cup Workers, Put(a) PROVE OnceInv' /\ StoredInv'
  BY <1>6, PutMoves
<1>7. ASSUME NEW a \in Actors, Flush(a) PROVE OnceInv' /\ StoredInv'
  BY <1>7, LeafSteps, LeafMoves, FlushEndMoves DEF Flush
<1>8. CASE Tick \/ FlushTick \/ FlusherExit \/ CloseFlag \/ CloseStep \/ Toggle \/ UNCHANGED vars
  <2>1. UNCHANGED <<queue, buffer, kept, hand, next, stored, unclear, off, refused, trimmed>>
    BY <1>8 DEF Tick, FlushTick, FlusherExit, CloseFlag, CloseStep, CloseStop, BufferStop, FinalFlush, CloseInner,
                Toggle, vars
  <2>. QED
    BY <2>1, NothingMoves
<1>. QED
  BY <1>1, <1>2, <1>3, <1>4, <1>5, <1>6, <1>7, <1>8 DEF Next, WorkerStep

----------------------------------------------------------------------------
(* Close.                                                                  *)

\* Steps that touch neither the flags of Close nor the queue, and bring nobody to "send" or
\* out of "exit".
LEMMA CloseKept ==
  ASSUME CloseInv, UNCHANGED <<front, closed, stopA, draining, raced>>, Waiting' \subseteq Waiting,
         pc'[Closer] = pc[Closer],
         \A w \in Writers : pc'[w] = "send" => pc[w] = "send" /\ hand'[w] = hand[w],
         \A w \in Workers : pc'[w] = "exit" <=> pc[w] = "exit",
         pc[Flusher] = "exit" => pc'[Flusher] = "exit"
  PROVE  CloseInv'
BY DEF CloseInv

LEMMA NextClose == SinksInv /\ [Next]_vars => CloseInv'
<1>. SUFFICES ASSUME Types, MutexInv, CloseInv, [Next]_vars PROVE CloseInv'
  BY DEF SinksInv
<1>. USE ActorsApart DEF Go
<1>0. pc \in [Actors -> AllLabels] /\ hand \in [Actors -> 0..MaxEntries]
  BY DEF Types
<1>1. ASSUME NEW w \in Writers, Check(w) PROVE CloseInv'
  <2>1. /\ UNCHANGED <<front, closed, stopA, draining, raced, queue>>
        /\ \/ pc' = pc /\ hand' = hand
           \/ ~closed /\ pc' = [pc EXCEPT ![w] = "send"] /\ hand' = [hand EXCEPT ![w] = next']
    BY <1>1 DEF Check
  <2>2. Waiting' = Waiting
    BY <2>1 DEF Waiting
  <2>3. CASE pc' = pc /\ hand' = hand
    BY <2>1, <2>2, <2>3, CloseKept
  <2>4. CASE ~closed /\ pc' = [pc EXCEPT ![w] = "send"]
    <3>1. \A a \in Actors : a # w => pc'[a] = pc[a]
      BY <1>0, <2>4
    <3>. QED
      BY <2>1, <2>2, <2>4, <3>1 DEF CloseInv
  <2>. QED
    BY <2>1, <2>3, <2>4
<1>2. ASSUME NEW w \in Writers, Send(w) PROVE CloseInv'
  <2>1. /\ UNCHANGED <<front, closed, stopA, draining, raced>> /\ pc[w] = "send"
        /\ pc' = [pc EXCEPT ![w] = "idle"] /\ hand' = [hand EXCEPT ![w] = 0]
    BY <1>2 DEF Send
  <2>2. Waiting' \subseteq Waiting \cup {hand[w]}
    <3>1. queue \in Seq(1..next) /\ hand[w] \in 1..next
      <4>1. hand[w] \in IF pc[w] \in {"send", "lock"} THEN 1..next ELSE {0}
        BY DEF Types, Labels
      <4>. QED
        BY <2>1, <4>1 DEF Types
    <3>2. ToSet(Append(queue, hand[w])) = ToSet(queue) \cup {hand[w]}
      BY <3>1, OneMore
    <3>3. queue' = queue \/ queue' = Append(queue, hand[w])
      BY <1>2 DEF Send
    <3>. QED
      BY <3>2, <3>3 DEF Waiting
  <2>3. /\ pc'[w] = "idle" /\ \A a \in Actors : a # w => pc'[a] = pc[a] /\ hand'[a] = hand[a]
    BY <1>0, <2>1
  <2>4. closed => hand[w] \in raced
    BY <2>1 DEF CloseInv
  <2>. QED
    BY <2>1, <2>2, <2>3, <2>4 DEF CloseInv
<1>3. ASSUME NEW w \in Writers, WriteBuffered(w) PROVE CloseInv'
  <2>1. /\ UNCHANGED <<front, closed, stopA, draining, raced, queue>>
        /\ pc' = [pc EXCEPT ![w] = "lock"] /\ hand' = [hand EXCEPT ![w] = next']
    BY <1>3 DEF WriteBuffered
  <2>2. Waiting' = Waiting /\ \A a \in Actors : pc'[a] = (IF a = w THEN "lock" ELSE pc[a])
                                             /\ (a # w => hand'[a] = hand[a])
    BY <1>0, <2>1 DEF Waiting
  <2>. QED
    BY <2>1, <2>2, CloseKept
<1>4. ASSUME NEW w \in Workers, Take(w) PROVE CloseInv'
  <2>1. /\ UNCHANGED <<front, closed, stopA, draining, raced>> /\ pc[w] = "idle" /\ queue # <<>>
        /\ pc' = [pc EXCEPT ![w] = "lock"] /\ hand' = [hand EXCEPT ![w] = Head(queue)]
        /\ queue' = Tail(queue)
    BY <1>4 DEF Take
  <2>2. Waiting' \subseteq Waiting
    BY <2>1, TailOf DEF Waiting, Types
  <2>3. \A a \in Actors : pc'[a] = (IF a = w THEN "lock" ELSE pc[a]) /\ (a # w => hand'[a] = hand[a])
    BY <1>0, <2>1
  <2>. QED
    BY <2>1, <2>2, <2>3, CloseKept
<1>5. ASSUME NEW w \in Workers, SeeStop(w) PROVE CloseInv'
  BY <1>5 DEF SeeStop, CloseInv, Waiting
<1>6. ASSUME NEW w \in Workers, Exit(w) PROVE CloseInv'
  <2>1. /\ UNCHANGED <<front, closed, stopA, draining, raced, queue, hand>> /\ w \in draining /\ queue = <<>>
        /\ pc' = [pc EXCEPT ![w] = "exit"]
    BY <1>6 DEF Exit
  <2>2. Waiting' = {} /\ Waiting = {} /\ \A a \in Actors : pc'[a] = (IF a = w THEN "exit" ELSE pc[a])
    BY <1>0, <2>1, Empty DEF Waiting
  <2>. QED
    BY <2>1, <2>2 DEF CloseInv
<1>7. ASSUME NEW a \in Writers \cup Workers, Put(a) PROVE CloseInv'
  <2>1. /\ UNCHANGED <<front, closed, stopA, draining, raced, queue>> /\ pc[a] = "lock"
        /\ hand' = [hand EXCEPT ![a] = 0] /\ a \in Actors
        /\ \E p \in {"idle", "flush"} : pc' = [pc EXCEPT ![a] = p]
    BY <1>7 DEF Put
  <2>2. PICK p \in {"idle", "flush"} : pc' = [pc EXCEPT ![a] = p]
    BY <2>1
  <2>3. /\ Waiting' = Waiting
        /\ \A b \in Actors : pc'[b] = (IF b = a THEN p ELSE pc[b]) /\ (b # a => hand'[b] = hand[b])
    BY <1>0, <2>1, <2>2 DEF Waiting
  <2>4. a # Closer /\ a # Flusher /\ p # "send" /\ p # "exit"
    BY <2>2
  <2>. QED
    BY <2>1, <2>3, <2>4, CloseKept
<1>8. CASE Tick \/ FlushTick \/ FlusherExit
  <2>1. /\ UNCHANGED <<front, closed, stopA, draining, raced, queue, hand>> /\ pc[Flusher] # "exit"
        /\ \E p \in FlusherLabels : pc' = [pc EXCEPT ![Flusher] = p]
    BY <1>8 DEF Tick, FlushTick, FlusherExit, FlusherLabels
  <2>2. Waiting' = Waiting /\ \A b \in Actors : b # Flusher => pc'[b] = pc[b]
    BY <1>0, <2>1 DEF Waiting
  <2>. QED
    BY <2>1, <2>2, CloseKept
<1>9. ASSUME NEW a \in Actors, Flush(a) PROVE CloseInv'
  <2>1. CASE AtTheEnd(a, Head(buffer))
    <3>1. UNCHANGED <<front, pc, hand, queue, closed, stopA, draining, raced>>
      BY <2>1 DEF AtTheEnd
    <3>2. Waiting' = Waiting
      BY <3>1 DEF Waiting
    <3>. QED
      BY <3>1, <3>2, CloseKept
  <2>2. CASE FlushEnd(a)
    <3>1. /\ UNCHANGED <<front, hand, queue, closed, stopA, draining, raced>> /\ pc[a] = "flush"
          /\ pc' = [pc EXCEPT ![a] = IF a = Closer THEN "inner" ELSE "idle"]
      BY <2>2 DEF FlushEnd, Back
    <3>2. /\ Waiting' = Waiting
          /\ \A b \in Actors : pc'[b] = IF b # a THEN pc[b] ELSE IF a = Closer THEN "inner" ELSE "idle"
      BY <1>0, <3>1 DEF Waiting
    <3>3. CASE a = Closer
      BY <3>1, <3>2, <3>3 DEF CloseInv
    <3>4. CASE a # Closer
      BY <3>1, <3>2, <3>4, CloseKept
    <3>. QED
      BY <3>3, <3>4
  <2>. QED
    BY <1>9, <2>1, <2>2, LeafSteps DEF Flush
<1>10. CASE CloseFlag
  <2>1. /\ UNCHANGED <<front, hand, queue, stopA, draining>> /\ pc[Closer] = "idle"
        /\ closed' = TRUE /\ raced' = {hand[w] : w \in {v \in Writers : pc[v] = "send"}}
        /\ pc' = [pc EXCEPT ![Closer] = "stop"]
    BY <1>10 DEF CloseFlag
  <2>2. pc'[Closer] = "stop" /\ \A b \in Actors : b # Closer => pc'[b] = pc[b]
    BY <1>0, <2>1
  <2>3. ~stopA
    BY <2>1 DEF CloseInv
  <2>4. \A w \in Writers : pc'[w] = "send" => hand'[w] \in raced'
    BY <2>1, <2>2
  <2>. QED
    BY <2>1, <2>2, <2>3, <2>4 DEF CloseInv
<1>11. CASE CloseStop
  <2>1. /\ UNCHANGED <<front, hand, queue, closed, draining, raced>> /\ pc[Closer] = "stop" /\ stopA' = TRUE
        /\ pc' = [pc EXCEPT ![Closer] = "wait"]
    BY <1>11 DEF CloseStop
  <2>2. Waiting' = Waiting /\ pc'[Closer] = "wait" /\ \A b \in Actors : b # Closer => pc'[b] = pc[b]
    BY <1>0, <2>1 DEF Waiting
  <2>. QED
    BY <2>1, <2>2 DEF CloseInv
<1>12. CASE BufferStop \/ FinalFlush \/ CloseInner
  <2>1. /\ UNCHANGED <<front, hand, queue, closed, stopA, draining, raced>>
        /\ \/ /\ pc' = [pc EXCEPT ![Closer] = "lock"]
              /\ \/ pc[Closer] = "wait" /\ \A w \in Workers : pc[w] = "exit"
                 \/ front = "buffered" /\ pc[Closer] = "idle"
           \/ pc' = [pc EXCEPT ![Closer] = "flush"] /\ pc[Closer] = "lock" /\ pc[Flusher] = "exit"
           \/ pc' = [pc EXCEPT ![Closer] = "done"] /\ pc[Closer] = "inner"
    BY <1>12 DEF BufferStop, FinalFlush, CloseInner
  <2>2. Waiting' = Waiting /\ \A b \in Actors : b # Closer => pc'[b] = pc[b]
    BY <1>0, <2>1 DEF Waiting
  <2>3. CASE /\ pc' = [pc EXCEPT ![Closer] = "lock"]
             /\ \/ pc[Closer] = "wait" /\ \A w \in Workers : pc[w] = "exit"
                \/ front = "buffered" /\ pc[Closer] = "idle"
    <3>1. pc'[Closer] = "lock"
      BY <1>0, <2>3
    <3>. QED
      BY <2>1, <2>2, <2>3, <3>1 DEF CloseInv
  <2>4. CASE pc' = [pc EXCEPT ![Closer] = "flush"] /\ pc[Closer] = "lock" /\ pc[Flusher] = "exit"
    <3>1. pc'[Closer] = "flush"
      BY <1>0, <2>4
    <3>. QED
      BY <2>1, <2>2, <2>4, <3>1 DEF CloseInv
  <2>5. CASE pc' = [pc EXCEPT ![Closer] = "done"] /\ pc[Closer] = "inner"
    <3>1. pc'[Closer] = "done"
      BY <1>0, <2>5
    <3>. QED
      BY <2>1, <2>2, <2>5, <3>1 DEF CloseInv
  <2>. QED
    BY <2>1, <2>3, <2>4, <2>5
<1>13. CASE Toggle \/ UNCHANGED vars
  BY <1>13 DEF Toggle, vars, CloseInv, Waiting
<1>. QED
  BY <1>1, <1>2, <1>3, <1>4, <1>5, <1>6, <1>7, <1>8, <1>9, <1>10, <1>11, <1>12, <1>13
     DEF Next, WorkerStep, CloseStep

\* Steps that leave alone what is buffered, kept and failed, who flushes, and the file.
LEMMA LeftKept ==
  ASSUME LeftInv, UNCHANGED <<buffer, kept, failed, late, opened, toggled>>,
         pc'[Closer] = pc[Closer], \A a \in Actors : pc'[a] = "flush" => pc[a] = "flush"
  PROVE  LeftInv'
BY DEF LeftInv, Buffer, Kept

LEMMA NextLeft == SinksInv /\ [Next]_vars => LeftInv'
<1>. SUFFICES ASSUME Types, OnceInv, MutexInv, CloseInv, LeftInv, [Next]_vars PROVE LeftInv'
  BY DEF SinksInv
<1>. USE ActorsApart DEF Go
<1>0. pc \in [Actors -> AllLabels]
  BY DEF Types
<1>1. ASSUME NEW w \in Writers, Check(w) \/ Send(w) \/ WriteBuffered(w) PROVE LeftInv'
  <2>1. /\ UNCHANGED <<buffer, kept, failed, late, opened, toggled>>
        /\ pc' = pc \/ \E p \in {"send", "idle", "lock"} : pc' = [pc EXCEPT ![w] = p]
    BY <1>1 DEF Check, Send, WriteBuffered
  <2>2. pc'[Closer] = pc[Closer] /\ \A a \in Actors : pc'[a] = "flush" => pc[a] = "flush"
    BY <1>0, <2>1
  <2>. QED
    BY <2>1, <2>2, LeftKept
<1>2. ASSUME NEW w \in Workers, WorkerStep(w) PROVE LeftInv'
  <2>1. /\ UNCHANGED <<buffer, kept, failed, late, opened, toggled>>
        /\ pc' = pc \/ \E p \in {"exit", "lock"} : pc' = [pc EXCEPT ![w] = p]
    BY <1>2 DEF WorkerStep, Take, SeeStop, Exit
  <2>2. pc'[Closer] = pc[Closer] /\ \A a \in Actors : pc'[a] = "flush" => pc[a] = "flush"
    BY <1>0, <2>1
  <2>. QED
    BY <2>1, <2>2, LeftKept
<1>3. ASSUME NEW a \in Writers \cup Workers, Put(a) PROVE LeftInv'
  <2>1. /\ UNCHANGED <<kept, failed, opened, toggled>> /\ mu = NoOne /\ buffer' = Append(buffer, hand[a])
        /\ late' = IF pc[Closer] = "done" THEN late \cup {hand[a]} ELSE late
        /\ \E p \in {"idle", "flush"} : pc' = [pc EXCEPT ![a] = p]
    BY <1>3 DEF Put
  <2>2. a # Closer /\ a \in Actors /\ pc'[Closer] = pc[Closer] /\ Kept' = Kept
    BY <1>0, <2>1 DEF Kept
  <2>3. pc[Closer] # "inner"
    BY <2>1 DEF MutexInv
  <2>4. Buffer' = Buffer \cup {hand[a]}
    <3>1. pc[a] = "lock"
      BY <1>3 DEF Put
    <3>2. hand[a] \in 1..next /\ buffer \in Seq(1..next)
      BY <3>1 DEF Types, Labels
    <3>3. ToSet(Append(buffer, hand[a])) = ToSet(buffer) \cup {hand[a]}
      BY <3>2, OneMore
    <3>. QED
      BY <2>1, <3>3 DEF Buffer
  <2>. QED
    BY <2>1, <2>2, <2>3, <2>4 DEF LeftInv
<1>4. CASE Tick \/ FlushTick \/ FlusherExit
  <2>1. /\ UNCHANGED <<buffer, kept, failed, late, opened, toggled>> /\ pc[Flusher] # "exit"
        /\ \E p \in FlusherLabels : pc' = [pc EXCEPT ![Flusher] = p]
    BY <1>4 DEF Tick, FlushTick, FlusherExit, FlusherLabels
  <2>2. pc'[Closer] = pc[Closer] /\ pc[Closer] # "done" /\ Buffer' = Buffer /\ Kept' = Kept
    BY <1>0, <2>1 DEF CloseInv, Buffer, Kept
  <2>. QED
    BY <2>1, <2>2 DEF LeftInv
<1>5. ASSUME NEW a \in Actors, Flush(a) PROVE LeftInv'
  <2>1. CASE AtTheEnd(a, Head(buffer))
    <3>1. /\ pc' = pc /\ toggled' = toggled /\ late' = late /\ pc[a] = "flush" /\ buffer # <<>>
          /\ \/ UNCHANGED <<buffer, kept, failed>>
             \/ \E err \in BOOLEAN : Written(Head(buffer), err)
      BY <2>1 DEF AtTheEnd, Flushing
    <3>2. pc[Closer] # "inner"
      BY <3>1 DEF MutexInv
    <3>3. pc[Closer] = "done" => late # {}
      BY <3>1 DEF LeftInv
    <3>4. CASE UNCHANGED <<buffer, kept, failed>>
      BY <3>1, <3>2, <3>3, <3>4 DEF LeftInv, Buffer, Kept
    <3>5. ASSUME NEW err \in BOOLEAN, Written(Head(buffer), err) PROVE LeftInv'
      <4>. DEFINE e == Head(buffer)
      <4>1. /\ Buffer = Buffer' \cup {e} /\ e \notin Buffer'
            /\ Kept' = IF err THEN Kept \cup {e} ELSE Kept
        BY <3>1, <3>5, WrittenSets
      <4>2. failed' = IF err THEN failed \cup {e} ELSE failed \ {e}
        BY <3>5 DEF Written
      <4>. HIDE DEF e
      <4>3. e \notin Kept
        BY <4>1 DEF OnceInv
      <4>4. Kept' \subseteq failed'
        BY <4>1, <4>2, <4>3 DEF LeftInv
      <4>5. pc[Closer] = "done" => Buffer' \subseteq failed' \cup late
        BY <4>1, <4>2 DEF LeftInv
      <4>. QED
        BY <3>1, <3>2, <3>3, <4>4, <4>5 DEF LeftInv
    <3>. QED
      BY <3>1, <3>4, <3>5
  <2>2. CASE FlushEnd(a)
    <3>1. /\ UNCHANGED <<failed, late, opened, toggled>> /\ pc[a] = "flush"
          /\ pc' = [pc EXCEPT ![a] = IF a = Closer THEN "inner" ELSE "idle"]
      BY <2>2 DEF FlushEnd, Back
    <3>2. Kept' = {} /\ Buffer' \subseteq Kept
      BY <2>2, FlushEndSets
    <3>3. \A b \in Actors : pc'[b] = IF b # a THEN pc[b] ELSE IF a = Closer THEN "inner" ELSE "idle"
      BY <1>0, <3>1
    <3>. QED
      BY <3>1, <3>2, <3>3 DEF LeftInv
  <2>. QED
    BY <1>5, <2>1, <2>2, LeafSteps DEF Flush
<1>6. CASE CloseFlag \/ CloseStop \/ BufferStop \/ FinalFlush
  <2>1. /\ UNCHANGED <<buffer, kept, failed, late, opened, toggled>>
        /\ \E p \in {"stop", "wait", "lock", "flush"} : pc' = [pc EXCEPT ![Closer] = p]
    BY <1>6 DEF CloseFlag, CloseStop, BufferStop, FinalFlush
  <2>2. pc'[Closer] \in {"stop", "wait", "lock", "flush"} /\ Kept' = Kept
    BY <1>0, <2>1 DEF Kept
  <2>. QED
    BY <2>1, <2>2 DEF LeftInv
<1>7. CASE CloseInner
  <2>1. /\ UNCHANGED <<buffer, kept, failed, late, toggled>> /\ pc[Closer] = "inner"
        /\ opened' = (opened /\ toggled) /\ pc' = [pc EXCEPT ![Closer] = "done"]
    BY <1>7 DEF CloseInner
  <2>2. Buffer' = Buffer /\ Kept' = Kept
    BY <2>1 DEF Buffer, Kept
  <2>3. \A a \in Actors : pc'[a] # "flush"
    <3>1. \A a \in Actors : pc[a] # "flush"
      BY <2>1 DEF MutexInv
    <3>. QED
      BY <1>0, <2>1, <3>1
  <2>. QED
    BY <2>1, <2>2, <2>3 DEF LeftInv
<1>8. CASE Toggle \/ UNCHANGED vars
  BY <1>8 DEF Toggle, vars, LeftInv, Buffer, Kept
<1>. QED
  BY <1>1, <1>2, <1>3, <1>4, <1>5, <1>6, <1>7, <1>8 DEF Next, CloseStep

----------------------------------------------------------------------------
(* The theorems.                                                           *)

LEMMA InitInv == Init => SinksInv
<1>. SUFFICES ASSUME Init PROVE SinksInv
  OBVIOUS
<1>1. Types
  BY InitTypes
<1>2. Waiting = {} /\ Buffer = {} /\ Kept = {} /\ OnceInv
  <2>1. Waiting = {} /\ Buffer = {} /\ Kept = {}
    BY Empty DEF Init, Waiting, Buffer, Kept
  <2>2. IsInjective(queue) /\ IsInjective(buffer) /\ IsInjective(kept)
    BY Empty DEF Init
  <2>. QED
    BY <2>1, <2>2 DEF Init, OnceInv
<1>3. StoredInv
  <2>1. next = 0 /\ \A e \in Entries : stored[e] = 0
    BY DEF Init
  <2>. QED
    BY <2>1 DEF StoredInv, Accounted, DuplicatesExplained
<1>4. \A a \in Actors : pc[a] = IF a \in Workers /\ front # "async" THEN "exit" ELSE "idle"
  BY DEF Init
<1>5. MutexInv
  BY <1>4, ActorsApart DEF MutexInv
<1>6. CloseInv
  BY <1>4, ActorsApart DEF Init, CloseInv
<1>7. LeftInv
  BY <1>2, <1>4, ActorsApart DEF LeftInv
<1>. QED
  BY <1>1, <1>2, <1>3, <1>5, <1>6, <1>7 DEF SinksInv

\* The invariant of the chain: where its entries are and how often each was stored, who holds
\* the mutex of the buffered sink, how far Close is, and what its final flush leaves.
THEOREM ChainCorrect == Spec => []SinksInv
<1>1. SinksInv /\ [Next]_vars => SinksInv'
  BY NextTypes, NextPlaces, NextMutex, NextClose, NextLeft DEF SinksInv
<1>. QED
  BY <1>1, InitInv, PTL DEF Spec

\* No entry vanishes in a chain of sinks: Accounted holds for every chain, number of
\* goroutines and size.
THEOREM Accounts == Spec => []Accounted
<1>1. SinksInv => Accounted
  BY DEF SinksInv, StoredInv
<1>. QED
  BY <1>1, ChainCorrect, PTL

\* Only a sink that returned an error for an entry it had stored or kept has it twice.
THEOREM ExplainsDuplicates == Spec => []DuplicatesExplained
<1>1. SinksInv => DuplicatesExplained
  BY DEF SinksInv, StoredInv
<1>. QED
  BY <1>1, ChainCorrect, PTL

\* Close of the async sink and Close of the buffered sink leave nothing behind but what
\* CloseDrains names.
THEOREM Drains == Spec => []CloseDrains
<1>1. SinksInv => CloseDrains
  <2>. SUFFICES ASSUME SinksInv, pc[Closer] = "done"
                PROVE  /\ Waiting \subseteq raced
                       /\ \A w \in Workers : pc[w] = "exit" /\ hand[w] = 0
                       /\ Buffer \cup Kept \subseteq failed \cup late
                       /\ opened => toggled \/ late # {}
    BY DEF CloseDrains, Waiting, Buffer, Kept
  <2>. USE DEF SinksInv
  <2>1. \A w \in Workers : pc[w] = "exit"
    BY DEF Types, Labels, WorkerLabels, CloseInv
  <2>2. ASSUME NEW w \in Workers PROVE hand[w] = 0
    <3>1. hand[w] \in IF pc[w] \in {"send", "lock"} THEN 1..next ELSE {0}
      BY DEF Types, Labels
    <3>. QED
      BY <2>1, <3>1
  <2>3. Waiting \subseteq raced
    <3>1. CASE front = "async"
      BY <2>1, <3>1, SinksAssumption DEF CloseInv
    <3>2. CASE front = "buffered"
      BY <3>2, Empty DEF Types, Waiting
    <3>. QED
      BY <3>1, <3>2 DEF Types
  <2>4. Buffer \cup Kept \subseteq failed \cup late /\ (opened => toggled \/ late # {})
    BY DEF LeftInv
  <2>. QED
    BY <2>1, <2>2, <2>3, <2>4
<1>. QED
  BY <1>1, ChainCorrect, PTL

----------------------------------------------------------------------------
(* The files.                                                              *)

\* What one more entry does to the older parts of a sequence, and to the newest.
LEMMA AppendedPart ==
  ASSUME NEW S, NEW w \in Seq(S), NEW e \in S, NEW a \in Nat, NEW b \in Nat, b <= Len(w)
  PROVE  SubSeq(Append(w, e), a + 1, b) = SubSeq(w, a + 1, b)
<1>. DEFINE u == Append(w, e)
<1>1. Len(u) = Len(w) + 1 /\ u \in Seq(S) /\ \A i \in 1..Len(w) : u[i] = w[i]
  OBVIOUS
<1>. HIDE DEF u
<1>. QED
  BY <1>1

LEMMA AppendedEnd ==
  ASSUME NEW S, NEW w \in Seq(S), NEW e \in S, NEW a \in Nat, a <= Len(w)
  PROVE  SubSeq(Append(w, e), a + 1, Len(w) + 1) = Append(SubSeq(w, a + 1, Len(w)), e)
<1>. DEFINE u == Append(w, e)
            l == SubSeq(u, a + 1, Len(w) + 1)
            s == SubSeq(w, a + 1, Len(w))
            r == Append(s, e)
<1>1. Len(u) = Len(w) + 1 /\ u \in Seq(S) /\ u[Len(w) + 1] = e /\ \A i \in 1..Len(w) : u[i] = w[i]
  OBVIOUS
<1>2. s \in Seq(S) /\ Len(s) = Len(w) - a /\ \A i \in 1..(Len(w) - a) : s[i] = w[a + i]
  OBVIOUS
<1>. HIDE DEF s
<1>3. r \in Seq(S) /\ Len(r) = Len(w) - a + 1 /\ r[Len(w) - a + 1] = e
      /\ \A i \in 1..(Len(w) - a) : r[i] = w[a + i]
  BY <1>2
<1>. HIDE DEF r, u
<1>4. l \in Seq(S) /\ Len(l) = Len(w) - a + 1 /\ \A i \in 1..(Len(w) - a + 1) : l[i] = u[a + i]
  BY <1>1
<1>. HIDE DEF l
<1>5. \A i \in 1..(Len(w) - a + 1) : l[i] = r[i]
  <2>. SUFFICES ASSUME NEW i \in 1..(Len(w) - a + 1) PROVE l[i] = r[i]
    OBVIOUS
  <2>1. CASE i = Len(w) - a + 1
    BY <1>1, <1>3, <1>4, <2>1
  <2>2. CASE i # Len(w) - a + 1
    <3>1. i \in 1..(Len(w) - a) /\ a + i \in 1..Len(w)
      BY <2>2
    <3>. QED
      BY <1>1, <1>3, <1>4, <3>1
  <2>. QED
    BY <2>1, <2>2
<1>6. l = r
  BY <1>3, <1>4, <1>5, SeqEqual
<1>. QED
  BY <1>6 DEF l, r, s, u

\* Nothing is older than the first entry; the older entries of a backup are those of the one
\* before it but for a full file; and a rotation makes one backup more of a full log file.
LEMMA OlderFacts ==
  ASSUME NEW n \in Nat, NEW r \in 0..n, NEW i \in Nat
  PROVE  /\ Older(n, r, i) \in 0..(n - r) /\ Older(n, r, 0) = n - r
         /\ Older(n + 1, r + 1, i) = Older(n, r, i)
         /\ Older(n, r, i + 1) <= Older(n, r, i)
         /\ Older(n, r, i + 1) = Older(n, r, i) => Older(n, r, i) = 0
         /\ RotateSize <= n => Older(n, 0, i + 1) = Older(n, RotateSize, i)
<1>. DEFINE R == RotateSize
            k == i * R
<1>1. R \in Nat \ {0} /\ k \in Nat /\ (i + 1) * R = k + R /\ 0 * R = 0
  BY SinksAssumption
<1>. HIDE DEF k, R
<1>2. /\ Older(n, r, i) = IF k < n - r THEN n - r - k ELSE 0
      /\ Older(n, r, 0) = IF 0 < n - r THEN n - r - 0 ELSE 0
      /\ Older(n + 1, r + 1, i) = IF k < (n + 1) - (r + 1) THEN (n + 1) - (r + 1) - k ELSE 0
      /\ Older(n, r, i + 1) = IF k + R < n - r THEN n - r - (k + R) ELSE 0
      /\ Older(n, 0, i + 1) = IF k + R < n - 0 THEN n - 0 - (k + R) ELSE 0
      /\ Older(n, R, i) = IF k < n - R THEN n - R - k ELSE 0
  <2>1. i * RotateSize = k /\ (i + 1) * RotateSize = k + R /\ 0 * RotateSize = 0 /\ R = RotateSize
    BY <1>1 DEF k, R
  <2>2. \A m, q, j, o : o = j * RotateSize => Older(m, q, j) = IF o < m - q THEN m - q - o ELSE 0
    BY Zenon DEF Older
  <2>3. Older(n, r, i) = IF k < n - r THEN n - r - k ELSE 0
    BY Zenon, <2>1, <2>2
  <2>4. Older(n, r, 0) = IF 0 < n - r THEN n - r - 0 ELSE 0
    BY Zenon, <2>1, <2>2
  <2>5. Older(n + 1, r + 1, i) = IF k < (n + 1) - (r + 1) THEN (n + 1) - (r + 1) - k ELSE 0
    BY Zenon, <2>1, <2>2
  <2>6. Older(n, r, i + 1) = IF k + R < n - r THEN n - r - (k + R) ELSE 0
    BY Zenon, <2>1, <2>2
  <2>7. Older(n, 0, i + 1) = IF k + R < n - 0 THEN n - 0 - (k + R) ELSE 0
    BY Zenon, <2>1, <2>2
  <2>8. Older(n, R, i) = IF k < n - R THEN n - R - k ELSE 0
    BY Zenon, <2>1, <2>2
  <2>. QED
    BY Zenon, <2>3, <2>4, <2>5, <2>6, <2>7, <2>8
<1>3. n \in Nat /\ r \in Nat /\ r <= n
  OBVIOUS
<1>4. Older(n, r, i) \in 0..(n - r) /\ Older(n, r, 0) = n - r
  BY <1>1, <1>2, <1>3
<1>5. Older(n + 1, r + 1, i) = Older(n, r, i)
  BY <1>1, <1>2, <1>3
<1>6. Older(n, r, i + 1) <= Older(n, r, i)
  BY <1>1, <1>2, <1>3
<1>7. Older(n, r, i + 1) = Older(n, r, i) => Older(n, r, i) = 0
  BY <1>1, <1>2, <1>3
<1>8. R <= n => Older(n, 0, i + 1) = Older(n, R, i)
  BY <1>1, <1>2, <1>3
<1>. QED
  BY <1>4, <1>5, <1>6, <1>7, <1>8 DEF R

\* The files f are as they should be when w has been written to them.
Filed(f, w, mis) ==
  LET older(i) == Older(Len(w), Len(f[0]), i)
  IN  /\ f \in [0..MaxBackups -> Seq(Entries)] /\ w \in Seq(Entries)
      /\ ~mis => Len(f[0]) <= RotateSize
      /\ f[0] = SubSeq(w, older(0) + 1, Len(w))
      /\ ~mis => \A i \in 1..MaxBackups : f[i] = SubSeq(w, older(i) + 1, older(i - 1))

FileInv == Filed(files, written, misnamed)

\* A file holds no more entries than were written.
LEMMA FiledSizes ==
  ASSUME NEW f, NEW w, NEW mis, Filed(f, w, mis)
  PROVE  /\ Len(w) \in Nat /\ Len(f[0]) \in 0..Len(w) /\ f[0] \in Seq(Entries)
         /\ \A i \in Nat : Older(Len(w), Len(f[0]), i) \in 0..(Len(w) - Len(f[0]))
<1>1. 0 \in 0..MaxBackups
  BY SinksAssumption
<1>2. f[0] \in Seq(Entries) /\ w \in Seq(Entries)
  BY <1>1 DEF Filed
<1>3. Len(w) \in Nat /\ Len(f[0]) \in Nat
  BY <1>2
<1>4. f[0] = SubSeq(w, Older(Len(w), Len(f[0]), 0) + 1, Len(w))
  BY Zenon DEF Filed
<1>. DEFINE o == Older(Len(w), Len(f[0]), 0)
            n == Len(w)
            r == Len(f[0])
<1>5. o = IF 0 < n - r THEN n - r - 0 ELSE 0
  <2>1. 0 * RotateSize = 0
    BY SinksAssumption
  <2>2. o = IF 0 * RotateSize < n - r THEN n - r - 0 * RotateSize ELSE 0
    BY Zenon DEF Older
  <2>. QED
    BY Zenon, <2>1, <2>2
<1>6. r = Len(SubSeq(w, o + 1, n))
  BY Zenon, <1>4
<1>. HIDE DEF o, n, r
<1>7. n \in Nat /\ r \in Nat
  BY <1>3 DEF n, r
<1>8. o \in 0..n \/ o \in Nat
  BY <1>5, <1>7
<1>9. n = Len(w)
  BY DEF n
<1>10. r = IF o + 1 <= n THEN n - o ELSE 0
  BY <1>2, <1>6, <1>7, <1>8, <1>9
<1>11. r \in 0..n
  BY <1>5, <1>7, <1>10
<1>12. \A i \in Nat : Older(n, r, i) \in 0..(n - r)
  BY Zenon, <1>7, <1>11, OlderFacts
<1>. QED
  BY <1>2, <1>7, <1>11, <1>12 DEF n, r

\* An entry appended to a log file that is not full.
LEMMA FiledAppend ==
  ASSUME NEW f, NEW w, NEW mis, NEW e \in Entries, Filed(f, w, mis),
         ~mis => Len(f[0]) < RotateSize
  PROVE  Filed([f EXCEPT ![0] = Append(@, e)], Append(w, e), mis)
<1>. DEFINE n == Len(w)
            r == Len(f[0])
            g == [f EXCEPT ![0] = Append(@, e)]
            v == Append(w, e)
            old(i) == Older(n, r, i)
            new(i) == Older(Len(v), Len(g[0]), i)
<1>1. /\ f \in [0..MaxBackups -> Seq(Entries)] /\ w \in Seq(Entries)
      /\ f[0] = SubSeq(w, old(0) + 1, n)
      /\ ~mis => \A i \in 1..MaxBackups : f[i] = SubSeq(w, old(i) + 1, old(i - 1))
  BY Zenon DEF Filed
<1>2. n \in Nat /\ r \in 0..n /\ f[0] \in Seq(Entries) /\ \A i \in Nat : old(i) \in 0..(n - r)
  BY Zenon, FiledSizes
<1>3. MaxBackups \in Nat /\ RotateSize \in Nat
  BY SinksAssumption
<1>4. /\ g \in [0..MaxBackups -> Seq(Entries)] /\ g[0] = Append(f[0], e)
      /\ \A i \in 1..MaxBackups : g[i] = f[i]
  <2>. DEFINE x == Append(f[0], e)
  <2>1. x \in Seq(Entries)
    BY <1>2
  <2>. HIDE DEF x
  <2>2. g = [f EXCEPT ![0] = x]
    BY Zenon DEF x
  <2>. HIDE DEF g
  <2>3. g \in [0..MaxBackups -> Seq(Entries)] /\ g[0] = x /\ \A i \in 1..MaxBackups : g[i] = f[i]
    BY <1>1, <1>3, <2>1, <2>2
  <2>. QED
    BY Zenon, <2>3 DEF x
<1>5. v \in Seq(Entries) /\ Len(v) = n + 1
  BY <1>1
<1>6. Len(g[0]) = r + 1
  BY <1>2, <1>4
<1>7. \A i \in Nat : new(i) = old(i)
  <2>1. \A i \in Nat : Older(n + 1, r + 1, i) = Older(n, r, i)
    BY Zenon, <1>2, OlderFacts
  <2>. QED
    BY Zenon, <1>5, <1>6, <2>1
<1>. HIDE DEF old, new, g, v
<1>8. \A i \in 1..MaxBackups : i \in Nat /\ i - 1 \in Nat
  BY <1>3
<1>9. g[0] = SubSeq(v, new(0) + 1, Len(v))
  <2>1. old(0) \in Nat /\ old(0) <= Len(w) /\ 0 \in Nat
    BY <1>2
  <2>2. SubSeq(v, old(0) + 1, n + 1) = Append(SubSeq(w, old(0) + 1, n), e)
    BY <1>1, <2>1, AppendedEnd DEF v
  <2>. QED
    BY Zenon, <1>1, <1>4, <1>5, <1>7, <2>1, <2>2
<1>10. ASSUME ~mis, NEW i \in 1..MaxBackups PROVE g[i] = SubSeq(v, new(i) + 1, new(i - 1))
  <2>1. old(i) \in Nat /\ old(i - 1) \in Nat /\ old(i - 1) <= n
    <3>. HIDE DEF n, r
    <3>1. old(i) \in 0..(n - r) /\ old(i - 1) \in 0..(n - r)
      BY Zenon, <1>2, <1>8
    <3>2. \A x \in 0..(n - r) : x \in Nat /\ x <= n
      BY <1>2
    <3>. QED
      BY Zenon, <3>1, <3>2
  <2>2. SubSeq(v, old(i) + 1, old(i - 1)) = SubSeq(w, old(i) + 1, old(i - 1))
    BY <1>1, <2>1, AppendedPart DEF v
  <2>. QED
    BY Zenon, <1>1, <1>4, <1>7, <1>8, <1>10, <2>2
<1>11. ~mis => Len(g[0]) <= RotateSize
  BY <1>2, <1>3, <1>6
<1>. QED
  BY Zenon, <1>4, <1>5, <1>9, <1>10, <1>11 DEF Filed, g, v, new

\* A part of a sequence is empty where it ends before it begins, and only there.
LEMMA EmptyPart ==
  ASSUME NEW S, NEW w \in Seq(S), NEW a \in Nat, NEW b \in Nat, b <= Len(w)
  PROVE  SubSeq(w, a + 1, b) = <<>> <=> b <= a
<1>. DEFINE s == SubSeq(w, a + 1, b)
<1>1. s \in Seq(S) /\ Len(s) = IF a + 1 <= b THEN b - a ELSE 0
  OBVIOUS
<1>. HIDE DEF s
<1>2. s = <<>> <=> Len(s) = 0
  BY <1>1, EmptySeq
<1>3. s = <<>> <=> b <= a
  BY <1>1, <1>2
<1>. QED
  BY Zenon, <1>3 DEF s

\* The names a rotation moves, and what is under each after it.
LEMMA Rotated ==
  ASSUME NEW failing \in SUBSET (0..MaxBackups - 1), files \in [0..MaxBackups -> Seq(Entries)],
         files[0] # <<>>
  PROVE  /\ Rotate(failing) \in [0..MaxBackups -> Seq(Entries)]
         /\ Rotate(failing)[0] = IF 0 \in failing THEN files[0] ELSE <<>>
         /\ failing = {} => \A i \in 1..MaxBackups :
                              /\ files[i - 1] # <<>> => Rotate(failing)[i] = files[i - 1]
                              /\ files[i - 1] = <<>> => Rotate(failing)[i] \in {files[i], <<>>}
<1>. DEFINE Moves(i) == i \in 0..MaxBackups - 1 /\ i \notin failing /\ files[i] # <<>>
            g == [i \in 0..MaxBackups |-> IF Moves(i - 1) THEN files[i - 1]
                                           ELSE IF Moves(i) THEN <<>> ELSE files[i]]
<1>1. Rotate(failing) = g
  BY Zenon DEF Rotate
<1>2. MaxBackups \in Nat \ {0}
  BY SinksAssumption
<1>3. ~Moves(0 - 1) /\ (Moves(0) <=> 0 \notin failing) /\ 0 \in 0..MaxBackups
  BY <1>2
<1>4. \A i \in 1..MaxBackups : i \in 0..MaxBackups /\ i - 1 \in 0..MaxBackups - 1
  BY <1>2
<1>5. \A i \in 0..MaxBackups - 1 : i \in 0..MaxBackups
  BY <1>2
<1>6. <<>> \in Seq(Entries)
  OBVIOUS
<1>7. ASSUME NEW i \in 0..MaxBackups
      PROVE  (IF Moves(i - 1) THEN files[i - 1] ELSE IF Moves(i) THEN <<>> ELSE files[i]) \in Seq(Entries)
  <2>1. Moves(i - 1) => files[i - 1] \in Seq(Entries)
    BY Zenon, <1>5
  <2>. QED
    BY Zenon, <1>6, <2>1
<1>8. g \in [0..MaxBackups -> Seq(Entries)]
  BY Zenon, <1>7
<1>9. g[0] = IF 0 \in failing THEN files[0] ELSE <<>>
  BY Zenon, <1>3
<1>10. ASSUME failing = {}, NEW i \in 1..MaxBackups
       PROVE  /\ files[i - 1] # <<>> => g[i] = files[i - 1]
              /\ files[i - 1] = <<>> => g[i] \in {files[i], <<>>}
  <2>1. g[i] = IF Moves(i - 1) THEN files[i - 1] ELSE IF Moves(i) THEN <<>> ELSE files[i]
    BY Zenon, <1>4
  <2>2. Moves(i - 1) <=> files[i - 1] # <<>>
    BY Zenon, <1>4, <1>10
  <2>. HIDE DEF g, Moves
  <2>3. CASE files[i - 1] # <<>>
    BY Zenon, <2>1, <2>2, <2>3
  <2>4. CASE files[i - 1] = <<>>
    BY Zenon, <2>1, <2>2, <2>4
  <2>. QED
    BY Zenon, <2>3, <2>4
<1>. HIDE DEF g
<1>. QED
  BY Zenon, <1>1, <1>8, <1>9, <1>10

\* A rotation of a full log file.
LEMMA FiledRotate ==
  ASSUME Filed(files, written, misnamed), Len(files[0]) >= RotateSize,
         NEW failing \in SUBSET (0..MaxBackups - 1),
         NEW mis, mis <=> (misnamed \/ failing # {})
  PROVE  /\ Filed(Rotate(failing), written, mis)
         /\ ~mis => Len(Rotate(failing)[0]) < RotateSize
<1>. DEFINE w == written
            n == Len(w)
            r == Len(files[0])
            g == Rotate(failing)
            old(i) == Older(n, r, i)
            new(i) == Older(n, Len(g[0]), i)
<1>1. /\ files \in [0..MaxBackups -> Seq(Entries)] /\ w \in Seq(Entries)
      /\ ~misnamed => r <= RotateSize
      /\ files[0] = SubSeq(w, old(0) + 1, n)
      /\ ~misnamed => \A i \in 1..MaxBackups : files[i] = SubSeq(w, old(i) + 1, old(i - 1))
  BY Zenon DEF Filed
<1>2. n \in Nat /\ r \in 0..n /\ files[0] \in Seq(Entries) /\ \A i \in Nat : old(i) \in 0..(n - r)
  BY Zenon, FiledSizes
<1>3. MaxBackups \in Nat \ {0} /\ RotateSize \in Nat \ {0}
  BY SinksAssumption
<1>4. files[0] # <<>>
  <2>1. r # 0
    BY <1>2, <1>3
  <2>. QED
    BY <2>1
<1>5. /\ g \in [0..MaxBackups -> Seq(Entries)]
      /\ g[0] = IF 0 \in failing THEN files[0] ELSE <<>>
      /\ failing = {} => \A i \in 1..MaxBackups :
                           /\ files[i - 1] # <<>> => g[i] = files[i - 1]
                           /\ files[i - 1] = <<>> => g[i] \in {files[i], <<>>}
  BY Zenon, <1>1, <1>4, Rotated
<1>. HIDE DEF g
<1>6. g[0] = SubSeq(w, new(0) + 1, n)
  <2>1. CASE 0 \in failing
    <3>1. g[0] = files[0]
      BY Zenon, <1>5, <2>1
    <3>. QED
      BY Zenon, <1>1, <3>1
  <2>2. CASE 0 \notin failing
    <3>1. g[0] = <<>>
      BY Zenon, <1>5, <2>2
    <3>2. Len(g[0]) = 0
      BY <3>1
    <3>3. Older(n, 0, 0) = n
      <4>1. 0 \in Nat /\ 0 \in 0..n /\ n - 0 = n
        BY <1>2
      <4>. QED
        BY Zenon, <1>2, <4>1, OlderFacts
    <3>4. SubSeq(w, n + 1, n) = <<>>
      <4>1. n <= n /\ n <= Len(w)
        BY <1>2
      <4>. QED
        BY Zenon, <1>1, <1>2, <4>1, EmptyPart
    <3>. QED
      BY Zenon, <3>1, <3>2, <3>3, <3>4
  <2>. QED
    BY <2>1, <2>2
<1>7. ASSUME ~mis
      PROVE  /\ Len(g[0]) < RotateSize /\ Len(g[0]) <= RotateSize
             /\ \A i \in 1..MaxBackups : g[i] = SubSeq(w, new(i) + 1, new(i - 1))
  <2>1. ~misnamed /\ failing = {} /\ 0 \notin failing
    BY Zenon, <1>7
  <2>2. r = RotateSize
    BY <1>1, <1>2, <1>3, <2>1
  <2>3. Len(g[0]) = 0
    <3>1. g[0] = <<>>
      BY Zenon, <1>5, <2>1
    <3>. QED
      BY <3>1
  <2>4. ASSUME NEW i \in 1..MaxBackups PROVE g[i] = SubSeq(w, new(i) + 1, new(i - 1))
    <3>. DEFINE j == i - 1
    <3>1. j \in Nat /\ i = j + 1 /\ i \in Nat /\ 0 \in Nat /\ 0 \in 0..n /\ r <= n
      BY <1>2, <1>3
    <3>2. new(i) = old(j)
      <4>1. Older(n, 0, j + 1) = Older(n, RotateSize, j)
        <5>1. RotateSize <= n
          BY Zenon, <2>2, <3>1
        <5>. QED
          BY Zenon, <1>2, <3>1, <5>1, OlderFacts
      <4>. QED
        BY Zenon, <2>2, <2>3, <3>1, <4>1
    <3>3. files[j] = SubSeq(w, new(i) + 1, new(j))
      <4>1. CASE j = 0
        <5>1. new(0) = n
          <6>1. n - 0 = n
            BY <1>2
          <6>2. Older(n, 0, 0) = n - 0
            BY Zenon, <1>2, <3>1, OlderFacts
          <6>. QED
            BY Zenon, <2>3, <6>1, <6>2
        <5>. QED
          BY Zenon, <1>1, <3>2, <4>1, <5>1
      <4>2. CASE j # 0
        <5>. DEFINE k == j - 1
        <5>1. k \in Nat /\ j = k + 1 /\ j \in 1..MaxBackups /\ r <= n
          BY <1>2, <1>3, <3>1, <4>2
        <5>2. RotateSize <= n
          BY Zenon, <2>2, <5>1
        <5>3. Older(n, 0, k + 1) = Older(n, RotateSize, k)
          BY Zenon, <1>2, <3>1, <5>1, <5>2, OlderFacts
        <5>4. new(j) = old(k)
          BY Zenon, <2>2, <2>3, <5>1, <5>3
        <5>. QED
          BY Zenon, <1>1, <2>1, <3>2, <5>1, <5>4
      <4>. QED
        BY Zenon, <4>1, <4>2
    <3>4. files[j] = <<>> => files[i] = <<>>
      <4>. SUFFICES ASSUME files[j] = <<>> PROVE files[i] = <<>>
        OBVIOUS
      <4>. DEFINE k == j - 1
      <4>1. j # 0
        BY Zenon, <1>4
      <4>2. k \in Nat /\ j = k + 1 /\ j \in 1..MaxBackups
        BY <1>3, <3>1, <4>1
      <4>3. files[j] = SubSeq(w, old(j) + 1, old(k)) /\ files[i] = SubSeq(w, old(i) + 1, old(j))
        BY Zenon, <1>1, <2>1, <4>2
      <4>4. /\ old(j) <= old(k) /\ (old(j) = old(k) => old(k) = 0)
            /\ old(i) <= old(j)
        <5>1. /\ Older(n, r, k + 1) <= Older(n, r, k)
              /\ Older(n, r, k + 1) = Older(n, r, k) => Older(n, r, k) = 0
          BY Zenon, <1>2, <4>2, OlderFacts
        <5>2. Older(n, r, j + 1) <= Older(n, r, j)
          BY Zenon, <1>2, <3>1, OlderFacts
        <5>. QED
          BY Zenon, <3>1, <4>2, <5>1, <5>2
      <4>5. old(i) \in 0..(n - r) /\ old(j) \in 0..(n - r) /\ old(k) \in 0..(n - r)
        BY Zenon, <1>2, <3>1, <4>2
      <4>6. ASSUME NEW a \in 0..(n - r) PROVE a \in Nat /\ a <= Len(w)
        <5>1. n = Len(w)
          OBVIOUS
        <5>. HIDE DEF n, r
        <5>. QED
          BY <1>2, <4>6, <5>1
      <4>7. old(k) <= old(j)
        BY Zenon, <1>1, <4>3, <4>5, <4>6, EmptyPart
      <4>. HIDE DEF old, k, j, n, r
      <4>8. old(j) <= old(i)
        BY <1>2, <4>4, <4>5, <4>7
      <4>. QED
        BY Zenon, <1>1, <4>3, <4>5, <4>6, <4>8, EmptyPart
    <3>. QED
      BY Zenon, <1>5, <2>1, <3>3, <3>4
  <2>5. 0 < RotateSize /\ 0 <= RotateSize
    BY <1>3
  <2>. QED
    BY Zenon, <2>3, <2>4, <2>5
<1>. HIDE DEF new
<1>8. Filed(g, w, mis)
  BY Zenon, <1>1, <1>5, <1>6, <1>7 DEF Filed, new
<1>. QED
  BY Zenon, <1>7, <1>8 DEF g

\* One write of one entry to the file, which needs a rotation if it is full.
LEMMA FileStep ==
  ASSUME Types, FileInv, NEW a \in Actors, FileRefused(a) \/ FileWrite(a)
  PROVE  FileInv'
<1>. DEFINE e == Head(buffer)
<1>1. e \in Entries
  <2>1. buffer # <<>>
    BY DEF FileRefused, FileWrite, Writing, Flushing
  <2>. QED
    BY <2>1, HeadOfBuffer
<1>2. Filed(files, written, misnamed) /\ Len(files[0]) \in Nat /\ RotateSize \in Nat
  <2>1. Filed(files, written, misnamed)
    BY Zenon DEF FileInv
  <2>2. Len(files[0]) \in 0..Len(written) /\ Len(written) \in Nat
    BY Zenon, <2>1, FiledSizes
  <2>. QED
    BY <2>1, <2>2, SinksAssumption
<1>3. CASE FileRefused(a)
  <2>1. CASE UNCHANGED <<files, misnamed>>
    <3>1. UNCHANGED written
      BY Zenon, <1>3 DEF FileRefused
    <3>. QED
      BY Zenon, <1>2, <2>1, <3>1 DEF FileInv
  <2>2. ASSUME Len(files[0]) >= RotateSize, NEW failing \in SUBSET (0..MaxBackups - 1),
               files' = Rotate(failing), misnamed' = (misnamed \/ failing # {})
        PROVE  FileInv'
    <3>1. UNCHANGED written
      BY Zenon, <1>3 DEF FileRefused
    <3>2. misnamed' <=> (misnamed \/ failing # {})
      BY Zenon, <2>2
    <3>3. Filed(files', written, misnamed')
      BY Zenon, <1>2, <2>2, <3>2, FiledRotate
    <3>. QED
      BY Zenon, <3>1, <3>3 DEF FileInv
  <2>. QED
    BY Zenon, <1>3, <2>1, <2>2 DEF FileRefused
<1>4. CASE FileWrite(a)
  <2>. DEFINE Append_(f) == IF e \in Unencodable THEN f ELSE [f EXCEPT ![0] = Append(@, e)]
  <2>1. ASSUME NEW f, NEW mis, Filed(f, written, mis), ~mis => Len(f[0]) < RotateSize,
               files' = Append_(f), misnamed' <=> mis
        PROVE  FileInv'
    <3>1. CASE e \in Unencodable
      <4>1. UNCHANGED written /\ files' = f
        BY Zenon, <1>4, <2>1, <3>1 DEF FileWrite
      <4>2. Filed(f, written, misnamed')
        BY Zenon, <2>1 DEF Filed
      <4>. QED
        BY Zenon, <4>1, <4>2 DEF FileInv
    <3>2. CASE e \notin Unencodable
      <4>1. written' = Append(written, e) /\ files' = [f EXCEPT ![0] = Append(@, e)]
        BY Zenon, <1>4, <2>1, <3>2 DEF FileWrite
      <4>2. Filed([f EXCEPT ![0] = Append(@, e)], Append(written, e), mis)
        BY Zenon, <1>1, <2>1, FiledAppend
      <4>3. Filed(files', written', mis)
        BY Zenon, <4>1, <4>2
      <4>4. Filed(files', written', misnamed')
        BY Zenon, <2>1, <4>3 DEF Filed
      <4>. QED
        BY Zenon, <4>4 DEF FileInv
    <3>. QED
      BY Zenon, <3>1, <3>2
  <2>2. CASE Len(files[0]) < RotateSize
    <3>1. files' = Append_(files) /\ misnamed' = misnamed
      BY Zenon, <1>4, <2>2 DEF FileWrite
    <3>2. Filed(files, written, misnamed') /\ (~misnamed' => Len(files[0]) < RotateSize)
      BY Zenon, <1>2, <2>2, <3>1 DEF Filed
    <3>3. files' = Append_(files)
      BY Zenon, <3>1
    <3>. HIDE DEF Append_
    <3>. QED
      BY <2>1, <3>2, <3>3
  <2>3. CASE ~(Len(files[0]) < RotateSize)
    <3>1. Len(files[0]) >= RotateSize
      BY <1>2, <2>3
    <3>2. PICK failing \in SUBSET (0..MaxBackups - 1) :
            files' = Append_(Rotate(failing)) /\ misnamed' = (misnamed \/ failing # {})
      BY Zenon, <1>4, <2>3 DEF FileWrite
    <3>3. misnamed' <=> (misnamed \/ failing # {})
      BY Zenon, <3>2
    <3>4. Filed(Rotate(failing), written, misnamed') /\ (~misnamed' => Len(Rotate(failing)[0]) < RotateSize)
      BY Zenon, <1>2, <3>1, <3>3, FiledRotate
    <3>. HIDE DEF Append_
    <3>. QED
      BY Zenon, <2>1, <3>2, <3>4
  <2>. QED
    BY Zenon, <2>2, <2>3
<1>. QED
  BY Zenon, <1>3, <1>4

LEMMA NextFiles == SinksInv /\ FileInv /\ [Next]_vars => FileInv'
<1>. SUFFICES ASSUME Types, FileInv, [Next]_vars PROVE FileInv'
  BY Zenon DEF SinksInv
<1>1. CASE UNCHANGED <<files, written, misnamed>>
  BY Zenon, <1>1 DEF FileInv
<1>2. ASSUME NEW w \in Writers, Check(w) \/ Send(w) \/ WriteBuffered(w)
      PROVE  UNCHANGED <<files, written, misnamed>>
  BY <1>2 DEF Check, Send, WriteBuffered
<1>3. ASSUME NEW w \in Workers, WorkerStep(w) PROVE UNCHANGED <<files, written, misnamed>>
  BY <1>3 DEF WorkerStep, Take, SeeStop, Exit
<1>4. ASSUME NEW a \in Writers \cup Workers, Put(a) PROVE UNCHANGED <<files, written, misnamed>>
  BY <1>4 DEF Put
<1>5. ASSUME NEW a \in Actors, Flush(a), ~FileRefused(a), ~FileWrite(a)
      PROVE  UNCHANGED <<files, written, misnamed>>
  BY <1>5 DEF Flush, WriteOff, AlertPost, LokiWrite, FlushEnd
<1>6. CASE Tick \/ FlushTick \/ FlusherExit \/ CloseFlag \/ CloseStep \/ Toggle \/ UNCHANGED vars
  <2>1. UNCHANGED <<files, written, misnamed>>
    BY <1>6 DEF Tick, FlushTick, FlusherExit, CloseFlag, CloseStep, CloseStop, BufferStop, FinalFlush, CloseInner,
                Toggle, vars
  <2>. QED
    BY Zenon, <1>1, <2>1
<1>. QED
  BY Zenon, <1>1, <1>2, <1>3, <1>4, <1>5, <1>6, FileStep DEF Next

\* The log file and its backups are what was written, in order, for every file size, every
\* number of backups and every failure of a rename.
THEOREM FilesOrdered == Spec => []FilesInOrder
<1>1. Init => FileInv
  <2>. SUFFICES ASSUME Init PROVE FileInv
    OBVIOUS
  <2>. DEFINE none == <<>>
  <2>1. files = [i \in 0..MaxBackups |-> none] /\ written = none
    BY Zenon DEF Init
  <2>2. MaxBackups \in Nat /\ RotateSize \in Nat
    BY SinksAssumption
  <2>3. none \in Seq(Entries) /\ Len(none) = 0
    OBVIOUS
  <2>. HIDE DEF none
  <2>4. /\ files \in [0..MaxBackups -> Seq(Entries)] /\ files[0] = none
        /\ \A i \in 1..MaxBackups : files[i] = none /\ i \in Nat /\ i - 1 \in Nat
    BY <2>1, <2>2, <2>3
  <2>5. \A i \in Nat : Older(0, 0, i) = 0
    <3>1. 0 \in 0..0 /\ 0 \in Nat /\ \A x : x \in 0..(0 - 0) => x = 0
      OBVIOUS
    <3>2. \A i \in Nat : Older(0, 0, i) \in 0..(0 - 0)
      BY Zenon, <3>1, OlderFacts
    <3>. QED
      BY Zenon, <3>1, <3>2
  <2>6. SubSeq(none, 0 + 1, 0) = none
    BY <2>3, EmptyPart DEF none
  <2>7. Len(files[0]) <= RotateSize
    BY <2>2, <2>3, <2>4
  <2>8. 0 \in Nat
    OBVIOUS
  <2>. QED
    BY Zenon, <2>1, <2>3, <2>4, <2>5, <2>6, <2>7, <2>8 DEF FileInv, Filed
<1>2. SinksInv /\ FileInv /\ [Next]_vars => FileInv'
  BY NextFiles
<1>3. FileInv => FilesInOrder
  BY Zenon DEF FileInv, Filed, FilesInOrder
<1>. QED
  BY <1>1, <1>2, <1>3, ChainCorrect, PTL DEF Spec

----------------------------------------------------------------------------
(* The promise.                                                            *)

HeldSet   == {e \in 1..next : Held(e)}
StoredSet == {e \in 1..next : stored[e] > 0}
Lost      == refused \cup off \cup trimmed

\* The invariant in terms of SinkDelivery.
LEMMA HeldSetIs ==
  /\ Types => HeldSet = Places \ {0} /\ Places \subseteq 1..next \cup {0}
  /\ Types' => HeldSet' = Places' \ {0}
  /\ Types /\ StoredInv => HeldSet \cap StoredSet \subseteq unclear
<1>1. (\A e : Held(e) <=> e \in Places) /\ (\A e : Held(e)' <=> e \in Places')
  BY DEF Held, Places, Waiting, Buffer, Kept, Hands
<1>2. ASSUME Types PROVE Places \subseteq 1..next \cup {0}
  <2>1. Waiting \subseteq 1..next /\ Buffer \subseteq 1..next /\ Kept \subseteq 1..next
    BY <1>2, SetsInRange
  <2>2. \A a \in Actors : hand[a] \in 1..next \cup {0}
    BY <1>2 DEF Types, Labels, Actors
  <2>3. Hands \subseteq 1..next \cup {0}
    BY <2>2 DEF Hands
  <2>. QED
    BY <2>1, <2>3 DEF Places
<1>3. ASSUME Types' PROVE Places' \subseteq 1..next' \cup {0}
  <2>1. queue' \in Seq(1..next') /\ buffer' \in Seq(1..next') /\ kept' \in Seq(1..next')
    BY <1>3 DEF Types
  <2>2. Waiting' \subseteq 1..next' /\ Buffer' \subseteq 1..next' /\ Kept' \subseteq 1..next'
    BY <2>1, Members DEF Waiting, Buffer, Kept
  <2>3. \A a \in Actors : hand'[a] \in 1..next' \cup {0}
    BY <1>3 DEF Types, Labels, Actors
  <2>4. Hands' \subseteq 1..next' \cup {0}
    BY <2>3 DEF Hands
  <2>. QED
    BY <2>2, <2>4 DEF Places
<1>4. (\A e \in 1..next : e # 0) /\ (\A e \in 1..next' : e # 0)
  OBVIOUS
<1>5. Types => HeldSet = Places \ {0}
  <2>. HIDE DEF Places
  <2>. QED
    BY <1>1, <1>2, <1>4 DEF HeldSet
<1>6. Types' => HeldSet' = Places' \ {0}
  <2>. HIDE DEF Places
  <2>. QED
    BY <1>1, <1>3, <1>4 DEF HeldSet
<1>7. ASSUME Types, StoredInv, NEW e \in HeldSet \cap StoredSet PROVE e \in unclear
  <2>1. e \in 1..next /\ Held(e) /\ stored[e] > 0 /\ stored[e] \in Nat
    <3>1. e \in Entries
      BY <1>7, SinksAssumption DEF Types, HeldSet, Entries
    <3>. QED
      BY <1>7, <3>1 DEF Types, HeldSet, StoredSet
  <2>2. stored[e] > 1 \/ stored[e] = 1
    BY <2>1
  <2>. QED
    BY <1>7, <2>1, <2>2 DEF StoredInv, DuplicatesExplained
<1>. QED
  BY <1>2, <1>5, <1>6, <1>7

\* Steps that store nothing: they give up what leaves the chain.
LEMMA GivesUp ==
  ASSUME Types, Types', UNCHANGED <<next, stored, unclear>>,
         NEW gone, gone \subseteq Places \ {0}, Places' \ {0} = (Places \ {0}) \ gone, Lost' = Lost \cup gone
  PROVE  Promise!Next
<1>1. gone \in SUBSET HeldSet /\ HeldSet' = HeldSet \ gone
  BY HeldSetIs
<1>2. UNCHANGED <<StoredSet, 1..next, unclear>>
  BY Zenon DEF StoredSet
<1>3. Promise!GiveUp(gone)
  BY Zenon, <1>1, <1>2 DEF Promise!GiveUp, HeldSet, StoredSet, Lost
<1>. QED
  BY Zenon, <1>1, <1>3 DEF Promise!Next, HeldSet

\* Steps that move entries within the chain.
LEMMA Stutters ==
  ASSUME Types, Types', UNCHANGED <<next, stored, unclear, refused, off, trimmed>>,
         Places' \ {0} = Places \ {0}
  PROVE  UNCHANGED Promise!vars
<1>1. HeldSet' = HeldSet
  BY Zenon, HeldSetIs
<1>2. UNCHANGED <<StoredSet, 1..next, unclear, Lost>>
  BY Zenon DEF StoredSet, Lost
<1>. QED
  BY Zenon, <1>1, <1>2 DEF Promise!vars, HeldSet, StoredSet, Lost

\* A new entry is taken; a closed async sink gives it up at once.
LEMMA NewEntryTaken ==
  ASSUME Types, Types', OnceInv, StoredInv, NEW w \in Writers, Check(w) \/ WriteBuffered(w)
  PROVE  Promise!Next
<1>1. /\ pc[w] = "idle" /\ next < MaxEntries /\ next' = next + 1
      /\ UNCHANGED <<queue, buffer, kept, stored, unclear, off, trimmed>>
      /\ \/ refused' = refused \cup {next'} /\ hand' = hand
         \/ refused' = refused /\ hand' = [hand EXCEPT ![w] = next']
  BY DEF Check, WriteBuffered
<1>2. Waiting' = Waiting /\ Buffer' = Buffer /\ Kept' = Kept
  BY <1>1 DEF Waiting, Buffer, Kept
<1>3. /\ hand[w] = 0 /\ w \in Actors /\ next' # 0 /\ next' \notin 1..next /\ next' \in Entries
      /\ 1..next' = 1..next \cup {next'} /\ stored[next'] = 0
  <2>1. w \in Writers \cup Workers /\ w \in Actors
    BY ActorsApart
  <2>2. hand[w] \in IF pc[w] \in {"send", "lock"} THEN 1..next ELSE {0}
    BY <2>1 DEF Types, Labels
  <2>3. next \in Nat /\ MaxEntries \in Nat
    BY SinksAssumption DEF Types
  <2>4. next' \in Entries /\ next' > next
    BY <1>1, <2>3 DEF Entries
  <2>5. 1..next' = 1..next \cup {next'}
    BY <1>1, <2>3
  <2>6. stored[next'] = 0
    BY <2>4 DEF StoredInv
  <2>. QED
    BY <1>1, <2>1, <2>2, <2>3, <2>4, <2>5, <2>6
<1>4. HeldSet = Places \ {0} /\ HeldSet' = Places' \ {0} /\ Places \subseteq 1..next \cup {0}
  BY Zenon, HeldSetIs
<1>5. StoredSet' = StoredSet
  <2>1. \A e : e \in StoredSet' <=> e \in StoredSet
    <3>1. ~(stored[next'] > 0)
      BY <1>3
    <3>. QED
      BY Zenon, <1>1, <1>3, <3>1 DEF StoredSet
  <2>. QED
    BY <2>1
<1>6. CASE refused' = refused \cup {next'} /\ hand' = hand
  <2>1. Hands' = Hands
    BY Zenon, <1>6 DEF Hands
  <2>2. Places' = Places
    BY Zenon, <1>2, <2>1 DEF Places
  <2>3. {next'} \in SUBSET (HeldSet \cup {next'}) /\ HeldSet' = (HeldSet \cup {next'}) \ {next'}
    BY <1>3, <1>4, <2>2
  <2>4. Lost' = Lost \cup {next'}
    BY <1>1, <1>6 DEF Lost
  <2>5. Promise!Take(next', {next'})
    BY Zenon, <1>1, <1>3, <1>5, <2>3, <2>4 DEF Promise!Take, HeldSet, StoredSet, Lost
  <2>. QED
    BY Zenon, <1>3, <2>3, <2>5 DEF Promise!Next, HeldSet
<1>7. CASE refused' = refused /\ hand' = [hand EXCEPT ![w] = next']
  <2>1. Hands' \subseteq Hands \cup {next'} /\ Hands \subseteq Hands' \cup {0} /\ next' \in Hands'
    BY <1>3, <1>7, HandsAfter
  <2>2. Places' \ {0} = (Places \ {0}) \cup {next'}
    <3>. HIDE DEF Waiting, Buffer, Kept, Hands
    <3>. QED
      BY <1>2, <1>3, <2>1 DEF Places
  <2>3. {} \in SUBSET (HeldSet \cup {next'}) /\ HeldSet' = (HeldSet \cup {next'}) \ {}
    BY <1>3, <1>4, <2>2
  <2>4. Lost' = Lost \cup {}
    BY <1>1, <1>7 DEF Lost
  <2>5. Promise!Take(next', {})
    BY Zenon, <1>1, <1>3, <1>5, <2>3, <2>4 DEF Promise!Take, HeldSet, StoredSet, Lost
  <2>. QED
    BY Zenon, <1>3, <2>3, <2>5 DEF Promise!Next, HeldSet
<1>. QED
  BY <1>1, <1>6, <1>7

\* Send gives up an entry that finds the queue full.
LEMMA SendKeeps ==
  ASSUME Types, Types', OnceInv, NEW w \in Writers, Send(w)
  PROVE  Promise!Next \/ UNCHANGED Promise!vars
<1>. DEFINE e == hand[w]
<1>1. pc[w] = "send" /\ e \in 1..next /\ e # 0 /\ w \in Actors
  BY ActorsApart DEF Send, Types, Labels
<1>2. Buffer' = Buffer /\ Kept' = Kept /\ UNCHANGED <<next, stored, unclear, off, trimmed>>
  BY DEF Send, Buffer, Kept
<1>3. hand' = [hand EXCEPT ![w] = 0]
  BY DEF Send
<1>4. Hands' \subseteq Hands \cup {0} /\ Hands \subseteq Hands' \cup {e} /\ e \notin Hands'
  BY <1>1, <1>3, HandsAfter
<1>5. e \in Hands /\ Hands \cap (Waiting \cup Buffer \cup Kept) = {}
  BY <1>1, InHands DEF OnceInv, Hands
<1>6. \/ queue' = queue /\ refused' = refused \cup {e}
      \/ queue' = Append(queue, e) /\ refused' = refused
  BY DEF Send
<1>7. queue \in Seq(1..next)
  BY DEF Types
<1>. HIDE DEF e
<1>8. CASE queue' = queue /\ refused' = refused \cup {e}
  <2>1. Waiting' = Waiting
    BY <1>8 DEF Waiting
  <2>2. {e} \subseteq Places \ {0}
    BY <1>1, <1>5 DEF Places
  <2>3. \A x : x # 0 => (x \in Places' <=> x \in Places /\ x # e)
    BY <1>2, <1>4, <1>5, <2>1 DEF Places
  <2>4. Places' \ {0} = (Places \ {0}) \ {e}
    <3>. HIDE DEF Places
    <3>. QED
      BY <2>3
  <2>5. Lost' = Lost \cup {e}
    BY <1>2, <1>8 DEF Lost
  <2>. QED
    BY Zenon, <1>2, <2>2, <2>4, <2>5, GivesUp
<1>9. CASE queue' = Append(queue, e) /\ refused' = refused
  <2>1. Waiting' = Waiting \cup {e}
    BY <1>1, <1>7, <1>9, OneMore DEF Waiting
  <2>2. Places' \ {0} = Places \ {0}
    BY <1>1, <1>2, <1>4, <1>5, <2>1 DEF Places
  <2>. QED
    BY Zenon, <1>2, <1>9, <2>2, Stutters
<1>. QED
  BY <1>6, <1>8, <1>9

\* Take and Put move an entry from the queue to a hand and from there to the buffer.
LEMMA TakeKeeps ==
  ASSUME Types, Types', NEW w \in Workers, Take(w), OnceInv
  PROVE  UNCHANGED Promise!vars
<1>. DEFINE e == Head(queue)
<1>1. hand[w] = 0 /\ w \in Actors /\ queue # <<>>
  BY ActorsApart DEF Take, Types, Labels
<1>2. /\ Buffer' = Buffer /\ Kept' = Kept
      /\ UNCHANGED <<next, stored, unclear, off, refused, trimmed>>
  BY DEF Take, Buffer, Kept
<1>3. hand' = [hand EXCEPT ![w] = e]
  BY DEF Take
<1>4. Waiting = {e} \cup Waiting'
  BY <1>1, TailOf DEF Take, Types, Waiting
<1>. HIDE DEF e
<1>5. Hands' \subseteq Hands \cup {e} /\ Hands \subseteq Hands' \cup {0} /\ e \in Hands'
  BY <1>1, <1>3, HandsAfter
<1>6. Places' \ {0} = Places \ {0}
  BY <1>2, <1>4, <1>5 DEF Places
<1>. QED
  BY Zenon, <1>2, <1>6, Stutters

LEMMA PutKeeps ==
  ASSUME Types, Types', OnceInv, NEW a \in Writers \cup Workers, Put(a)
  PROVE  UNCHANGED Promise!vars
<1>. DEFINE e == hand[a]
<1>1. e \in 1..next /\ e # 0 /\ a \in Actors
  <2>1. pc[a] = "lock" /\ a \in Actors
    BY ActorsApart DEF Put
  <2>2. hand[a] \in IF pc[a] \in {"send", "lock"} THEN 1..next ELSE {0}
    BY DEF Types, Labels
  <2>. QED
    BY <2>1, <2>2
<1>2. /\ Waiting' = Waiting /\ Kept' = Kept
      /\ UNCHANGED <<next, stored, unclear, off, refused, trimmed>>
  BY DEF Put, Waiting, Kept
<1>3. hand' = [hand EXCEPT ![a] = 0] /\ buffer' = Append(buffer, e)
  BY DEF Put
<1>4. Hands' \subseteq Hands \cup {0} /\ Hands \subseteq Hands' \cup {e} /\ e \in Hands
  BY <1>1, <1>3, HandsAfter DEF Hands
<1>5. buffer \in Seq(1..next)
  BY DEF Types
<1>. HIDE DEF e
<1>6. Buffer' = Buffer \cup {e}
  BY <1>1, <1>3, <1>5, OneMore DEF Buffer
<1>7. Places' \ {0} = Places \ {0}
  BY <1>1, <1>2, <1>4, <1>6 DEF Places
<1>. QED
  BY Zenon, <1>2, <1>7, Stutters

\* What a write of the sink at the end comes to: stored, let go, not stored, or stored and
\* reported as failed.
LEMMA LeafOutcomes ==
  ASSUME NEW a \in Actors, WriteOff(a) \/ FileRefused(a) \/ FileWrite(a) \/ AlertPost(a) \/ LokiWrite(a)
  PROVE  LET e     == Head(buffer)
             More  == [stored EXCEPT ![e] = @ + 1]
             Stays == Written(e, TRUE) \/ UNCHANGED <<buffer, kept>>
         IN  \/ stored' = More /\ UNCHANGED <<unclear, off>> /\ Written(e, FALSE)
             \/ off' = off \cup {e} /\ UNCHANGED <<stored, unclear>> /\ Written(e, FALSE)
             \/ UNCHANGED <<stored, unclear, off>> /\ Stays
             \/ stored' = More /\ unclear' = unclear \cup {e} /\ UNCHANGED off /\ Stays
<1>. DEFINE e     == Head(buffer)
            More  == [stored EXCEPT ![e] = @ + 1]
<1>1. WriteOff(a) => off' = off \cup {e} /\ UNCHANGED <<stored, unclear>> /\ Written(e, FALSE)
  BY Zenon DEF WriteOff
<1>2. FileRefused(a) => UNCHANGED <<stored, unclear, off>> /\ Written(e, TRUE)
  BY Zenon DEF FileRefused, WritingUnchanged
<1>3. FileWrite(a) => \/ stored' = More /\ UNCHANGED <<unclear, off>> /\ Written(e, FALSE)
                      \/ UNCHANGED <<stored, unclear, off>> /\ Written(e, TRUE)
  <2>. SUFFICES ASSUME FileWrite(a)
                PROVE  \/ stored' = More /\ UNCHANGED <<unclear, off>> /\ Written(e, FALSE)
                       \/ UNCHANGED <<stored, unclear, off>> /\ Written(e, TRUE)
    OBVIOUS
  <2>1. UNCHANGED <<unclear, off>> /\ Written(e, e \in Unencodable)
        /\ IF e \in Unencodable THEN stored' = stored ELSE stored' = More
    BY DEF FileWrite, WritingUnchanged
  <2>2. CASE e \in Unencodable
    BY <2>1, <2>2 DEF Written
  <2>3. CASE e \notin Unencodable
    BY <2>1, <2>3 DEF Written
  <2>. QED
    BY <2>2, <2>3
<1>4. AlertPost(a) => \/ stored' = More /\ UNCHANGED <<unclear, off>> /\ Written(e, FALSE)
                      \/ /\ UNCHANGED <<stored, unclear, off>>
                         /\ Written(e, TRUE) \/ UNCHANGED <<buffer, kept>>
                      \/ /\ stored' = More /\ unclear' = unclear \cup {e} /\ UNCHANGED off
                         /\ Written(e, TRUE) \/ UNCHANGED <<buffer, kept>>
  <2>. SUFFICES ASSUME AlertPost(a)
                PROVE  \/ stored' = More /\ UNCHANGED <<unclear, off>> /\ Written(e, FALSE)
                       \/ /\ UNCHANGED <<stored, unclear, off>>
                          /\ Written(e, TRUE) \/ UNCHANGED <<buffer, kept>>
                       \/ /\ stored' = More /\ unclear' = unclear \cup {e} /\ UNCHANGED off
                          /\ Written(e, TRUE) \/ UNCHANGED <<buffer, kept>>
    OBVIOUS
  <2>1. off' = off
    BY DEF AlertPost, WritingUnchanged
  <2>2. PICK d \in Durations :
          LET p == Requested(d)
          IN  \/ stored' = More /\ Written(e, FALSE) /\ unclear' = unclear
              \/ Written(e, TRUE) /\ UNCHANGED <<stored, unclear>>
              \/ /\ \/ UNCHANGED <<stored, unclear>>
                    \/ stored' = More /\ unclear' = unclear \cup {e}
                 /\ \/ UNCHANGED <<buffer, kept, failed>>
                    \/ Written(e, TRUE)
    BY DEF AlertPost
  <2>. QED
    BY <2>1, <2>2
<1>5. LokiWrite(a) => \/ stored' = More /\ UNCHANGED <<unclear, off>> /\ Written(e, FALSE)
                      \/ stored' = More /\ unclear' = unclear \cup {e} /\ UNCHANGED off /\ Written(e, TRUE)
  <2>. SUFFICES ASSUME LokiWrite(a)
                PROVE  \/ stored' = More /\ UNCHANGED <<unclear, off>> /\ Written(e, FALSE)
                       \/ stored' = More /\ unclear' = unclear \cup {e} /\ UNCHANGED off /\ Written(e, TRUE)
    OBVIOUS
  <2>1. off' = off /\ stored' = More
    BY DEF LokiWrite, WritingUnchanged
  <2>2. PICK err \in BOOLEAN : Written(e, err) /\ unclear' = IF err THEN unclear \cup {e} ELSE unclear
    BY DEF LokiWrite
  <2>. HIDE DEF More
  <2>3. CASE err = TRUE
    BY <2>1, <2>2, <2>3
  <2>4. CASE err = FALSE
    BY <2>1, <2>2, <2>4
  <2>. QED
    BY <2>3, <2>4
<1>. HIDE DEF More, e
<1>6. \/ stored' = More /\ UNCHANGED <<unclear, off>> /\ Written(e, FALSE)
      \/ off' = off \cup {e} /\ UNCHANGED <<stored, unclear>> /\ Written(e, FALSE)
      \/ UNCHANGED <<stored, unclear, off>> /\ (Written(e, TRUE) \/ UNCHANGED <<buffer, kept>>)
      \/ /\ stored' = More /\ unclear' = unclear \cup {e} /\ UNCHANGED off
         /\ Written(e, TRUE) \/ UNCHANGED <<buffer, kept>>
  BY Zenon, <1>1, <1>2, <1>3, <1>4, <1>5
<1>. QED
  BY Zenon, <1>6 DEF More, e

\* Steps that store, knowing it or not.
LEMMA Stores ==
  ASSUME NEW es, es \in SUBSET HeldSet, Promise!Store(es) \/ Promise!StoreUnclear(es)
  PROVE  Promise!Next
<1>. es \in SUBSET {e \in 1..next : Held(e)}
  BY Zenon DEF HeldSet
<1>. QED
  BY Zenon DEF Promise!Next

\* The sink at the end stores an entry or gives it up, or it stays.
LEMMA LeafKeeps ==
  ASSUME Types, Types', OnceInv, StoredInv, NEW a \in Actors,
         WriteOff(a) \/ FileRefused(a) \/ FileWrite(a) \/ AlertPost(a) \/ LokiWrite(a)
  PROVE  Promise!Next \/ UNCHANGED Promise!vars
<1>. DEFINE e     == Head(buffer)
            More  == [stored EXCEPT ![e] = @ + 1]
            Stays == Written(e, TRUE) \/ UNCHANGED <<buffer, kept>>
<1>1. /\ buffer # <<>> /\ e \in 1..next /\ e \in Entries /\ e \in Buffer /\ e # 0
      /\ UNCHANGED <<queue, hand, next, refused, trimmed>>
  <2>1. AtTheEnd(a, e)
    BY LeafSteps
  <2>2. buffer # <<>> /\ buffer \in Seq(1..next) /\ UNCHANGED <<queue, hand, next, refused, trimmed>>
    BY <2>1 DEF AtTheEnd, Flushing, Types
  <2>. QED
    BY <2>2, HeadOfBuffer, TailOf DEF Buffer
<1>2. Waiting' = Waiting /\ Hands' = Hands
  BY Zenon, <1>1 DEF Waiting, Hands
<1>3. Stays => Places' = Places
  <2>1. Written(e, TRUE) => Buffer = Buffer' \cup {e} /\ Kept' = Kept \cup {e}
    BY <1>1, WrittenSets
  <2>2. CASE Written(e, TRUE)
    <3>. HIDE DEF e, Waiting, Hands, Buffer, Kept
    <3>. QED
      BY <1>2, <2>1, <2>2 DEF Places
  <2>3. CASE UNCHANGED <<buffer, kept>>
    BY Zenon, <1>2, <2>3 DEF Places, Buffer, Kept
  <2>. QED
    BY <2>2, <2>3
<1>4. Written(e, FALSE) => e \in Places \ {0} /\ Places' \ {0} = (Places \ {0}) \ {e}
  <2>1. Written(e, FALSE) => Buffer = Buffer' \cup {e} /\ e \notin Buffer' /\ Kept' = Kept
    BY <1>1, WrittenSets
  <2>2. e \notin Waiting /\ e \notin Kept /\ e \notin Hands
    <3>1. Hands \cap (Waiting \cup Buffer \cup Kept) = {}
      BY InHands DEF OnceInv
    <3>. HIDE DEF e
    <3>. QED
      BY <1>1, <3>1 DEF OnceInv
  <2>. HIDE DEF e, Waiting, Hands, Buffer, Kept
  <2>. QED
    BY <1>1, <1>2, <2>1, <2>2 DEF Places
<1>5. stored' = More => StoredSet' = StoredSet \cup {e}
  <2>. SUFFICES ASSUME stored' = More PROVE StoredSet' = StoredSet \cup {e}
    OBVIOUS
  <2>1. stored \in [Entries -> Nat] /\ 1..next \subseteq Entries
    <3>1. next \in 0..MaxEntries /\ stored \in [Entries -> Nat]
      BY Zenon DEF Types
    <3>2. 1..next \subseteq Entries
      BY <3>1, SinksAssumption DEF Entries
    <3>. QED
      BY Zenon, <3>1, <3>2
  <2>. HIDE DEF e
  <2>2. stored'[e] > 0 /\ \A x \in 1..next : x # e => stored'[x] = stored[x]
    BY <1>1, <2>1
  <2>3. \A x : x \in StoredSet' <=> x \in StoredSet \cup {e}
    <3>. HIDE DEF More
    <3>. QED
      BY <1>1, <2>2 DEF StoredSet
  <2>. QED
    BY <2>3
<1>6. /\ HeldSet = Places \ {0} /\ HeldSet' = Places' \ {0}
      /\ HeldSet \cap StoredSet \subseteq unclear /\ e \in HeldSet
  <2>1. e \in Places
    BY <1>1 DEF Places
  <2>. QED
    BY <1>1, <2>1, HeldSetIs
<1>7. PICK es : es = {e}
  OBVIOUS
<1>8. es \in SUBSET HeldSet /\ es \subseteq HeldSet /\ es \cap StoredSet \subseteq unclear
  BY <1>6, <1>7
<1>9. UNCHANGED <<1..next, refused, trimmed>>
  BY Zenon, <1>1
<1>. HIDE DEF e, More
<1>10. CASE stored' = More /\ UNCHANGED <<unclear, off>> /\ Written(e, FALSE)
  <2>1. HeldSet' = HeldSet \ es /\ StoredSet' = StoredSet \cup es /\ UNCHANGED Lost
    BY Zenon, <1>4, <1>5, <1>6, <1>9, <1>10, <1>7 DEF Lost
  <2>2. Promise!Store(es)
    BY Zenon, <1>8, <1>9, <1>10, <2>1 DEF Promise!Store, HeldSet, StoredSet, Lost
  <2>. QED
    BY Zenon, <1>8, <2>2, Stores
<1>11. CASE off' = off \cup {e} /\ UNCHANGED <<stored, unclear>> /\ Written(e, FALSE)
  <2>1. Lost' = Lost \cup {e}
    BY <1>9, <1>11 DEF Lost
  <2>2. {e} \subseteq Places \ {0}
    BY <1>4, <1>11
  <2>. QED
    BY Zenon, <1>1, <1>4, <1>11, <2>1, <2>2, GivesUp
<1>12. CASE UNCHANGED <<stored, unclear, off>> /\ Stays
  BY Zenon, <1>1, <1>3, <1>12, Stutters
<1>13. CASE stored' = More /\ unclear' = unclear \cup {e} /\ UNCHANGED off /\ Stays
  <2>1. HeldSet' = HeldSet /\ StoredSet' = StoredSet \cup es /\ unclear' = unclear \cup es /\ UNCHANGED Lost
    BY Zenon, <1>3, <1>5, <1>6, <1>9, <1>13, <1>7 DEF Lost
  <2>2. Promise!StoreUnclear(es)
    BY Zenon, <1>8, <1>9, <1>13, <2>1 DEF Promise!StoreUnclear, HeldSet, StoredSet, Lost
  <2>. QED
    BY Zenon, <1>8, <2>2, Stores
<1>14. \/ stored' = More /\ UNCHANGED <<unclear, off>> /\ Written(e, FALSE)
       \/ off' = off \cup {e} /\ UNCHANGED <<stored, unclear>> /\ Written(e, FALSE)
       \/ UNCHANGED <<stored, unclear, off>> /\ Stays
       \/ stored' = More /\ unclear' = unclear \cup {e} /\ UNCHANGED off /\ Stays
  BY Zenon, LeafOutcomes DEF More, e
<1>. QED
  BY Zenon, <1>10, <1>11, <1>12, <1>13, <1>14

\* The end of a flush gives up what it trims.
LEMMA FlushEndKeeps ==
  ASSUME Types, Types', OnceInv, NEW a \in Actors, FlushEnd(a)
  PROVE  Promise!Next
<1>. DEFINE gone == Kept \ Buffer'
<1>1. /\ Buffer = {} /\ Kept' = {} /\ Buffer' \subseteq Kept
      /\ trimmed' = trimmed \cup gone
  BY FlushEndSets
<1>2. /\ Waiting' = Waiting /\ Hands' = Hands
      /\ UNCHANGED <<next, stored, unclear, off, refused>>
  BY DEF FlushEnd, Waiting, Hands
<1>3. Kept \cap Waiting = {} /\ Kept \cap Hands = {}
  BY InHands DEF OnceInv
<1>4. 0 \notin Kept
  BY SetsInRange
<1>5. gone \subseteq Places \ {0} /\ Places' \ {0} = (Places \ {0}) \ gone
  BY <1>1, <1>2, <1>3, <1>4 DEF Places
<1>6. Lost' = Lost \cup gone
  BY <1>1, <1>2 DEF Lost
<1>. HIDE DEF gone
<1>. QED
  BY Zenon, <1>2, <1>5, <1>6, GivesUp

\* Every other step leaves the entries where they are.
LEMMA OthersStutter ==
  ASSUME Types, Types', UNCHANGED <<queue, buffer, kept, hand, next, stored, unclear, off, refused, trimmed>>
  PROVE  UNCHANGED Promise!vars
<1>1. Places' = Places
  BY Zenon DEF Places, Waiting, Buffer, Kept, Hands
<1>. QED
  BY Zenon, <1>1, Stutters

LEMMA NextKeeps == SinksInv /\ Types' /\ [Next]_vars => [Promise!Next]_(Promise!vars)
<1>. SUFFICES ASSUME Types, Types', OnceInv, StoredInv, [Next]_vars
              PROVE  Promise!Next \/ UNCHANGED Promise!vars
  BY Zenon DEF SinksInv
<1>1. ASSUME NEW w \in Writers, Check(w) \/ Send(w) \/ WriteBuffered(w)
      PROVE  Promise!Next \/ UNCHANGED Promise!vars
  BY Zenon, <1>1, NewEntryTaken, SendKeeps
<1>2. ASSUME NEW w \in Workers, SeeStop(w) \/ Exit(w)
      PROVE  Promise!Next \/ UNCHANGED Promise!vars
  <2>1. UNCHANGED <<queue, buffer, kept, hand, next, stored, unclear, off, refused, trimmed>>
    BY <1>2 DEF SeeStop, Exit
  <2>. QED
    BY Zenon, <2>1, OthersStutter
<1>3. ASSUME NEW w \in Workers, Take(w) PROVE Promise!Next \/ UNCHANGED Promise!vars
  BY Zenon, <1>3, TakeKeeps
<1>4. ASSUME NEW a \in Writers \cup Workers, Put(a) PROVE Promise!Next \/ UNCHANGED Promise!vars
  BY Zenon, <1>4, PutKeeps
<1>5. ASSUME NEW a \in Actors, Flush(a) PROVE Promise!Next \/ UNCHANGED Promise!vars
  BY Zenon, <1>5, LeafKeeps, FlushEndKeeps DEF Flush
<1>6. CASE Tick \/ FlushTick \/ FlusherExit \/ CloseFlag \/ CloseStep \/ Toggle \/ UNCHANGED vars
  <2>1. UNCHANGED <<queue, buffer, kept, hand, next, stored, unclear, off, refused, trimmed>>
    BY <1>6 DEF Tick, FlushTick, FlusherExit, CloseFlag, CloseStep, CloseStop, BufferStop, FinalFlush, CloseInner,
                Toggle, vars
  <2>. QED
    BY Zenon, <2>1, OthersStutter
<1>. QED
  BY Zenon, <1>1, <1>2, <1>3, <1>4, <1>5, <1>6 DEF Next, WorkerStep

\* A chain of sinks implements SinkDelivery: every step takes, stores or gives up entries as
\* promised, or none, for every chain, number of goroutines and size.
THEOREM Implements == Spec => KeepsPromise
<1>1. Init => Promise!Init
  <2>. SUFFICES ASSUME Init PROVE Promise!Init
    OBVIOUS
  <2>1. next = 0 /\ 1..next = {} /\ unclear = {} /\ Lost = {}
    BY DEF Init, Lost
  <2>2. HeldSet = {} /\ StoredSet = {}
    BY <2>1 DEF HeldSet, StoredSet
  <2>. QED
    BY Zenon, <2>1, <2>2 DEF Promise!Init, HeldSet, StoredSet, Lost
<1>2. SinksInv /\ SinksInv' /\ [Next]_vars => [Promise!Next]_(Promise!vars)
  BY NextKeeps DEF SinksInv
<1>. QED
  BY <1>1, <1>2, ChainCorrect, PTL DEF Spec, KeepsPromise, Promise!Spec
============================================================================
