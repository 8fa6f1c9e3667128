------------------------ MODULE CascadeWorkers_proofs -----------------------
(***************************************************************************)
(* What the proofs about both directions of memx_cascade.c rest on: lemmas *)
(* on sequences, remainders and counts, and what the loop of a job worker  *)
(* and the control thread keep, for any number of job workers.             *)
(***************************************************************************)
EXTENDS CascadeWorkers, TLAPS, FiniteSetTheorems, SequenceTheorems

-----------------------------------------------------------------------------
(* Sequences that grow at the end and are taken from the front keep their  *)
(* elements' type.                                                         *)
LEMMA SeqSteps ==
    ASSUME NEW S, NEW s \in Seq(S)
    PROVE  /\ \A x \in S : Append(s, x) \in Seq(S)
           /\ s # <<>> => Head(s) \in S /\ Tail(s) \in Seq(S) /\ Head(s) = s[1]
                          /\ Len(Tail(s)) = Len(s) - 1
                          /\ \A i \in 1 .. Len(s) - 1 : Tail(s)[i] = s[i + 1]
           /\ Len(s) \in Nat /\ DOMAIN s = 1 .. Len(s)
           /\ s # <<>> <=> Len(s) >= 1
           /\ \A i \in 1 .. Len(s) : s[i] \in S
  <1>1. \A x \in S : Append(s, x) \in Seq(S)
    BY AppendProperties
  <1>2. ASSUME s # <<>>
        PROVE  /\ Head(s) \in S /\ Tail(s) \in Seq(S) /\ Head(s) = s[1]
               /\ Len(Tail(s)) = Len(s) - 1
               /\ \A i \in 1 .. Len(s) - 1 : Tail(s)[i] = s[i + 1]
    <2>1. /\ Head(s) \in S /\ Tail(s) \in Seq(S) /\ Len(Tail(s)) = Len(s) - 1
          /\ \A i \in 1 .. Len(Tail(s)) : Tail(s)[i] = s[i + 1]
      BY <1>2, HeadTailProperties
    <2> QED
      BY <2>1
  <1>3. Len(s) \in Nat /\ DOMAIN s = 1 .. Len(s)
    BY LenProperties
  <1>4. s # <<>> <=> Len(s) >= 1
    BY <1>3, EmptySeq
  <1>5. \A i \in 1 .. Len(s) : s[i] \in S
    BY ElementOfSeq
  <1> QED
    BY <1>1, <1>2, <1>3, <1>4, <1>5

(* A sequence to which an element was appended. *)
LEMMA Appended ==
    ASSUME NEW S, NEW s \in Seq(S), NEW x \in S
    PROVE  /\ Append(s, x) \in Seq(S) /\ Len(Append(s, x)) = Len(s) + 1
           /\ DOMAIN Append(s, x) = 1 .. Len(s) + 1
           /\ \A i \in 1 .. Len(s) : Append(s, x)[i] = s[i]
           /\ Append(s, x)[Len(s) + 1] = x
  <1> DEFINE t == Append(s, x)
  <1>1. /\ t \in Seq(S) /\ Len(t) = Len(s) + 1
        /\ \A i \in 1 .. Len(s) : t[i] = s[i]
        /\ t[Len(s) + 1] = x
    BY AppendProperties
  <1> HIDE DEF t
  <1>2. DOMAIN t = 1 .. Len(s) + 1
    BY <1>1, LenProperties
  <1> QED
    BY <1>1, <1>2 DEF t

(* Elements of a sequence. *)
In(s, x) == \E i \in DOMAIN s : s[i] = x
NoRepeats(s) == \A i, j \in DOMAIN s : s[i] = s[j] => i = j

(* What is in a sequence to which an element was appended. *)
LEMMA InAppended ==
    ASSUME NEW S, NEW s \in Seq(S), NEW x \in S
    PROVE  /\ \A y : In(Append(s, x), y) <=> In(s, y) \/ y = x
           /\ NoRepeats(s) /\ ~In(s, x) => NoRepeats(Append(s, x))
  <1> DEFINE t == Append(s, x)
  <1>1. /\ Len(s) \in Nat /\ DOMAIN s = 1 .. Len(s)
        /\ t \in Seq(S) /\ Len(t) = Len(s) + 1
        /\ \A i \in 1 .. Len(s) : t[i] = s[i]
        /\ t[Len(s) + 1] = x
    BY SeqSteps, AppendProperties
  <1>2. DOMAIN t = 1 .. Len(s) + 1
    BY <1>1, LenProperties
  <1> HIDE DEF t
  <1>3. DOMAIN t = DOMAIN s \cup {Len(s) + 1} /\ Len(s) + 1 \notin DOMAIN s
    BY <1>1, <1>2
  <1>4. \A y : In(t, y) <=> In(s, y) \/ y = x
    BY <1>1, <1>3 DEF In
  <1>5. NoRepeats(s) /\ ~In(s, x) => NoRepeats(t)
    BY <1>1, <1>3 DEF In, NoRepeats
  <1> QED
    BY <1>4, <1>5 DEF t

(* What is in a sequence whose first element was taken. *)
LEMMA InTail ==
    ASSUME NEW S, NEW s \in Seq(S), s # <<>>
    PROVE  /\ \A y : In(s, y) <=> In(Tail(s), y) \/ y = Head(s)
           /\ NoRepeats(s) => NoRepeats(Tail(s)) /\ ~In(Tail(s), Head(s))
  <1> DEFINE t == Tail(s)
             x == Head(s)
  <1>1. /\ Len(s) \in Nat /\ DOMAIN s = 1 .. Len(s) /\ Len(s) >= 1
        /\ t \in Seq(S) /\ Len(t) = Len(s) - 1 /\ x = s[1]
        /\ \A i \in 1 .. Len(s) - 1 : t[i] = s[i + 1]
    BY SeqSteps
  <1>2. DOMAIN t = 1 .. Len(s) - 1
    BY <1>1, LenProperties
  <1> HIDE DEF t, x
  <1>3. ASSUME NEW y PROVE In(s, y) <=> In(t, y) \/ y = x
    <2>1. ASSUME In(s, y) PROVE In(t, y) \/ y = x
      <3>1. PICK i \in 1 .. Len(s) : s[i] = y
        BY <1>1, <2>1 DEF In
      <3>2. CASE i = 1
        BY <1>1, <3>1, <3>2
      <3>3. CASE i # 1
        <4>1. i - 1 \in 1 .. Len(s) - 1 /\ i - 1 + 1 = i
          BY <1>1, <3>3
        <4> QED
          BY <1>1, <1>2, <3>1, <4>1 DEF In
      <3> QED
        BY <3>2, <3>3
    <2>2. ASSUME In(t, y) PROVE In(s, y)
      <3>1. PICK i \in 1 .. Len(s) - 1 : t[i] = y
        BY <1>2, <2>2 DEF In
      <3>2. i + 1 \in 1 .. Len(s) /\ s[i + 1] = y
        BY <1>1, <3>1
      <3> QED
        BY <1>1, <3>2 DEF In
    <2>3. In(s, x)
      <3>1. 1 \in DOMAIN s
        BY <1>1
      <3> QED
        BY <1>1, <3>1 DEF In
    <2> QED
      BY <2>1, <2>2, <2>3
  <1>4. ASSUME NoRepeats(s) PROVE NoRepeats(t) /\ ~In(t, x)
    <2>1. ASSUME NEW i \in 1 .. Len(s) - 1, NEW j \in 1 .. Len(s) - 1, t[i] = t[j]
          PROVE  i = j
      <3>1. i + 1 \in DOMAIN s /\ j + 1 \in DOMAIN s /\ s[i + 1] = s[j + 1]
        BY <1>1, <2>1
      <3>2. i + 1 = j + 1
        BY <1>4, <3>1 DEF NoRepeats
      <3> QED
        BY <1>1, <3>2
    <2>2. ASSUME NEW i \in 1 .. Len(s) - 1, t[i] = x PROVE FALSE
      <3>1. i + 1 \in DOMAIN s /\ 1 \in DOMAIN s /\ s[i + 1] = s[1]
        BY <1>1, <2>2
      <3>2. i + 1 = 1
        BY <1>4, <3>1 DEF NoRepeats
      <3> QED
        BY <1>1, <3>2
    <2> QED
      BY <1>2, <2>1, <2>2 DEF NoRepeats, In
  <1> QED
    BY <1>3, <1>4 DEF t, x

(* How often an element occurs in a sequence. *)
Times(s, x) == Cardinality({i \in DOMAIN s : s[i] = x})

(* How often an element occurs, after an append. *)
LEMMA CountAppended ==
    ASSUME NEW S, NEW s \in Seq(S), NEW x \in S, NEW y
    PROVE  /\ Times(s, y) \in Nat
           /\ x = y => Times(Append(s, x), y) = Times(s, y) + 1
           /\ x # y => Times(Append(s, x), y) = Times(s, y)
  <1> DEFINE t == Append(s, x)
             A == {i \in DOMAIN s : s[i] = y}
             B == {i \in DOMAIN t : t[i] = y}
             n == Len(s) + 1
  <1>1. /\ Len(s) \in Nat /\ DOMAIN s = 1 .. Len(s) /\ DOMAIN t = 1 .. n
        /\ \A i \in 1 .. Len(s) : t[i] = s[i]
        /\ t[n] = x
    BY SeqSteps, Appended
  <1> HIDE DEF t
  <1>2. IsFiniteSet(A) /\ Cardinality(A) \in Nat /\ n \notin A
    <2>1. IsFiniteSet(DOMAIN s)
      BY <1>1, FS_Interval
    <2> QED
      BY <1>1, <2>1, FS_Subset, FS_CardinalityType
  <1>3. B = IF x = y THEN A \cup {n} ELSE A
    BY <1>1
  <1> HIDE DEF A, B, n
  <1>4. /\ x = y => Cardinality(B) = Cardinality(A) + 1
        /\ x # y => Cardinality(B) = Cardinality(A)
    <2>1. Cardinality(A \cup {n})
            = IF n \in A THEN Cardinality(A) ELSE Cardinality(A) + 1
      BY <1>2, FS_AddElement
    <2>2. CASE x = y
      BY <1>2, <1>3, <2>1, <2>2
    <2>3. CASE x # y
      BY <1>2, <1>3, <2>3
    <2> QED
      BY <2>2, <2>3
  <1>5. Times(Append(s, x), y) = Cardinality(B) /\ Times(s, y) = Cardinality(A)
    BY DEF A, B, t, Times
  <1> QED
    BY <1>2, <1>4, <1>5

(* How often an element occurs, after the first element was taken. *)
LEMMA CountTail ==
    ASSUME NEW S, NEW s \in Seq(S), s # <<>>, NEW y
    PROVE  /\ Times(s, y) \in Nat
           /\ Head(s) = y => Times(Tail(s), y) = Times(s, y) - 1 /\ Times(s, y) >= 1
           /\ Head(s) # y => Times(Tail(s), y) = Times(s, y)
  <1> DEFINE t == Tail(s)
             A == {i \in DOMAIN s : s[i] = y}
             B == {i \in DOMAIN t : t[i] = y}
             C == A \ {1}
             g == [i \in B |-> i + 1]
  <1>1. /\ Len(s) \in Nat /\ DOMAIN s = 1 .. Len(s) /\ Len(s) >= 1
        /\ t \in Seq(S) /\ Len(t) = Len(s) - 1 /\ Head(s) = s[1]
        /\ \A i \in 1 .. Len(s) - 1 : t[i] = s[i + 1]
    BY SeqSteps
  <1>2. DOMAIN t = 1 .. Len(s) - 1
    BY <1>1, LenProperties
  <1> HIDE DEF t
  <1>3. IsFiniteSet(A) /\ Cardinality(A) \in Nat /\ IsFiniteSet(B)
    <2>1. IsFiniteSet(1 .. Len(s)) /\ IsFiniteSet(1 .. Len(s) - 1)
      BY <1>1, FS_Interval
    <2>2. A \subseteq 1 .. Len(s) /\ B \subseteq 1 .. Len(s) - 1
      BY <1>1, <1>2
    <2> HIDE DEF A, B
    <2> QED
      BY <2>1, <2>2, FS_Subset, FS_CardinalityType
  <1>4. g \in Bijection(B, C)
    <2>1. g \in [B -> C]
      <3>1. \A i \in B : i + 1 \in C
        BY <1>1, <1>2
      <3> QED
        BY <3>1
    <2>2. \A i, j \in B : g[i] = g[j] => i = j
      BY <1>1, <1>2
    <2>3. \A j \in C : \E i \in B : g[i] = j
      <3> SUFFICES ASSUME NEW j \in C PROVE \E i \in B : g[i] = j
        OBVIOUS
      <3>1. j - 1 \in B /\ j - 1 + 1 = j
        BY <1>1, <1>2
      <3> QED
        BY <3>1
    <2> HIDE DEF g, B, C
    <2> QED
      BY <2>1, <2>2, <2>3 DEF Bijection, Injection, Surjection, IsInjective
  <1>5. Cardinality(C) = Cardinality(B)
    <2> HIDE DEF g, B, C
    <2> QED
      BY <1>3, <1>4, FS_Bijection DEF ExistsBijection
  <1>6. 1 \in A <=> Head(s) = y
    BY <1>1
  <1> HIDE DEF A, B
  <1>7. /\ Head(s) = y => Cardinality(B) = Cardinality(A) - 1
        /\ Head(s) # y => Cardinality(B) = Cardinality(A)
    <2>1. Cardinality(C) = IF 1 \in A THEN Cardinality(A) - 1 ELSE Cardinality(A)
      BY <1>3, FS_RemoveElement
    <2> HIDE DEF C
    <2> QED
      BY <1>3, <1>5, <1>6, <2>1
  <1>8. Head(s) = y => Cardinality(A) >= 1
    <2>1. Cardinality(B) \in Nat
      BY <1>3, FS_CardinalityType
    <2> QED
      BY <1>3, <1>7, <2>1
  <1>9. Times(Tail(s), y) = Cardinality(B) /\ Times(s, y) = Cardinality(A)
    BY DEF A, B, t, Times
  <1> QED
    BY <1>3, <1>7, <1>8, <1>9

(* A subset of a finite set of which one element may come or go.           *)
LEMMA CountChanges ==
    ASSUME NEW S, IsFiniteSet(S), NEW A \in SUBSET S, NEW B \in SUBSET S,
           NEW x \in S, \A y \in S : y # x => (y \in A <=> y \in B)
    PROVE  /\ Cardinality(A) \in Nat /\ Cardinality(B) \in Nat
           /\ x \in A /\ x \in B => Cardinality(B) = Cardinality(A)
           /\ x \notin A /\ x \notin B => Cardinality(B) = Cardinality(A)
           /\ x \notin A /\ x \in B => Cardinality(B) = Cardinality(A) + 1
           /\ x \in A /\ x \notin B =>
                Cardinality(B) = Cardinality(A) - 1 /\ Cardinality(A) >= 1
  <1>1. IsFiniteSet(A) /\ IsFiniteSet(B)
    BY FS_Subset
  <1>2. Cardinality(A) \in Nat /\ Cardinality(B) \in Nat
    BY <1>1, FS_CardinalityType
  <1>3. (x \in A <=> x \in B) => A = B
    OBVIOUS
  <1>4. x \notin A /\ x \in B => Cardinality(B) = Cardinality(A) + 1
    <2>1. Cardinality(A \cup {x}) = IF x \in A THEN Cardinality(A)
                                    ELSE Cardinality(A) + 1
      BY <1>1, FS_AddElement
    <2>2. x \notin A /\ x \in B => B = A \cup {x}
      OBVIOUS
    <2> QED
      BY <2>1, <2>2
  <1>5. x \in A /\ x \notin B => Cardinality(A) = Cardinality(B) + 1
    <2>1. Cardinality(B \cup {x}) = IF x \in B THEN Cardinality(B)
                                    ELSE Cardinality(B) + 1
      BY <1>1, FS_AddElement
    <2>2. x \in A /\ x \notin B => A = B \cup {x}
      OBVIOUS
    <2> QED
      BY <2>1, <2>2
  <1> QED
    BY <1>2, <1>3, <1>4, <1>5

-----------------------------------------------------------------------------
(* Remainders. *)

(* Remainder and quotient of a number in the first two periods. *)
LEMMA FirstPeriods ==
    ASSUME NEW h \in Nat, h > 0, NEW a \in Nat, a < h + h
    PROVE  a % h = IF a < h THEN a ELSE a - h
  <1>1. CASE a < h
    BY <1>1
  <1>2. CASE a >= h
    BY <1>2
  <1> QED
    BY <1>1, <1>2

(* A number is given by quotient and remainder. *)
LEMMA DivMod ==
    ASSUME NEW h \in Nat, h > 0, NEW a \in Nat
    PROVE  /\ a % h \in 0 .. h - 1 /\ a \div h \in Nat
           /\ a = h * (a \div h) + (a % h)
  OBVIOUS

(* Quotient and remainder are given by the number. *)
LEMMA DivModUnique ==
    ASSUME NEW h \in Nat, h > 0, NEW q \in Int, NEW m \in Nat, m < h
    PROVE  (h * q + m) % h = m /\ (h * q + m) \div h = q
  OBVIOUS

(* Counting up. *)
LEMMA NextDivMod ==
    ASSUME NEW h \in Nat, h > 0, NEW a \in Nat
    PROVE  /\ (a + 1) % h = IF (a % h) + 1 = h THEN 0 ELSE (a % h) + 1
           /\ (a + 1) \div h = IF (a % h) + 1 = h THEN a \div h + 1 ELSE a \div h
  <1> DEFINE q == a \div h
             m == a % h
  <1>1. m \in 0 .. h - 1 /\ q \in Nat /\ a = h * q + m
    BY DivMod
  <1> HIDE DEF q, m
  <1>2. CASE m + 1 = h
    <2>1. a + 1 = h * (q + 1) + 0
      BY <1>1, <1>2
    <2>2. (h * (q + 1) + 0) % h = 0 /\ (h * (q + 1) + 0) \div h = q + 1
      <3>1. q + 1 \in Int /\ 0 \in Nat /\ 0 < h
        BY <1>1
      <3> QED
        BY <3>1, DivModUnique
    <2> QED
      BY <1>2, <2>1, <2>2 DEF q, m
  <1>3. CASE m + 1 # h
    <2>1. a + 1 = h * q + (m + 1)
      BY <1>1
    <2>2. (h * q + (m + 1)) % h = m + 1 /\ (h * q + (m + 1)) \div h = q
      <3>1. q \in Int /\ m + 1 \in Nat /\ m + 1 < h
        BY <1>1, <1>3
      <3> QED
        BY <3>1, DivModUnique
    <2> QED
      BY <1>3, <2>1, <2>2 DEF q, m
  <1> QED
    BY <1>2, <1>3

-----------------------------------------------------------------------------
(* The shared state. *)

JobPCs ==
    {"off", "top", "gate", "committed", "asleep", "pop", "execute", "rest",
     "waiting", "lock", "row", "full", "count", "push"}
WorkerPCs ==
    {"top", "gate", "asleep", "scan", "begin", "subtract", "compare", "send",
     "move", "scanned", "idle", "waiting", "exit", "read", "publish", "report",
     "signal"}
ControlPCs ==
    {"idle", "enable_wait", "disable_signal", "disable_wait", "remove_tell",
     "remove_wait", "remove_retell", "remove_join", "stop", "unblock",
     "stop_jobs", "signal_jobs", "join", "gone"}

JobWorkerStates(F) ==
    [pc : JobPCs, enable : {0, 1}, state : {"pending", "running"},
     next : {"pending", "running"}, flow : F]

ControlStates ==
    [pc : ControlPCs, who : JobWorkers \cup {NoWorker}, grown : BOOLEAN,
     done : 0 .. MaxControl]

WorkersType(F) ==
    /\ jobs \in Seq(F) /\ lost \in Seq(F) /\ pool \in Seq(JobWorkers)
    /\ jw \in [JobWorkers -> JobWorkerStates(F)]
    /\ wk \in [pc : WorkerPCs, enable : {0, 1}, state : {"pending", "running"},
               next : {"pending", "running"}]
    /\ ctl \in ControlStates

(* The invariant on types implies what the components check. *)
LEMMA WorkersTypeImplies ==
    ASSUME NEW F, WorkersType(F) PROVE WorkersTypeOK
  BY DEF WorkersType, WorkersTypeOK, JobWorkerStates, ControlStates

(* The initial state of the workers and of control. *)
LEMMA WorkersTypeInit ==
    ASSUME NEW F, 0 \in F, WorkersInit PROVE WorkersType(F)
  <1>1. jw \in [JobWorkers -> JobWorkerStates(F)] /\ pool \in Seq(JobWorkers)
    <2>1. PICK e \in JobWorkers :
            /\ pool = <<e>>
            /\ jw = [d \in JobWorkers |-> IF d = e THEN NewJobWorker
                                      ELSE [NewJobWorker EXCEPT !.pc = "off"]]
      BY DEF WorkersInit
    <2>2. NewJobWorker \in JobWorkerStates(F)
          /\ [NewJobWorker EXCEPT !.pc = "off"] \in JobWorkerStates(F)
      BY DEF NewJobWorker, JobWorkerStates, JobPCs
    <2> QED
      BY <2>1, <2>2
  <1>2. jobs \in Seq(F) /\ lost \in Seq(F)
    BY DEF WorkersInit
  <1>3. wk \in [pc : WorkerPCs, enable : {0, 1}, state : {"pending", "running"},
                next : {"pending", "running"}]
    BY DEF WorkersInit, WorkerPCs
  <1>4. ctl \in ControlStates
    BY WorkersAssumption DEF WorkersInit, ControlStates, ControlPCs
  <1> QED
    BY <1>1, <1>2, <1>3, <1>4 DEF WorkersType

(* Moving one job worker keeps its type and changes nothing else.          *)
LEMMA JobWorkerMoves ==
    ASSUME NEW F, WorkersType(F), NEW e \in JobWorkers, NEW pc \in JobPCs,
           JobWorkerGoes(e, pc)
    PROVE  /\ jw' \in [JobWorkers -> JobWorkerStates(F)]
           /\ \A d \in JobWorkers :
                /\ jw'[d].pc = IF d = e THEN pc ELSE jw[d].pc
                /\ jw'[d].enable = jw[d].enable /\ jw'[d].next = jw[d].next
                /\ jw'[d].flow = jw[d].flow
           /\ \A d \in JobWorkers : d # e => jw'[d] = jw[d]
  BY DEF WorkersType, JobWorkerStates, JobWorkerGoes

(* Waking those that wait keeps the type of all. *)
LEMMA WakeTyped ==
    ASSUME NEW F, WorkersType(F), SignalEnqueue \/ Broadcast
    PROVE  /\ jw' \in [JobWorkers -> JobWorkerStates(F)]
           /\ \A d \in JobWorkers :
                /\ \/ jw'[d].pc = jw[d].pc
                   \/ jw[d].pc = "waiting" /\ jw'[d].pc = "rest"
                /\ jw'[d].enable = jw[d].enable /\ jw'[d].next = jw[d].next
                /\ jw'[d].flow = jw[d].flow
           /\ Broadcast => \A d \in JobWorkers : jw'[d].pc # "waiting"
           /\ \/ \E d \in JobWorkers : jw[d].pc = "waiting" /\ jw'[d].pc = "rest"
              \/ \A d \in JobWorkers : jw[d].pc # "waiting"
  <1>1. CASE SignalEnqueue
    <2>1. CASE \E e \in JobWorkers : jw[e].pc = "waiting"
      <3>1. PICK e \in JobWorkers : jw[e].pc = "waiting" /\ JobWorkerGoes(e, "rest")
        BY <1>1, <2>1 DEF SignalEnqueue
      <3>2. "rest" \in JobPCs
        BY DEF JobPCs
      <3>3. /\ jw' \in [JobWorkers -> JobWorkerStates(F)]
            /\ \A d \in JobWorkers :
                /\ jw'[d].pc = IF d = e THEN "rest" ELSE jw[d].pc
                /\ jw'[d].enable = jw[d].enable /\ jw'[d].next = jw[d].next
                /\ jw'[d].flow = jw[d].flow
        BY <3>1, <3>2, JobWorkerMoves
      <3>4. ~Broadcast \/ \A d \in JobWorkers : jw'[d].pc # "waiting"
        BY DEF Broadcast, WorkersType, JobWorkerStates
      <3> QED
        BY <3>1, <3>3, <3>4
    <2>2. CASE ~ \E e \in JobWorkers : jw[e].pc = "waiting"
      BY <1>1, <2>2 DEF SignalEnqueue, WorkersType, Broadcast
    <2> QED
      BY <2>1, <2>2
  <1>2. CASE Broadcast
    <2>1. \A d \in JobWorkers :
            jw'[d] = IF jw[d].pc = "waiting"
                       THEN [jw[d] EXCEPT !.pc = "rest"] ELSE jw[d]
      BY <1>2 DEF Broadcast
    <2>2. \A d \in JobWorkers : jw[d] \in JobWorkerStates(F)
      BY DEF WorkersType
    <2>3. \A d \in JobWorkers :
            /\ jw'[d] \in JobWorkerStates(F)
            /\ jw'[d].pc = IF jw[d].pc = "waiting" THEN "rest" ELSE jw[d].pc
            /\ jw'[d].enable = jw[d].enable /\ jw'[d].next = jw[d].next
            /\ jw'[d].flow = jw[d].flow
      <3> SUFFICES ASSUME NEW d \in JobWorkers
                   PROVE  /\ jw'[d] \in JobWorkerStates(F)
                          /\ jw'[d].pc = IF jw[d].pc = "waiting" THEN "rest" ELSE jw[d].pc
                          /\ jw'[d].enable = jw[d].enable /\ jw'[d].next = jw[d].next
                          /\ jw'[d].flow = jw[d].flow
        OBVIOUS
      <3>1. jw[d] \in JobWorkerStates(F)
        BY <2>2
      <3>2. CASE jw[d].pc = "waiting"
        <4>1. jw'[d] = [jw[d] EXCEPT !.pc = "rest"]
          BY <2>1, <3>2
        <4> QED
          BY <3>1, <3>2, <4>1 DEF JobWorkerStates, JobPCs
      <3>3. CASE jw[d].pc # "waiting"
        <4>1. jw'[d] = jw[d]
          BY <2>1, <3>3
        <4> QED
          BY <3>1, <3>3, <4>1
      <3> QED
        BY <3>2, <3>3
    <2>4. jw' \in [JobWorkers -> JobWorkerStates(F)]
      BY <1>2, <2>3 DEF Broadcast
    <2> QED
      BY <2>3, <2>4
  <1> QED
    BY <1>1, <1>2

-----------------------------------------------------------------------------
(* What the steps of control and of the loop of a job worker leave alone:  *)
(* a job worker is not taken out of a job, and the transfer worker is at   *)
(* most woken up.                                                          *)
Resting == {"off", "top", "gate", "committed", "asleep", "pop", "rest", "waiting"}

KeepsWorking ==
    \A e \in JobWorkers :
        \/ jw'[e].pc = jw[e].pc /\ jw'[e].flow = jw[e].flow
        \/ jw[e].pc \in Resting /\ jw'[e].pc \in Resting

KeepsMoving ==
    \/ wk'.pc = wk.pc
    \/ wk.pc = "asleep" /\ wk'.pc = "gate"
    \/ wk.pc = "waiting" /\ wk'.pc = "idle"

(* Orders to a job worker, which may be asleep.                            *)
LEMMA JobWorkerTold ==
    ASSUME NEW F, WorkersType(F), NEW e, NEW s \in {"pending", "running"},
           JobWorkerTo(e, s)
    PROVE  /\ jw' \in [JobWorkers -> JobWorkerStates(F)]
           /\ \A d \in JobWorkers :
                /\ jw'[d].pc = IF d = e /\ jw[d].pc = "asleep" THEN "gate"
                               ELSE jw[d].pc
                /\ jw'[d].next = IF d = e THEN s ELSE jw[d].next
                /\ jw'[d].enable = jw[d].enable /\ jw'[d].flow = jw[d].flow
  <1>1. /\ jw' = [d \in JobWorkers |-> jw'[d]]
        /\ \A d \in JobWorkers : jw'[d] =
             IF d = e THEN [jw[d] EXCEPT !.next = s,
                              !.pc = IF jw[d].pc = "asleep" THEN "gate" ELSE jw[d].pc]
                      ELSE jw[d]
    BY DEF WorkersType, JobWorkerTo
  <1>2. \A d \in JobWorkers : jw[d] \in JobWorkerStates(F)
    BY DEF WorkersType
  <1>3. ASSUME NEW d \in JobWorkers
        PROVE
                /\ jw'[d] \in JobWorkerStates(F)
                /\ jw'[d].pc = IF d = e /\ jw[d].pc = "asleep" THEN "gate"
                               ELSE jw[d].pc
                /\ jw'[d].next = IF d = e THEN s ELSE jw[d].next
                /\ jw'[d].enable = jw[d].enable /\ jw'[d].flow = jw[d].flow
    <2> DEFINE p == IF jw[d].pc = "asleep" THEN "gate" ELSE jw[d].pc
    <2>1. p \in JobPCs
      BY <1>2 DEF JobWorkerStates, JobPCs
    <2>2. CASE d = e
      <3>1. jw'[d] = [jw[d] EXCEPT !.next = s, !.pc = p]
        BY <1>1, <2>2
      <3> HIDE DEF p
      <3>2. /\ jw'[d] \in JobWorkerStates(F) /\ jw'[d].pc = p
            /\ jw'[d].next = s /\ jw'[d].enable = jw[d].enable
            /\ jw'[d].flow = jw[d].flow
        BY <1>2, <2>1, <3>1 DEF JobWorkerStates
      <3> QED
        BY <2>2, <3>2 DEF p
    <2>3. CASE d # e
      BY <1>1, <1>2, <2>3
    <2> QED
      BY <2>2, <2>3
  <1> QED
    BY <1>1, <1>3

(* The last order to a job worker that is removed.                         *)
LEMMA JobWorkerStopped ==
    ASSUME NEW F, WorkersType(F), NEW locked \in BOOLEAN, RemoveStop(locked)
    PROVE  /\ jw' \in [JobWorkers -> JobWorkerStates(F)]
           /\ \A d \in JobWorkers :
                /\ jw'[d].pc = IF d = ctl.who /\ jw[d].pc = "asleep" THEN "gate"
                               ELSE jw[d].pc
                /\ jw'[d].enable = IF d = ctl.who THEN 0 ELSE jw[d].enable
                /\ jw'[d].next = jw[d].next /\ jw'[d].flow = jw[d].flow
  <1>1. /\ jw' = [d \in JobWorkers |-> jw'[d]]
        /\ \A d \in JobWorkers : jw'[d] =
             IF d = ctl.who
               THEN [jw[d] EXCEPT !.enable = 0,
                       !.pc = IF jw[d].pc = "asleep" THEN "gate" ELSE jw[d].pc]
               ELSE jw[d]
    BY DEF WorkersType, RemoveStop
  <1>2. \A d \in JobWorkers : jw[d] \in JobWorkerStates(F)
    BY DEF WorkersType
  <1>3. ASSUME NEW d \in JobWorkers
        PROVE
                /\ jw'[d] \in JobWorkerStates(F)
                /\ jw'[d].pc = IF d = ctl.who /\ jw[d].pc = "asleep" THEN "gate"
                               ELSE jw[d].pc
                /\ jw'[d].enable = IF d = ctl.who THEN 0 ELSE jw[d].enable
                /\ jw'[d].next = jw[d].next /\ jw'[d].flow = jw[d].flow
    <2> DEFINE p == IF jw[d].pc = "asleep" THEN "gate" ELSE jw[d].pc
    <2>1. p \in JobPCs
      BY <1>2 DEF JobWorkerStates, JobPCs
    <2>2. CASE d = ctl.who
      <3>1. jw'[d] = [jw[d] EXCEPT !.enable = 0, !.pc = p]
        BY <1>1, <2>2
      <3> HIDE DEF p
      <3>2. /\ jw'[d] \in JobWorkerStates(F) /\ jw'[d].pc = p
            /\ jw'[d].enable = 0 /\ jw'[d].next = jw[d].next
            /\ jw'[d].flow = jw[d].flow
        BY <1>2, <2>1, <3>1 DEF JobWorkerStates
      <3> QED
        BY <2>2, <3>2 DEF p
    <2>3. CASE d # ctl.who
      BY <1>1, <1>2, <2>3
    <2> QED
      BY <2>2, <2>3
  <1> QED
    BY <1>1, <1>3

(* Orders to the transfer worker. *)
LEMMA WorkerTold ==
    ASSUME NEW F, WorkersType(F),
           \/ \E s \in {"pending", "running"} : WorkerTo(s)
           \/ SignalNewRows
           \/ wk' = [wk EXCEPT !.enable = 0]
    PROVE  /\ wk' \in [pc : WorkerPCs, enable : {0, 1},
                       state : {"pending", "running"}, next : {"pending", "running"}]
           /\ KeepsMoving
  BY DEF WorkersType, WorkerPCs, WorkerTo, SignalNewRows, KeepsMoving

(* A step that leaves the job workers as they are keeps them working.      *)
LEMMA SameKeepsWorking ==
    ASSUME UNCHANGED jw PROVE KeepsWorking
  BY DEF KeepsWorking

(* A spurious wake-up. *)
LEMMA WakeupKeeps ==
    ASSUME NEW F, WorkersType(F), SpuriousWakeup
    PROVE  WorkersType(F)' /\ KeepsWorking /\ KeepsMoving
  <1>1. CASE /\ \E e \in JobWorkers :
                 /\ jw[e].pc \in {"asleep", "waiting"}
                 /\ JobWorkerGoes(e, IF jw[e].pc = "asleep" THEN "gate" ELSE "rest")
             /\ UNCHANGED wk
    <2>1. PICK e \in JobWorkers :
            /\ jw[e].pc \in {"asleep", "waiting"}
            /\ JobWorkerGoes(e, IF jw[e].pc = "asleep" THEN "gate" ELSE "rest")
      BY <1>1
    <2> DEFINE pc == IF jw[e].pc = "asleep" THEN "gate" ELSE "rest"
    <2>2. pc \in JobPCs /\ pc \in Resting
      BY DEF JobPCs, Resting
    <2>3. JobWorkerGoes(e, pc)
      BY <2>1
    <2> HIDE DEF pc
    <2>4. /\ jw' \in [JobWorkers -> JobWorkerStates(F)]
          /\ \A d \in JobWorkers :
                /\ jw'[d].pc = IF d = e THEN pc ELSE jw[d].pc
                /\ jw'[d].flow = jw[d].flow
      BY <2>2, <2>3, JobWorkerMoves
    <2>5. KeepsWorking
      BY <2>1, <2>2, <2>4 DEF KeepsWorking, Resting
    <2> QED
      BY <1>1, <2>4, <2>5 DEF WorkersType, SpuriousWakeup, KeepsMoving
  <1>2. CASE /\ wk.pc \in {"asleep", "waiting"}
             /\ wk' = [wk EXCEPT !.pc = IF @ = "asleep" THEN "gate" ELSE "idle"]
             /\ UNCHANGED jw
    <2>1. KeepsWorking
      BY <1>2, SameKeepsWorking
    <2> QED
      BY <1>2, <2>1 DEF WorkersType, SpuriousWakeup, KeepsMoving, WorkerPCs
  <1> QED
    BY <1>1, <1>2 DEF SpuriousWakeup

(* The requests of control. *)
LEMMA RequestKeeps ==
    ASSUME NEW F, 0 \in F, WorkersType(F), Request
    PROVE  WorkersType(F)' /\ KeepsWorking /\ KeepsMoving
  <1>1. CASE SetStreamEnable \/ SetStreamDisable
    <2>1. /\ wk' \in [pc : WorkerPCs, enable : {0, 1},
                       state : {"pending", "running"}, next : {"pending", "running"}]
          /\ KeepsMoving
      BY <1>1, WorkerTold DEF SetStreamEnable, SetStreamDisable
    <2>2. UNCHANGED <<jobs, jw, pool, lost>>
      BY <1>1 DEF SetStreamEnable, SetStreamDisable
    <2>3. ctl' \in ControlStates
      <3>1. PICK pc \in {"idle", "enable_wait", "disable_signal"} : ControlCall(pc)
        BY <1>1 DEF SetStreamEnable, SetStreamDisable
      <3>2. ctl' = [pc |-> pc, who |-> ctl.who, grown |-> ctl.grown,
                    done |-> ctl.done + 1]
        BY <3>1 DEF ControlCall, WorkersType, ControlStates
      <3>3. ctl.done + 1 \in 0 .. MaxControl
        BY <3>1, WorkersAssumption DEF ControlCall, WorkersType, ControlStates
      <3> QED
        BY <3>2, <3>3 DEF WorkersType, ControlStates, ControlPCs
    <2> QED
      BY <2>1, <2>2, <2>3, SameKeepsWorking DEF WorkersType
  <1>2. CASE AddJobWorker
    <2>1. PICK e \in JobWorkers :
            jw[e].pc = "off" /\ jw' = [jw EXCEPT ![e] = NewJobWorker]
            /\ pool' = Append(pool, e)
      BY <1>2 DEF AddJobWorker
    <2>2. NewJobWorker \in JobWorkerStates(F) /\ NewJobWorker.pc = "top"
      BY DEF NewJobWorker, JobWorkerStates, JobPCs
    <2>3. jw' \in [JobWorkers -> JobWorkerStates(F)] /\ KeepsWorking
      BY <2>1, <2>2 DEF WorkersType, KeepsWorking, Resting
    <2>4. pool' \in Seq(JobWorkers)
      BY <2>1, AppendProperties DEF WorkersType
    <2>5. ctl' \in ControlStates
      <3>1. ctl' = [pc |-> "idle", who |-> ctl.who, grown |-> TRUE,
                    done |-> ctl.done + 1]
        BY <1>2 DEF AddJobWorker, WorkersType, ControlStates
      <3>2. ctl.done + 1 \in 0 .. MaxControl
        BY <1>2, WorkersAssumption DEF AddJobWorker, WorkersType, ControlStates
      <3> QED
        BY <3>1, <3>2 DEF WorkersType, ControlStates, ControlPCs
    <2> QED
      BY <1>2, <2>3, <2>4, <2>5 DEF WorkersType, AddJobWorker, KeepsMoving
  <1>3. CASE RemoveJobWorker
    <2>1. pool # <<>> /\ Head(pool) \in JobWorkers /\ pool' \in Seq(JobWorkers)
      <3>1. pool \in Seq(JobWorkers) /\ Len(pool) > 1
        BY <1>3 DEF RemoveJobWorker, WorkersType
      <3>2. pool # <<>>
        BY <3>1, EmptySeq
      <3> QED
        BY <1>3, <3>1, <3>2, SeqSteps DEF RemoveJobWorker
    <2>2. jw' \in [JobWorkers -> JobWorkerStates(F)] /\ KeepsWorking
      <3>1. JobWorkerTo(Head(pool), "pending")
        BY <1>3 DEF RemoveJobWorker
      <3>2. /\ jw' \in [JobWorkers -> JobWorkerStates(F)]
            /\ \A d \in JobWorkers :
                /\ jw'[d].pc = IF d = Head(pool) /\ jw[d].pc = "asleep" THEN "gate"
                               ELSE jw[d].pc
                /\ jw'[d].flow = jw[d].flow
        BY <3>1, JobWorkerTold
      <3> QED
        BY <3>2 DEF KeepsWorking, Resting
    <2>3. ctl' \in ControlStates
      <3>1. ctl' = [pc |-> "remove_tell", who |-> Head(pool), grown |-> ctl.grown,
                    done |-> ctl.done + 1]
        BY <1>3 DEF RemoveJobWorker, WorkersType, ControlStates
      <3>2. ctl.done + 1 \in 0 .. MaxControl
        BY <1>3, WorkersAssumption DEF RemoveJobWorker, WorkersType, ControlStates
      <3> QED
        BY <2>1, <3>1, <3>2 DEF WorkersType, ControlStates, ControlPCs
    <2> QED
      BY <1>3, <2>1, <2>2, <2>3 DEF WorkersType, RemoveJobWorker, KeepsMoving
  <1> QED
    BY <1>1, <1>2, <1>3 DEF Request

(* A step of control to another place keeps the type of its state. *)
LEMMA ControlMoves ==
    ASSUME NEW F, WorkersType(F), NEW pc \in ControlPCs,
           ctl' = [ctl EXCEPT !.pc = pc]
    PROVE  ctl' \in ControlStates
  BY DEF WorkersType, ControlStates

(* The steps of control between its requests, and destroy. *)
LEMMA ControlKeeps ==
    ASSUME NEW F, WorkersType(F), NEW locked \in BOOLEAN,
           Control(locked) \/ DestroyDisable
    PROVE  WorkersType(F)' /\ KeepsWorking /\ KeepsMoving
  <1>1. CASE DisableSignal \/ DestroyWorker
    <2>1. /\ wk' \in [pc : WorkerPCs, enable : {0, 1},
                       state : {"pending", "running"}, next : {"pending", "running"}]
          /\ KeepsMoving
      BY <1>1, WorkerTold DEF DisableSignal, DestroyWorker
    <2>2. UNCHANGED <<jobs, jw, pool, lost>>
      BY <1>1 DEF DisableSignal, DestroyWorker
    <2>3. PICK pc \in ControlPCs : ctl' = [ctl EXCEPT !.pc = pc]
      BY <1>1 DEF DisableSignal, DestroyWorker, ControlPCs
    <2>4. ctl' \in ControlStates
      BY <2>3, ControlMoves
    <2> QED
      BY <2>1, <2>2, <2>4, SameKeepsWorking DEF WorkersType
  <1>2. CASE StateEntered
    <2>1. "idle" \in ControlPCs
      BY DEF ControlPCs
    <2>2. ctl' \in ControlStates
      BY <1>2, <2>1, ControlMoves DEF StateEntered
    <2> QED
      BY <1>2, <2>2, SameKeepsWorking DEF StateEntered, WorkersType, KeepsMoving
  <1>3. CASE RemoveTell \/ DestroySignal
    <2>1. SignalEnqueue \/ Broadcast
      BY <1>3 DEF RemoveTell, DestroySignal
    <2>2. jw' \in [JobWorkers -> JobWorkerStates(F)] /\ KeepsWorking
      <3>1. /\ jw' \in [JobWorkers -> JobWorkerStates(F)]
            /\ \A d \in JobWorkers :
                /\ \/ jw'[d].pc = jw[d].pc
                   \/ jw[d].pc = "waiting" /\ jw'[d].pc = "rest"
                /\ jw'[d].flow = jw[d].flow
        BY <2>1, WakeTyped
      <3> QED
        BY <3>1 DEF KeepsWorking, Resting
    <2>3. PICK pc \in ControlPCs : ctl' = [ctl EXCEPT !.pc = pc]
      BY <1>3 DEF RemoveTell, DestroySignal, ControlPCs
    <2>4. ctl' \in ControlStates
      BY <2>3, ControlMoves
    <2> QED
      BY <1>3, <2>2, <2>4 DEF RemoveTell, DestroySignal, WorkersType, KeepsMoving
  <1>4. CASE RemoveStop(locked)
    <2>1. jw' \in [JobWorkers -> JobWorkerStates(F)] /\ KeepsWorking
      <3>1. /\ jw' \in [JobWorkers -> JobWorkerStates(F)]
            /\ \A d \in JobWorkers :
                /\ jw'[d].pc = IF d = ctl.who /\ jw[d].pc = "asleep" THEN "gate"
                               ELSE jw[d].pc
                /\ jw'[d].flow = jw[d].flow
        BY <1>4, JobWorkerStopped
      <3> QED
        BY <3>1 DEF KeepsWorking, Resting
    <2>2. "remove_retell" \in ControlPCs
      BY DEF ControlPCs
    <2>3. ctl' \in ControlStates
      BY <1>4, <2>2, ControlMoves DEF RemoveStop
    <2> QED
      BY <1>4, <2>1, <2>3 DEF RemoveStop, WorkersType, KeepsMoving
  <1>5. CASE RemoveJoin
    <2>1. ctl' \in ControlStates
      BY <1>5 DEF RemoveJoin, WorkersType, ControlStates, ControlPCs
    <2> QED
      BY <1>5, <2>1, SameKeepsWorking DEF RemoveJoin, WorkersType, KeepsMoving
  <1>6. CASE DestroyJobWorker
    <2>1. jw' \in [JobWorkers -> JobWorkerStates(F)] /\ KeepsWorking
      <3>1. PICK e : JobWorkerTo(e, "pending")
        BY <1>6 DEF DestroyJobWorker
      <3>2. /\ jw' \in [JobWorkers -> JobWorkerStates(F)]
            /\ \A d \in JobWorkers :
                /\ jw'[d].pc = IF d = e /\ jw[d].pc = "asleep" THEN "gate"
                               ELSE jw[d].pc
                /\ jw'[d].flow = jw[d].flow
        BY <3>1, JobWorkerTold
      <3> QED
        BY <3>2 DEF KeepsWorking, Resting
    <2>2. "signal_jobs" \in ControlPCs
      BY DEF ControlPCs
    <2>3. ctl' \in ControlStates
      BY <1>6, <2>2, ControlMoves DEF DestroyJobWorker
    <2> QED
      BY <1>6, <2>1, <2>3 DEF DestroyJobWorker, WorkersType, KeepsMoving
  <1>7. CASE DestroyDisable
    <2>1. jw' \in [JobWorkers -> JobWorkerStates(F)] /\ KeepsWorking
      <3>1. \A d \in JobWorkers : jw'[d] = [jw[d] EXCEPT !.enable = 0]
        BY <1>7 DEF DestroyDisable
      <3>2. \A d \in JobWorkers : jw[d] \in JobWorkerStates(F)
        BY DEF WorkersType
      <3>3. \A d \in JobWorkers : /\ jw'[d] \in JobWorkerStates(F)
                                  /\ jw'[d].pc = jw[d].pc
                                  /\ jw'[d].flow = jw[d].flow
        BY <3>1, <3>2 DEF JobWorkerStates
      <3> QED
        BY <1>7, <3>3 DEF DestroyDisable, KeepsWorking
    <2>2. /\ wk' \in [pc : WorkerPCs, enable : {0, 1},
                       state : {"pending", "running"}, next : {"pending", "running"}]
          /\ KeepsMoving
      BY <1>7, WorkerTold DEF DestroyDisable
    <2>3. "stop" \in ControlPCs
      BY DEF ControlPCs
    <2>4. ctl' \in ControlStates
      BY <1>7, <2>3, ControlMoves DEF DestroyDisable
    <2> QED
      BY <1>7, <2>1, <2>2, <2>4 DEF DestroyDisable, WorkersType
  <1> QED
    BY <1>1, <1>2, <1>3, <1>4, <1>5, <1>6, <1>7 DEF Control

(* The end of destroy. *)
LEMMA JoinKeeps ==
    ASSUME NEW F, WorkersType(F), DestroyJoin
    PROVE  WorkersType(F)' /\ KeepsWorking /\ KeepsMoving
  <1>1. "gone" \in ControlPCs
    BY DEF ControlPCs
  <1>2. ctl' \in ControlStates
    BY <1>1, ControlMoves DEF DestroyJoin
  <1> QED
    BY <1>2, SameKeepsWorking DEF DestroyJoin, WorkersType, KeepsMoving

(* The loop of a job worker around the jobs; the flow of an executed job   *)
(* is the job's.                                                           *)
LEMMA LoopKeeps ==
    ASSUME NEW F, WorkersType(F), NEW e \in JobWorkers, JobWorkerLoop(e)
    PROVE  /\ WorkersType(F)'
           /\ \/ KeepsWorking
              \/ JobWorkerPop(e) /\ jobs # <<>> /\ jw[e].enable = 1
           /\ UNCHANGED <<pool, wk, ctl>>
           /\ \A d \in JobWorkers : d # e => jw'[d] = jw[d]
           /\ JobWorkerPop(e) \/ UNCHANGED <<jobs, lost>>
  <1>1. ASSUME NEW pc \in JobPCs, JobWorkerGoes(e, pc),
               UNCHANGED <<jobs, pool, lost, wk, ctl>>, jw[e].pc \in Resting,
               pc \in Resting
        PROVE  /\ WorkersType(F)' /\ KeepsWorking
               /\ \A d \in JobWorkers : d # e => jw'[d] = jw[d]
    <2>1. /\ jw' \in [JobWorkers -> JobWorkerStates(F)]
          /\ \A d \in JobWorkers :
                /\ jw'[d].pc = IF d = e THEN pc ELSE jw[d].pc
                /\ jw'[d].flow = jw[d].flow
          /\ \A d \in JobWorkers : d # e => jw'[d] = jw[d]
      BY <1>1, JobWorkerMoves
    <2> QED
      BY <1>1, <2>1 DEF WorkersType, KeepsWorking
  <1>2. CASE JobWorkerTop(e)
    <2> DEFINE pc == IF jw[e].enable = 1 THEN "gate" ELSE "off"
    <2>1. pc \in JobPCs /\ pc \in Resting /\ jw[e].pc \in Resting
      BY <1>2 DEF JobPCs, Resting, JobWorkerTop
    <2>2. JobWorkerGoes(e, pc) /\ UNCHANGED <<jobs, pool, lost, wk, ctl>>
      BY <1>2 DEF JobWorkerTop
    <2> HIDE DEF pc
    <2> QED
      BY <1>1, <2>1, <2>2
  <1>3. CASE JobWorkerSleep(e)
    <2>1. "asleep" \in JobPCs /\ "asleep" \in Resting /\ jw[e].pc \in Resting
      BY <1>3 DEF JobPCs, Resting, JobWorkerSleep
    <2> QED
      BY <1>1, <1>3, <2>1 DEF JobWorkerSleep
  <1>4. CASE JobWorkerRest(e)
    <2> DEFINE pc == IF NothingToDo(e) THEN "waiting" ELSE "top"
    <2>1. pc \in JobPCs /\ pc \in Resting /\ jw[e].pc \in Resting
      BY <1>4 DEF JobPCs, Resting, JobWorkerRest
    <2>2. JobWorkerGoes(e, pc) /\ UNCHANGED <<jobs, pool, lost, wk, ctl>>
      BY <1>4 DEF JobWorkerRest
    <2> HIDE DEF pc
    <2> QED
      BY <1>1, <2>1, <2>2
  <1>5. CASE JobWorkerGate(e)
    <2>1. PICK st \in {"pending", "running"}, pc \in {"committed", "pop"} :
            jw' = [jw EXCEPT ![e].state = st, ![e].pc = pc]
      BY <1>5 DEF JobWorkerGate
    <2>2. jw[e] \in JobWorkerStates(F)
      BY DEF WorkersType
    <2>3. [jw[e] EXCEPT !.state = st, !.pc = pc] \in JobWorkerStates(F)
          /\ [jw[e] EXCEPT !.state = st, !.pc = pc].pc = pc
      BY <2>2 DEF JobWorkerStates, JobPCs
    <2>4. jw' = [jw EXCEPT ![e] = [jw[e] EXCEPT !.state = st, !.pc = pc]]
      BY <2>1 DEF WorkersType
    <2>5. /\ jw' \in [JobWorkers -> JobWorkerStates(F)] /\ jw'[e].pc = pc
          /\ \A d \in JobWorkers : d # e => jw'[d] = jw[d]
      BY <2>3, <2>4 DEF WorkersType
    <2>6. KeepsWorking
      BY <1>5, <2>5 DEF KeepsWorking, Resting, JobWorkerGate
    <2> QED
      BY <1>5, <2>5, <2>6 DEF JobWorkerGate, WorkersType
  <1>6. CASE JobWorkerPop(e)
    <2>1. CASE jobs = <<>>
      <3>1. "rest" \in JobPCs /\ "rest" \in Resting /\ jw[e].pc \in Resting
        BY <1>6 DEF JobPCs, Resting, JobWorkerPop
      <3>2. JobWorkerGoes(e, "rest") /\ UNCHANGED <<jobs, pool, lost, wk, ctl>>
        BY <1>6, <2>1 DEF JobWorkerPop
      <3> QED
        BY <1>1, <1>6, <3>1, <3>2
    <2>2. CASE jobs # <<>>
      <3>1. Head(jobs) \in F /\ jobs' \in Seq(F)
        <4>1. jobs \in Seq(F) /\ jobs' = Tail(jobs)
          BY <1>6, <2>2 DEF JobWorkerPop, WorkersType
        <4>2. Head(jobs) \in F /\ Tail(jobs) \in Seq(F)
          BY <2>2, <4>1, HeadTailProperties
        <4> QED
          BY <4>1, <4>2
      <3>2. UNCHANGED <<pool, wk, ctl>>
        BY <1>6 DEF JobWorkerPop
      <3>3. CASE jw[e].enable = 1
        <4>1. jw' = [jw EXCEPT ![e].pc = "execute", ![e].flow = Head(jobs)]
              /\ UNCHANGED lost
          BY <1>6, <2>2, <3>3 DEF JobWorkerPop
        <4>2. jw[e] \in JobWorkerStates(F)
          BY DEF WorkersType
        <4>3. [jw[e] EXCEPT !.pc = "execute", !.flow = Head(jobs)]
                \in JobWorkerStates(F)
          BY <3>1, <4>2 DEF JobWorkerStates, JobPCs
        <4>4. jw' = [jw EXCEPT ![e] = [jw[e] EXCEPT !.pc = "execute",
                                                    !.flow = Head(jobs)]]
          BY <4>1 DEF WorkersType
        <4>5. /\ jw' \in [JobWorkers -> JobWorkerStates(F)]
              /\ \A d \in JobWorkers : d # e => jw'[d] = jw[d]
          BY <4>3, <4>4 DEF WorkersType
        <4> QED
          BY <1>6, <2>2, <3>1, <3>2, <3>3, <4>1, <4>5 DEF WorkersType
      <3>4. CASE jw[e].enable # 1
        <4>1. JobWorkerGoes(e, "rest") /\ lost' = Append(lost, Head(jobs))
          BY <1>6, <2>2, <3>4 DEF JobWorkerPop
        <4>2. lost' \in Seq(F)
          BY <3>1, <4>1, AppendProperties DEF WorkersType
        <4>3. "rest" \in JobPCs
          BY DEF JobPCs
        <4>4. /\ jw' \in [JobWorkers -> JobWorkerStates(F)]
              /\ \A d \in JobWorkers :
                /\ jw'[d].pc = IF d = e THEN "rest" ELSE jw[d].pc
                /\ jw'[d].flow = jw[d].flow
              /\ \A d \in JobWorkers : d # e => jw'[d] = jw[d]
          BY <4>1, <4>3, JobWorkerMoves
        <4>5. KeepsWorking
          BY <1>6, <4>4 DEF KeepsWorking, Resting, JobWorkerPop
        <4> QED
          BY <1>6, <3>1, <3>2, <4>2, <4>4, <4>5 DEF WorkersType
      <3> QED
        BY <3>3, <3>4
    <2> QED
      BY <2>1, <2>2
  <1> QED
    BY <1>1, <1>2, <1>3, <1>4, <1>5, <1>6
       DEF JobWorkerLoop, JobWorkerTop, JobWorkerSleep, JobWorkerRest, JobWorkerGate

(* The transfer worker at its gate. *)
LEMMA GateKeeps ==
    ASSUME NEW F, WorkersType(F), WorkerGate
    PROVE  /\ WorkersType(F)' /\ UNCHANGED <<jobs, jw, pool, lost, ctl>>
           /\ wk.pc = "gate" /\ wk'.pc \in {"asleep", "scan"}
  BY DEF WorkerGate, WorkersType, WorkerPCs

-----------------------------------------------------------------------------
(* The pool.  A job worker outside it is off, or is the one being removed, *)
(* which is told to pend and so does not wait for jobs; the workers of the *)
(* pool are enabled until destroy; as long as the pool did not grow it has *)
(* one worker.                                                             *)
Removing == ctl.pc \in {"remove_tell", "remove_wait", "remove_retell", "remove_join"}

PoolInv ==
    /\ NoRepeats(pool)
    /\ \A e \in JobWorkers :
        In(pool, e) \/ jw[e].pc = "off" \/ (Removing /\ e = ctl.who)
    /\ \A e \in JobWorkers :
        In(pool, e) => Destroying \/ (jw[e].enable = 1 /\ jw[e].pc # "off")
    /\ Removing =>
        /\ ctl.who \in JobWorkers /\ ~In(pool, ctl.who) /\ ctl.grown
        /\ jw[ctl.who].next = "pending"
        /\ jw[ctl.who].pc = "waiting" => ctl.pc = "remove_tell"
    /\ ctl.pc = "gone" <=> pool = <<>>
    /\ ctl.grown \/ Len(pool) <= 1

(* All workers of the pool sleep although there are jobs. *)
AllWait ==
    /\ jobs # <<>>
    /\ \A i \in DOMAIN pool : jw[pool[i]].pc = "waiting"
    /\ ctl.pc \notin {"remove_tell", "gone"}

(* The pool at the start. *)
LEMMA PoolInit ==
    ASSUME WorkersInit PROVE PoolInv
  <1>1. PICK e \in JobWorkers :
            /\ pool = <<e>>
            /\ jw = [d \in JobWorkers |-> IF d = e THEN NewJobWorker
                                      ELSE [NewJobWorker EXCEPT !.pc = "off"]]
    BY DEF WorkersInit
  <1>2. ctl.pc = "idle" /\ ~Removing
    BY DEF WorkersInit, Removing
  <1>3. DOMAIN pool = {1} /\ pool[1] = e /\ Len(pool) = 1 /\ pool # <<>>
    BY <1>1
  <1>4. \A d \in JobWorkers : In(pool, d) <=> d = e
    BY <1>3 DEF In
  <1>5. NoRepeats(pool)
    BY <1>3 DEF NoRepeats
  <1>6. /\ jw[e].enable = 1 /\ jw[e].pc # "off"
        /\ \A d \in JobWorkers : d # e => jw[d].pc = "off"
    BY <1>1 DEF NewJobWorker
  <1> QED
    BY <1>2, <1>3, <1>4, <1>5, <1>6 DEF PoolInv

(* Steps that do not stop a job worker, do not let one wait and leave the  *)
(* pool and control alone.                                                 *)
JobsKeepGoing ==
    /\ UNCHANGED <<pool, ctl>>
    /\ \A e \in JobWorkers :
        /\ jw'[e].enable = jw[e].enable /\ jw'[e].next = jw[e].next
        /\ jw'[e].pc = "off" <=> jw[e].pc = "off"
        /\ jw'[e].pc = "waiting" => jw[e].pc = "waiting"

(* What those steps keep. *)
LEMMA GoingKeeps ==
    ASSUME NEW F, WorkersType(F), PoolInv, JobsKeepGoing
    PROVE  PoolInv' /\ (UNCHANGED jobs => (AllWait' => AllWait))
  <1>1. Removing' = Removing /\ Destroying' = Destroying
        /\ \A e : In(pool, e)' = In(pool, e)
    BY DEF JobsKeepGoing, Removing, Destroying, In
  <1>2. PoolInv'
    BY <1>1 DEF PoolInv, JobsKeepGoing, NoRepeats
  <1>3. ASSUME UNCHANGED jobs, AllWait' PROVE AllWait
    <2>1. \A i \in DOMAIN pool : pool[i] \in JobWorkers
      BY SeqSteps DEF WorkersType
    <2> QED
      BY <1>3, <2>1 DEF AllWait, JobsKeepGoing
  <1> QED
    BY <1>2, <1>3

(* A signal wakes a worker of the pool, unless another is being removed.   *)
LEMMA SignalKeeps ==
    ASSUME NEW F, WorkersType(F), PoolInv, SignalEnqueue \/ Broadcast,
           UNCHANGED <<pool, ctl>>
    PROVE  JobsKeepGoing /\ ~AllWait'
  <1>1. /\ \A d \in JobWorkers :
                /\ \/ jw'[d].pc = jw[d].pc
                   \/ jw[d].pc = "waiting" /\ jw'[d].pc = "rest"
                /\ jw'[d].enable = jw[d].enable /\ jw'[d].next = jw[d].next
        /\ \/ \E d \in JobWorkers : jw[d].pc = "waiting" /\ jw'[d].pc = "rest"
           \/ \A d \in JobWorkers : jw[d].pc # "waiting"
    BY WakeTyped
  <1>2. JobsKeepGoing
    BY <1>1 DEF JobsKeepGoing
  <1>3. ASSUME AllWait' PROVE FALSE
    <2>1. \A i \in DOMAIN pool : jw'[pool[i]].pc = "waiting"
      BY <1>3 DEF AllWait
    <2>2. ctl.pc \notin {"remove_tell", "gone"}
      BY <1>3 DEF AllWait
    <2>3. pool # <<>> /\ pool \in Seq(JobWorkers)
      BY <2>2 DEF PoolInv, WorkersType
    <2>4. 1 \in DOMAIN pool /\ pool[1] \in JobWorkers
      BY <2>3, SeqSteps
    <2>5. PICK d \in JobWorkers : jw[d].pc = "waiting" /\ jw'[d].pc = "rest"
      BY <1>1, <2>1, <2>4
    <2>6. In(pool, d)
      BY <2>2, <2>5 DEF PoolInv
    <2> QED
      BY <2>1, <2>5, <2>6 DEF In
  <1> QED
    BY <1>2, <1>3

(* The loop of a job worker. *)
LEMMA LoopPool ==
    ASSUME NEW F, WorkersType(F), PoolInv, NEW e \in JobWorkers, JobWorkerLoop(e)
    PROVE  PoolInv' /\ (AllWait' => AllWait)
  <1>1. WorkersType(F)' /\ UNCHANGED <<pool, wk, ctl>>
        /\ \A d \in JobWorkers : d # e => jw'[d] = jw[d]
    BY LoopKeeps
  <1>2. pool \in Seq(JobWorkers) /\ \A i \in DOMAIN pool : pool[i] \in JobWorkers
    BY SeqSteps DEF WorkersType
  <1>3. CASE JobWorkerTop(e)
    <2>1. /\ jw'[e].pc = IF jw[e].enable = 1 THEN "gate" ELSE "off"
          /\ jw'[e].enable = jw[e].enable /\ jw'[e].next = jw[e].next
          /\ jw[e].pc = "top" /\ UNCHANGED jobs
      BY <1>3 DEF JobWorkerTop, JobWorkerGoes, WorkersType, JobWorkerStates
    <2>2. PoolInv'
      <3>1. Removing' = Removing /\ Destroying' = Destroying
            /\ \A d : In(pool, d)' = In(pool, d)
        BY <1>1 DEF Removing, Destroying, In
      <3> QED
        BY <1>1, <2>1, <3>1 DEF PoolInv, NoRepeats
    <2>3. ASSUME AllWait' PROVE AllWait
      <3>1. \A i \in DOMAIN pool : pool[i] # e
        BY <1>1, <2>1, <2>3 DEF AllWait
      <3> QED
        BY <1>1, <1>2, <2>1, <2>3, <3>1 DEF AllWait
    <2> QED
      BY <2>2, <2>3
  <1>4. CASE JobWorkerGate(e) \/ JobWorkerSleep(e)
    <2>1. /\ jw'[e].pc \in {"committed", "pop", "asleep"}
          /\ jw'[e].enable = jw[e].enable /\ jw'[e].next = jw[e].next
          /\ jw[e].pc \in {"gate", "committed"} /\ UNCHANGED jobs
      BY <1>4 DEF JobWorkerGate, JobWorkerSleep, JobWorkerGoes, WorkersType,
                  JobWorkerStates
    <2>2. JobsKeepGoing
      BY <1>1, <2>1 DEF JobsKeepGoing
    <2> QED
      BY <2>1, <2>2, GoingKeeps
  <1>5. CASE JobWorkerPop(e)
    <2>1. /\ jw'[e].pc \in {"rest", "execute"}
          /\ jw'[e].enable = jw[e].enable /\ jw'[e].next = jw[e].next
          /\ jw[e].pc = "pop"
      BY <1>5 DEF JobWorkerPop, JobWorkerGoes, WorkersType, JobWorkerStates
    <2>2. JobsKeepGoing
      BY <1>1, <2>1 DEF JobsKeepGoing
    <2>3. ASSUME AllWait' PROVE AllWait
      <3>1. \A i \in DOMAIN pool : pool[i] # e
        BY <1>1, <2>1, <2>3 DEF AllWait
      <3>2. jobs # <<>>
        BY <1>5, <2>3 DEF JobWorkerPop, AllWait
      <3> QED
        BY <1>1, <1>2, <2>3, <3>1, <3>2 DEF AllWait
    <2> QED
      BY <2>2, <2>3, GoingKeeps
  <1>6. CASE JobWorkerRest(e)
    <2>1. /\ jw'[e].pc = IF NothingToDo(e) THEN "waiting" ELSE "top"
          /\ jw'[e].enable = jw[e].enable /\ jw'[e].next = jw[e].next
          /\ jw[e].pc = "rest" /\ UNCHANGED jobs
      BY <1>6 DEF JobWorkerRest, JobWorkerGoes, WorkersType, JobWorkerStates
    <2>2. PoolInv'
      <3>1. Removing' = Removing /\ Destroying' = Destroying
            /\ \A d : In(pool, d)' = In(pool, d)
        BY <1>1 DEF Removing, Destroying, In
      <3>2. Removing /\ e = ctl.who => jw'[e].pc # "waiting"
        BY <2>1 DEF PoolInv, NothingToDo
      <3> QED
        BY <1>1, <2>1, <3>1, <3>2 DEF PoolInv, NoRepeats
    <2>3. ASSUME AllWait' PROVE AllWait
      <3>1. jobs # <<>> /\ jw'[e].pc # "waiting"
        BY <2>1, <2>3 DEF AllWait, NothingToDo
      <3>2. \A i \in DOMAIN pool : pool[i] # e
        BY <1>1, <2>3, <3>1 DEF AllWait
      <3> QED
        BY <1>1, <1>2, <2>3, <3>1, <3>2 DEF AllWait
    <2> QED
      BY <2>2, <2>3
  <1> QED
    BY <1>3, <1>4, <1>5, <1>6 DEF JobWorkerLoop

(* A spurious wake-up. *)
LEMMA WakeupPool ==
    ASSUME NEW F, WorkersType(F), PoolInv, SpuriousWakeup
    PROVE  PoolInv' /\ (AllWait' => AllWait)
  <1>1. JobsKeepGoing
    BY DEF SpuriousWakeup, JobWorkerGoes, WorkersType, JobWorkerStates, JobsKeepGoing
  <1>2. UNCHANGED jobs
    BY DEF SpuriousWakeup
  <1> QED
    BY <1>1, <1>2, GoingKeeps

(* A step of control that leaves the job workers and the pool alone and    *)
(* stays outside the removal of a worker and before the end of destroy.    *)
LEMMA ElsewherePool ==
    ASSUME NEW F, WorkersType(F), PoolInv, UNCHANGED <<jobs, jw, pool>>,
           ~Removing, ~Removing', ctl.pc # "gone", ctl'.pc # "gone",
           Destroying => Destroying', ctl.grown => ctl'.grown
    PROVE  PoolInv' /\ (AllWait' => AllWait)
  <1>1. \A d : In(pool, d)' = In(pool, d)
    BY DEF In
  <1>2. ctl.pc # "remove_tell"
    BY DEF Removing
  <1> QED
    BY <1>1, <1>2 DEF PoolInv, AllWait, NoRepeats

(* The steps of control between its requests, and the start of destroy.    *)
LEMMA ControlPool ==
    ASSUME NEW F, WorkersType(F), PoolInv, NEW locked \in BOOLEAN,
           Control(locked) \/ DestroyDisable
    PROVE  PoolInv' /\ (AllWait' => AllWait)
  <1>1. WorkersType(F)'
    BY ControlKeeps
  <1>2. CASE DisableSignal \/ StateEntered \/ DestroyWorker
    <2>1. /\ UNCHANGED <<jobs, jw, pool>> /\ ~Removing /\ ~Removing'
          /\ ctl.pc # "gone" /\ ctl'.pc # "gone" /\ ctl'.grown = ctl.grown
          /\ Destroying => Destroying'
      BY <1>2 DEF DisableSignal, StateEntered, DestroyWorker, Removing, Destroying,
                  WorkersType, ControlStates
    <2> QED
      BY <2>1, ElsewherePool
  <1>3. CASE RemoveTell
    <2>1. /\ Removing /\ Removing' /\ ~Destroying /\ ctl'.who = ctl.who
          /\ ctl'.grown = ctl.grown /\ ctl'.pc # "gone" /\ ctl.pc # "gone"
          /\ UNCHANGED <<jobs, pool>>
      BY <1>3 DEF RemoveTell, Removing, Destroying, WorkersType, ControlStates
    <2>2. /\ \A d \in JobWorkers :
                /\ \/ jw'[d].pc = jw[d].pc
                   \/ jw[d].pc = "waiting" /\ jw'[d].pc = "rest"
                /\ jw'[d].enable = jw[d].enable /\ jw'[d].next = jw[d].next
          /\ \A d \in JobWorkers : jw'[d].pc # "waiting"
      BY <1>3, WakeTyped DEF RemoveTell
    <2>3. \A d : In(pool, d)' = In(pool, d)
      BY <2>1 DEF In
    <2>4. PoolInv'
      BY <2>1, <2>2, <2>3 DEF PoolInv, NoRepeats
    <2>5. ~AllWait'
      <3>1. pool # <<>> /\ pool \in Seq(JobWorkers)
        BY <2>1 DEF PoolInv, WorkersType
      <3>2. 1 \in DOMAIN pool /\ pool[1] \in JobWorkers
        BY <3>1, SeqSteps
      <3> QED
        BY <2>1, <2>2, <3>2 DEF AllWait
    <2> QED
      BY <2>4, <2>5
  <1>4. CASE RemoveStop(locked)
    <2>1. /\ Removing /\ Removing' /\ ~Destroying /\ ctl'.who = ctl.who
          /\ ctl'.grown = ctl.grown /\ ctl'.pc # "gone" /\ ctl.pc # "gone"
          /\ UNCHANGED <<jobs, pool>> /\ ctl.pc # "remove_tell"
      BY <1>4 DEF RemoveStop, Removing, Destroying, WorkersType, ControlStates
    <2>2. \A d \in JobWorkers :
                /\ jw'[d].pc = IF d = ctl.who /\ jw[d].pc = "asleep" THEN "gate"
                               ELSE jw[d].pc
                /\ jw'[d].enable = IF d = ctl.who THEN 0 ELSE jw[d].enable
                /\ jw'[d].next = jw[d].next
      BY <1>4, JobWorkerStopped
    <2>3. \A d : In(pool, d)' = In(pool, d)
      BY <2>1 DEF In
    <2>4. PoolInv'
      BY <2>1, <2>2, <2>3 DEF PoolInv, NoRepeats
    <2>5. AllWait' => AllWait
      <3>1. \A i \in DOMAIN pool : pool[i] \in JobWorkers
        BY SeqSteps DEF WorkersType
      <3> QED
        BY <2>1, <2>2, <3>1 DEF AllWait
    <2> QED
      BY <2>4, <2>5
  <1>5. CASE RemoveJoin
    <2>1. /\ Removing /\ ~Removing' /\ ~Destroying /\ ~Destroying'
          /\ ctl'.grown = ctl.grown /\ ctl'.pc # "gone" /\ ctl.pc # "gone"
          /\ UNCHANGED <<jobs, jw, pool>> /\ ctl.pc # "remove_tell"
          /\ jw[ctl.who].pc = "off"
      BY <1>5 DEF RemoveJoin, Removing, Destroying, WorkersType, ControlStates
    <2>2. \A d : In(pool, d)' = In(pool, d)
      BY <2>1 DEF In
    <2> QED
      BY <2>1, <2>2 DEF PoolInv, NoRepeats, AllWait
  <1>6. CASE DestroyJobWorker
    <2>1. /\ ~Removing /\ ~Removing' /\ Destroying /\ Destroying'
          /\ ctl'.grown = ctl.grown /\ ctl'.pc # "gone" /\ ctl.pc # "gone"
          /\ UNCHANGED <<jobs, pool>> /\ ctl.pc # "remove_tell"
      BY <1>6 DEF DestroyJobWorker, Removing, Destroying, WorkersType, ControlStates
    <2>2. \A d \in JobWorkers :
            /\ jw'[d].pc = "waiting" <=> jw[d].pc = "waiting"
            /\ jw'[d].pc = "off" <=> jw[d].pc = "off"
      <3>1. PICK e : JobWorkerTo(e, "pending")
        BY <1>6 DEF DestroyJobWorker
      <3>2. \A d \in JobWorkers :
                jw'[d].pc = IF d = e /\ jw[d].pc = "asleep" THEN "gate"
                            ELSE jw[d].pc
        BY <3>1, JobWorkerTold
      <3> QED
        BY <3>2
    <2>3. \A d : In(pool, d)' = In(pool, d)
      BY <2>1 DEF In
    <2>4. PoolInv'
      BY <2>1, <2>2, <2>3 DEF PoolInv, NoRepeats
    <2>5. AllWait' => AllWait
      <3>1. \A i \in DOMAIN pool : pool[i] \in JobWorkers
        BY SeqSteps DEF WorkersType
      <3> QED
        BY <2>1, <2>2, <3>1 DEF AllWait
    <2> QED
      BY <2>4, <2>5
  <1>7. CASE DestroySignal
    <2>1. /\ ~Removing /\ ~Removing' /\ Destroying /\ Destroying'
          /\ ctl'.grown = ctl.grown /\ ctl'.pc # "gone" /\ ctl.pc # "gone"
          /\ UNCHANGED <<jobs, pool>> /\ ctl.pc # "remove_tell"
      BY <1>7 DEF DestroySignal, Removing, Destroying, WorkersType, ControlStates
    <2>2. /\ \A d \in JobWorkers :
                /\ \/ jw'[d].pc = jw[d].pc
                   \/ jw[d].pc = "waiting" /\ jw'[d].pc = "rest"
          /\ \/ \E d \in JobWorkers : jw[d].pc = "waiting" /\ jw'[d].pc = "rest"
             \/ \A d \in JobWorkers : jw[d].pc # "waiting"
      BY <1>7, WakeTyped DEF DestroySignal
    <2>3. \A d : In(pool, d)' = In(pool, d)
      BY <2>1 DEF In
    <2>4. PoolInv'
      BY <2>1, <2>2, <2>3 DEF PoolInv, NoRepeats
    <2>5. ASSUME AllWait' PROVE FALSE
      <3>1. \A i \in DOMAIN pool : jw'[pool[i]].pc = "waiting"
        BY <2>1, <2>5 DEF AllWait
      <3>2. pool # <<>> /\ pool \in Seq(JobWorkers)
        BY <2>1 DEF PoolInv, WorkersType
      <3>3. 1 \in DOMAIN pool /\ pool[1] \in JobWorkers
        BY <3>2, SeqSteps
      <3>4. PICK d \in JobWorkers : jw[d].pc = "waiting" /\ jw'[d].pc = "rest"
        BY <2>2, <3>1, <3>3
      <3>5. In(pool, d)
        BY <2>1, <3>4 DEF PoolInv
      <3> QED
        BY <3>1, <3>4, <3>5 DEF In
    <2> QED
      BY <2>4, <2>5
  <1>8. CASE DestroyDisable
    <2>1. /\ ~Removing /\ ~Removing' /\ ~Destroying /\ Destroying'
          /\ ctl'.grown = ctl.grown /\ ctl'.pc # "gone" /\ ctl.pc # "gone"
          /\ UNCHANGED <<jobs, pool>> /\ ctl.pc # "remove_tell"
      BY <1>8 DEF DestroyDisable, Removing, Destroying, WorkersType, ControlStates
    <2>2. \A d \in JobWorkers : jw'[d].pc = jw[d].pc
      BY <1>8 DEF DestroyDisable, WorkersType, JobWorkerStates
    <2>3. \A d : In(pool, d)' = In(pool, d)
      BY <2>1 DEF In
    <2>4. PoolInv'
      BY <2>1, <2>2, <2>3 DEF PoolInv, NoRepeats
    <2>5. AllWait' => AllWait
      <3>1. \A i \in DOMAIN pool : pool[i] \in JobWorkers
        BY SeqSteps DEF WorkersType
      <3> QED
        BY <2>1, <2>2, <3>1 DEF AllWait
    <2> QED
      BY <2>4, <2>5
  <1> QED
    BY <1>2, <1>3, <1>4, <1>5, <1>6, <1>7, <1>8 DEF Control

(* The requests of control. *)
LEMMA RequestPool ==
    ASSUME NEW F, 0 \in F, WorkersType(F), PoolInv, Request
    PROVE  PoolInv' /\ (AllWait' => AllWait)
  <1>1. CASE SetStreamEnable \/ SetStreamDisable
    <2>1. /\ UNCHANGED <<jobs, jw, pool>> /\ ~Removing /\ ~Removing'
          /\ ctl.pc # "gone" /\ ctl'.pc # "gone" /\ ctl'.grown = ctl.grown
          /\ Destroying => Destroying'
      BY <1>1 DEF SetStreamEnable, SetStreamDisable, ControlCall, Removing,
                  Destroying, WorkersType, ControlStates
    <2> QED
      BY <2>1, ElsewherePool
  <1>2. CASE AddJobWorker
    <2>1. PICK e \in JobWorkers :
            jw[e].pc = "off" /\ jw' = [jw EXCEPT ![e] = NewJobWorker]
            /\ pool' = Append(pool, e)
      BY <1>2 DEF AddJobWorker
    <2>2. /\ ~Removing /\ ~Removing' /\ ~Destroying /\ ctl'.grown
          /\ ctl'.pc # "gone" /\ ctl.pc # "gone"
      BY <1>2 DEF AddJobWorker, Removing, Destroying, WorkersType, ControlStates
    <2>3. ~In(pool, e)
      BY <2>1, <2>2 DEF PoolInv
    <2>4. /\ \A d : In(pool', d) <=> In(pool, d) \/ d = e
          /\ NoRepeats(pool')
      BY <2>1, <2>3, InAppended DEF WorkersType, PoolInv
    <2>5. pool' # <<>> /\ DOMAIN pool' = 1 .. Len(pool) + 1
          /\ pool'[Len(pool) + 1] = e /\ Len(pool) \in Nat
      <3>1. pool \in Seq(JobWorkers)
        BY DEF WorkersType
      <3> QED
        BY <2>1, <3>1, Appended, LenProperties, EmptySeq
    <2>6. /\ jw'[e].pc = "top" /\ jw'[e].enable = 1
          /\ \A d \in JobWorkers : d # e => jw'[d] = jw[d]
      BY <2>1 DEF NewJobWorker, WorkersType
    <2>7. \A d \in JobWorkers : In(pool, d)' <=> In(pool, d) \/ d = e
      BY <2>4 DEF In
    <2>8. PoolInv'
      BY <2>2, <2>4, <2>5, <2>6, <2>7 DEF PoolInv, NoRepeats
    <2>9. ~AllWait'
      <3>1. Len(pool) + 1 \in DOMAIN pool'
        BY <2>5
      <3> QED
        BY <2>5, <2>6, <3>1 DEF AllWait
    <2> QED
      BY <2>8, <2>9
  <1>3. CASE RemoveJobWorker
    <2> DEFINE e == Head(pool)
    <2>1. pool \in Seq(JobWorkers) /\ Len(pool) > 1 /\ pool' = Tail(pool)
      BY <1>3 DEF RemoveJobWorker, WorkersType
    <2>2. pool # <<>> /\ e \in JobWorkers /\ pool' # <<>>
      <3>1. pool # <<>>
        BY <2>1, EmptySeq
      <3>2. Len(pool') = Len(pool) - 1 /\ e \in JobWorkers
        BY <2>1, <3>1, HeadTailProperties
      <3>3. Len(pool') # 0
        BY <2>1, <3>2
      <3> QED
        BY <3>1, <3>2, <3>3, EmptySeq
    <2>3. /\ ~Removing /\ ctl'.grown /\ ctl'.pc = "remove_tell" /\ ctl'.who = e
          /\ ctl.pc = "idle" /\ ~Destroying /\ ~Destroying'
      <3>1. ctl.grown
        BY <2>1 DEF PoolInv
      <3> QED
        BY <1>3, <3>1 DEF RemoveJobWorker, Removing, Destroying, WorkersType, ControlStates
    <2>4. /\ \A d : In(pool, d) <=> In(pool', d) \/ d = e
          /\ NoRepeats(pool') /\ ~In(pool', e)
      BY <2>1, <2>2, InTail DEF PoolInv
    <2>5. \A d \in JobWorkers :
                /\ jw'[d].pc = IF d = e /\ jw[d].pc = "asleep" THEN "gate"
                               ELSE jw[d].pc
                /\ jw'[d].next = IF d = e THEN "pending" ELSE jw[d].next
                /\ jw'[d].enable = jw[d].enable
      <3>1. JobWorkerTo(e, "pending")
        BY <1>3 DEF RemoveJobWorker
      <3> QED
        BY <3>1, JobWorkerTold
    <2> HIDE DEF e
    <2>6. \A d \in JobWorkers : In(pool, d)' = In(pool', d)
      BY DEF In
    <2>7. Removing'
      BY <2>3 DEF Removing
    <2>8. PoolInv'
      <3>1. NoRepeats(pool)'
        BY <2>4 DEF NoRepeats
      <3>2. \A d \in JobWorkers :
              In(pool, d)' \/ jw'[d].pc = "off" \/ d = ctl'.who
        BY <2>3, <2>4, <2>5, <2>6 DEF PoolInv
      <3>3. \A d \in JobWorkers :
              In(pool, d)' => jw'[d].enable = 1 /\ jw'[d].pc # "off"
        BY <2>3, <2>4, <2>5, <2>6 DEF PoolInv
      <3>4. ctl'.who \in JobWorkers /\ ~In(pool, ctl.who)'
        BY <2>2, <2>3, <2>4 DEF In
      <3>5. jw'[ctl'.who].next = "pending"
        BY <2>2, <2>3, <2>5
      <3>6. ctl'.pc # "gone" /\ pool' # <<>> /\ ctl'.grown /\ ctl'.pc = "remove_tell"
        BY <2>2, <2>3
      <3> QED
        BY <2>7, <3>1, <3>2, <3>3, <3>4, <3>5, <3>6 DEF PoolInv
    <2>9. ~AllWait'
      BY <2>3 DEF AllWait
    <2> QED
      BY <2>8, <2>9
  <1> QED
    BY <1>1, <1>2, <1>3 DEF Request

(* The end of destroy: all job workers have left. *)
LEMMA JoinPool ==
    ASSUME NEW F, WorkersType(F), PoolInv, DestroyJoin
    PROVE  PoolInv' /\ ~AllWait'
  <1>1. /\ ~Removing' /\ Destroying' /\ ctl'.pc = "gone" /\ pool' = <<>>
        /\ ctl'.grown = ctl.grown /\ UNCHANGED jw
        /\ \A e \in JobWorkers : jw[e].pc = "off"
    BY DEF DestroyJoin, Removing, Destroying, WorkersType, ControlStates
  <1>2. Len(pool') = 0 /\ DOMAIN pool' = {}
    BY <1>1
  <1> QED
    BY <1>1, <1>2 DEF PoolInv, AllWait, NoRepeats, In

(* As long as the pool did not grow, at most one job worker runs; when all *)
(* is destroyed, none does.                                                *)
LEMMA AloneUnlessGrown ==
    ASSUME NEW F, WorkersType(F), PoolInv
    PROVE  /\ ctl.grown \/ \A d, e \in JobWorkers :
                jw[d].pc # "off" /\ jw[e].pc # "off" => d = e
           /\ ctl.pc = "gone" => \A e \in JobWorkers : jw[e].pc = "off"
  <1>1. ASSUME ~ctl.grown, NEW d \in JobWorkers, NEW e \in JobWorkers,
               jw[d].pc # "off", jw[e].pc # "off"
        PROVE  d = e
    <2>1. In(pool, d) /\ In(pool, e) /\ Len(pool) <= 1
      BY <1>1 DEF PoolInv
    <2>2. Len(pool) \in Nat /\ DOMAIN pool = 1 .. Len(pool)
      BY LenProperties DEF WorkersType
    <2> QED
      BY <2>1, <2>2 DEF In
  <1>2. ASSUME ctl.pc = "gone", NEW e \in JobWorkers PROVE jw[e].pc = "off"
    <2>1. pool = <<>> /\ ~Removing
      BY <1>2 DEF PoolInv, Removing
    <2>2. ~In(pool, e)
      BY <2>1 DEF In
    <2> QED
      BY <2>1, <2>2 DEF PoolInv
  <1> QED
    BY <1>1, <1>2

(* How far control is: destroy begins with DestroyDisable and ends with    *)
(* DestroyJoin, and the pool is never said not to have grown.              *)
LEMMA ControlMarks ==
    ASSUME NEW F, WorkersType(F), NEW locked \in BOOLEAN
    PROVE  /\ SpuriousWakeup \/ Control(locked) \/ Request =>
                /\ (Destroying' <=> Destroying) /\ (ctl'.pc = "gone" <=> ctl.pc = "gone")
                /\ ctl.grown => ctl'.grown
                /\ UNCHANGED <<jobs, lost>>
           /\ DestroyDisable =>
                /\ Destroying' /\ ctl'.pc # "gone" /\ ctl.pc # "gone"
                /\ ctl'.grown = ctl.grown
                /\ UNCHANGED <<jobs, lost>>
           /\ DestroyJoin =>
                /\ Destroying /\ Destroying' /\ ctl'.pc = "gone" /\ ctl.pc # "gone"
                /\ ctl'.grown = ctl.grown /\ UNCHANGED lost
                /\ \A e \in JobWorkers : jw[e].pc = "off"
  <1>1. ASSUME SpuriousWakeup \/ Control(locked) \/ Request
        PROVE  /\ (Destroying' <=> Destroying) /\ (ctl'.pc = "gone" <=> ctl.pc = "gone")
               /\ ctl.grown => ctl'.grown
               /\ UNCHANGED <<jobs, lost>>
    <2>1. CASE SpuriousWakeup
      BY <2>1 DEF SpuriousWakeup, Destroying
    <2>2. CASE Control(locked)
      <3>1. CASE DisableSignal \/ StateEntered
        BY <3>1 DEF DisableSignal, StateEntered, Destroying, WorkersType, ControlStates
      <3>2. CASE RemoveTell \/ RemoveStop(locked) \/ RemoveJoin
        BY <3>2 DEF RemoveTell, RemoveStop, RemoveJoin, Destroying, WorkersType,
                    ControlStates
      <3>3. CASE DestroyWorker \/ DestroyJobWorker \/ DestroySignal
        BY <3>3 DEF DestroyWorker, DestroyJobWorker, DestroySignal, Destroying,
                    WorkersType, ControlStates
      <3> QED
        BY <2>2, <3>1, <3>2, <3>3 DEF Control
    <2>3. CASE Request
      <3>1. CASE SetStreamEnable \/ SetStreamDisable
        BY <3>1 DEF SetStreamEnable, SetStreamDisable, ControlCall, Destroying,
                    WorkersType, ControlStates
      <3>2. CASE AddJobWorker
        BY <3>2 DEF AddJobWorker, Destroying, WorkersType, ControlStates
      <3>3. CASE RemoveJobWorker
        BY <3>3 DEF RemoveJobWorker, Destroying, WorkersType, ControlStates
      <3> QED
        BY <2>3, <3>1, <3>2, <3>3 DEF Request
    <2> QED
      BY <1>1, <2>1, <2>2, <2>3
  <1>2. ASSUME DestroyDisable \/ DestroyJoin
        PROVE  /\ Destroying' /\ ctl.pc # "gone" /\ ctl'.grown = ctl.grown
               /\ UNCHANGED lost
               /\ DestroyDisable => ctl'.pc # "gone" /\ UNCHANGED jobs
               /\ DestroyJoin => /\ Destroying /\ ctl'.pc = "gone"
                                 /\ \A e \in JobWorkers : jw[e].pc = "off"
    BY <1>2 DEF DestroyDisable, DestroyJoin, Destroying, WorkersType, ControlStates
  <1> QED
    BY <1>1, <1>2

(* No job is discarded as long as there is one job worker, which only      *)
(* destroy stops.                                                          *)
NoneDiscarded == ~ctl.grown /\ ~Destroying => lost = <<>>

(* Every step of the job workers' loop and of control keeps that.          *)
LEMMA NoneDiscardedStays ==
    ASSUME NEW F, WorkersType(F), PoolInv, NoneDiscarded, NEW locked \in BOOLEAN,
           \/ UNCHANGED <<lost, ctl>>
           \/ \E e \in JobWorkers : JobWorkerLoop(e)
           \/ SpuriousWakeup \/ Control(locked) \/ Request
           \/ DestroyDisable \/ DestroyJoin
    PROVE  NoneDiscarded'
  <1>1. CASE UNCHANGED <<lost, ctl>>
    BY <1>1 DEF NoneDiscarded, Destroying
  <1>2. ASSUME NEW e \in JobWorkers, JobWorkerLoop(e) PROVE NoneDiscarded'
    <2>1. CASE JobWorkerTop(e) \/ JobWorkerGate(e) \/ JobWorkerSleep(e) \/ JobWorkerRest(e)
      <3>1. UNCHANGED <<lost, ctl>>
        BY <2>1 DEF JobWorkerTop, JobWorkerGate, JobWorkerSleep, JobWorkerRest
      <3> QED
        BY <3>1 DEF NoneDiscarded, Destroying
    <2>2. CASE JobWorkerPop(e)
      <3>1. UNCHANGED ctl /\ jw[e].pc = "pop"
        BY <2>2 DEF JobWorkerPop
      <3>2. ~ctl.grown /\ ~Destroying => jw[e].enable = 1
        BY <3>1 DEF PoolInv
      <3>3. jw[e].enable = 1 => UNCHANGED lost
        BY <2>2 DEF JobWorkerPop
      <3> QED
        BY <3>1, <3>2, <3>3 DEF NoneDiscarded, Destroying
    <2> QED
      BY <1>2, <2>1, <2>2 DEF JobWorkerLoop
  <1>3. CASE SpuriousWakeup \/ Control(locked) \/ Request
    <2>1. (Destroying' <=> Destroying) /\ (ctl.grown => ctl'.grown) /\ UNCHANGED lost
      BY <1>3, ControlMarks
    <2> QED
      BY <2>1 DEF NoneDiscarded
  <1>4. CASE DestroyDisable \/ DestroyJoin
    <2>1. Destroying'
      BY <1>4, ControlMarks
    <2> QED
      BY <2>1 DEF NoneDiscarded
  <1> QED
    BY <1>1, <1>2, <1>3, <1>4

(* A transfer worker that waits although its stream is to stop has a       *)
(* signal coming.                                                          *)
StopSignalled ==
    wk.pc = "waiting" /\ ~Running => ctl.pc \in {"disable_signal", "stop", "unblock"}

(* Control sends that signal. *)
LEMMA ControlStopSignalled ==
    ASSUME NEW F, WorkersType(F), NEW locked \in BOOLEAN, StopSignalled,
           SpuriousWakeup \/ Control(locked) \/ Request \/ DestroyDisable
    PROVE  StopSignalled'
  <1>1. CASE SpuriousWakeup
    BY <1>1 DEF SpuriousWakeup, StopSignalled, Running, WorkersType
  <1>2. CASE Control(locked)
    BY <1>2 DEF Control, DisableSignal, StateEntered, RemoveTell, RemoveStop,
                RemoveJoin, DestroyWorker, DestroyJobWorker, DestroySignal,
                SignalNewRows, WorkerTo, StopSignalled, Running, WorkersType,
                ControlStates
  <1>3. CASE Request \/ DestroyDisable
    BY <1>3 DEF Request, SetStreamEnable, SetStreamDisable, ControlCall,
                AddJobWorker, RemoveJobWorker, DestroyDisable, WorkerTo,
                StopSignalled, Running, WorkersType, ControlStates
  <1> QED
    BY <1>1, <1>2, <1>3
=============================================================================
