-------------------------- MODULE TurnQueueProofs --------------------------
(***************************************************************************)
(* That turns start in order, in their own session, and not during a       *)
(* switch or after teardown, for any number of submissions and runs.       *)
(*                                                                         *)
(* The invariants hang together.  The queue is empty whenever no turn is   *)
(* active, and the promise of a submission says where it is (Placed).  A   *)
(* switch starts without an active turn and stops every live run; from     *)
(* then on nothing can submit: prompts are off screen, no turn launches a  *)
(* run, and a stopped run ends silently (SwitchInv).  Teardown takes the   *)
(* notifier away for good (TeardownInv).  So the store rotates only under  *)
(* runs that no longer report, and every other live run is at home in it   *)
(* (AtHome).                                                               *)
(*                                                                         *)
(* At the end: what the turns can call of the MCP servers (McpClients).    *)
(***************************************************************************)
EXTENDS TurnQueue, McpClients, TLAPS, SequenceTheorems, WellFoundedInduction

NoTwice(q) == \A i, j \in DOMAIN q : q[i] = q[j] => i = j

Going(r) == bg[r] \in {"waiting", "running"}

Placed ==
  /\ active = Nobody <=> phase = "idle"
  /\ active = Nobody => queue = <<>>
  /\ active # Nobody => outcome[active] = "running"
  /\ \A i \in DOMAIN queue : outcome[queue[i]] = "queued"
  /\ NoTwice(queue)
  /\ \A r \in Runs : bg[r] # "done" => outcome[r] = "new"

Slotted ==
  /\ \A k \in DOMAIN waiters : bg[waiters[k]] = "waiting"
  /\ NoTwice(waiters)

SwitchInv ==
  switching # "no" => /\ active = Nobody
                      /\ \A r \in Runs : Going(r) => r \in stopped

TeardownInv ==
  /\ teardown # "no" => ~notifier
  /\ teardown = "closed" /\ ~forced => active = Nobody

AtHome == \A r \in Runs : Going(r) /\ r \notin stopped => home[r] = store

IInv == /\ TypeOK /\ Placed /\ Slotted /\ SwitchInv /\ TeardownInv /\ AtHome
        /\ QueuedSteerPreempts /\ ReportsStayHome

-----------------------------------------------------------------------------
(* Sequences.                                                              *)

(* RemoveAt shifts what comes after the removed position.                  *)
LEMMA Removed ==
  ASSUME NEW S, NEW q \in Seq(S), NEW i \in 1..Len(q)
  PROVE  /\ RemoveAt(q, i) \in Seq(S)
         /\ Len(RemoveAt(q, i)) = Len(q) - 1
         /\ \A k \in 1..(Len(q) - 1) :
              RemoveAt(q, i)[k] = IF k < i THEN q[k] ELSE q[k + 1]
<1> DEFINE a == SubSeq(q, 1, i - 1)
           b == SubSeq(q, i + 1, Len(q))
<1>1. Len(q) \in Nat /\ \A k \in 1..Len(q) : q[k] \in S
  BY ElementOfSeq
<1>2. /\ a \in Seq(S) /\ Len(a) = i - 1
      /\ \A k \in 1..(i - 1) : a[k] = q[k]
  <2>1. \A k \in 1..(i - 1) : q[k] \in S
    BY <1>1
  <2>2. 1 \in Int /\ i - 1 \in Int
    OBVIOUS
  <2>3. /\ a \in Seq(S)
        /\ Len(a) = IF 1 <= i - 1 THEN (i - 1) - 1 + 1 ELSE 0
        /\ \A k \in 1..((i - 1) - 1 + 1) : a[k] = q[1 + k - 1]
    BY <2>1, <2>2, SubSeqProperties
  <2> QED
    BY <2>3
<1>3. /\ b \in Seq(S) /\ Len(b) = Len(q) - i
      /\ \A k \in 1..(Len(q) - i) : b[k] = q[i + k]
  <2>1. \A k \in (i + 1)..Len(q) : q[k] \in S
    BY <1>1
  <2>2. i + 1 \in Int /\ Len(q) \in Int
    BY <1>1
  <2>3. /\ b \in Seq(S)
        /\ Len(b) = IF i + 1 <= Len(q) THEN Len(q) - (i + 1) + 1 ELSE 0
        /\ \A k \in 1..(Len(q) - (i + 1) + 1) : b[k] = q[(i + 1) + k - 1]
    BY <2>1, <2>2, SubSeqProperties
  <2> QED
    BY <1>1, <2>3
<1>4. /\ a \o b \in Seq(S)
      /\ Len(a \o b) = Len(a) + Len(b)
      /\ \A k \in 1..(Len(a) + Len(b)) :
           (a \o b)[k] = IF k <= Len(a) THEN a[k] ELSE b[k - Len(a)]
  BY <1>2, <1>3, ConcatProperties
<1>5. RemoveAt(q, i) = a \o b
  BY DEF RemoveAt
<1> HIDE DEF a, b
<1>6. \A k \in 1..(Len(q) - 1) :
        (a \o b)[k] = IF k < i THEN q[k] ELSE q[k + 1]
  <2> TAKE k \in 1..(Len(q) - 1)
  <2>1. (a \o b)[k] = IF k <= Len(a) THEN a[k] ELSE b[k - Len(a)]
    BY <1>1, <1>2, <1>3, <1>4
  <2>2. CASE k < i
    BY <2>1, <2>2, <1>1, <1>2
  <2>3. CASE ~(k < i)
    <3>1. k - Len(a) \in 1..(Len(q) - i) /\ i + (k - Len(a)) = k + 1
      BY <2>3, <1>1, <1>2
    <3>2. (a \o b)[k] = b[k - Len(a)]
      BY <2>1, <2>3, <1>1, <1>2
    <3> QED
      BY <3>1, <3>2, <2>3, <1>3
  <2> QED
    BY <2>2, <2>3
<1> QED
  BY <1>1, <1>2, <1>3, <1>4, <1>5, <1>6

(* Removing, appending and taking the tail repeat nothing.                 *)
LEMMA RemovedOnce ==
  ASSUME NEW S, NEW q \in Seq(S), NEW i \in 1..Len(q), NoTwice(q)
  PROVE  /\ NoTwice(RemoveAt(q, i))
         /\ \A k \in DOMAIN RemoveAt(q, i) :
              \E j \in DOMAIN q : j # i /\ RemoveAt(q, i)[k] = q[j]
<1> DEFINE r == RemoveAt(q, i)
<1>1. /\ r \in Seq(S) /\ Len(r) = Len(q) - 1
      /\ \A k \in 1..(Len(q) - 1) : r[k] = IF k < i THEN q[k] ELSE q[k + 1]
  BY Removed
<1>2. /\ Len(q) \in Nat /\ DOMAIN q = 1..Len(q)
      /\ DOMAIN r = 1..(Len(q) - 1)
  BY <1>1
<1> HIDE DEF r
<1>3. NoTwice(r)
  <2> SUFFICES ASSUME NEW k \in DOMAIN r, NEW l \in DOMAIN r, r[k] = r[l]
               PROVE  k = l
    BY DEF NoTwice
  <2>1. \A m, n \in 1..Len(q) : q[m] = q[n] => m = n
    BY <1>2 DEF NoTwice
  <2>2. k \in 1..(Len(q) - 1) /\ l \in 1..(Len(q) - 1)
    BY <1>2
  <2> DEFINE from(m) == IF m < i THEN m ELSE m + 1
  <2>3. r[k] = q[from(k)] /\ r[l] = q[from(l)]
    BY <1>1, <2>2
  <2>4. from(k) \in 1..Len(q) /\ from(l) \in 1..Len(q)
    BY <1>2, <2>2
  <2>5. from(k) = from(l)
    <3> HIDE DEF from
    <3> QED
      BY <2>1, <2>3, <2>4
  <2> QED
    BY <2>2, <2>5
<1>4. ASSUME NEW k \in DOMAIN r
      PROVE  \E j \in DOMAIN q : j # i /\ r[k] = q[j]
  <2>1. CASE k < i
    BY <2>1, <1>1, <1>2
  <2>2. CASE ~(k < i)
    BY <2>2, <1>1, <1>2
  <2> QED
    BY <2>1, <2>2
<1> QED
  BY <1>3, <1>4 DEF r

LEMMA AppendedOnce ==
  ASSUME NEW S, NEW q \in Seq(S), NEW s \in S, NoTwice(q),
         \A i \in DOMAIN q : q[i] # s
  PROVE  /\ NoTwice(Append(q, s))
         /\ \A i \in DOMAIN Append(q, s) :
              Append(q, s)[i] = s \/ \E j \in DOMAIN q : Append(q, s)[i] = q[j]
BY DEF NoTwice

LEMMA TailOnce ==
  ASSUME NEW S, NEW q \in Seq(S), q # <<>>, NoTwice(q)
  PROVE  /\ Tail(q) \in Seq(S) /\ NoTwice(Tail(q))
         /\ Head(q) = q[1] /\ 1 \in DOMAIN q
         /\ \A k \in DOMAIN Tail(q) :
              \E j \in DOMAIN q : j # 1 /\ Tail(q)[k] = q[j]
<1>1. /\ Tail(q) \in Seq(S) /\ Len(Tail(q)) = Len(q) - 1
      /\ \A k \in 1..Len(Tail(q)) : Tail(q)[k] = q[k + 1]
  BY HeadTailProperties
<1>2. /\ Len(q) \in Nat \ {0} /\ DOMAIN q = 1..Len(q)
      /\ DOMAIN Tail(q) = 1..(Len(q) - 1)
  BY <1>1, EmptySeq
<1>3. NoTwice(Tail(q))
  BY <1>1, <1>2 DEF NoTwice
<1>4. \A k \in DOMAIN Tail(q) : k + 1 \in DOMAIN q /\ k + 1 # 1 /\ Tail(q)[k] = q[k + 1]
  BY <1>1, <1>2
<1> QED
  BY <1>1, <1>2, <1>3, <1>4

(* A non-empty set of naturals has a least element.                        *)
LEMMA Least ==
  ASSUME NEW S \in SUBSET Nat, S # {}
  PROVE  \E m \in S : \A n \in S : m <= n
<1>1. PICK m \in S : \A n \in S : ~(<<n, m>> \in OpToRel(<, Nat))
  BY NatLessThanWellFounded, WFMin
<1>2. ASSUME NEW n \in S PROVE m <= n
  <2>1. m \in Nat /\ n \in Nat
    OBVIOUS
  <2>2. n < m => <<n, m>> \in OpToRel(<, Nat)
    BY <2>1 DEF OpToRel
  <2>3. ~(n < m)
    BY <1>1, <2>2
  <2> QED
    BY <2>1, <2>3
<1> QED
  BY <1>2

-----------------------------------------------------------------------------
(* The queue.                                                              *)

(* takeNextSubmit finds a submission that outranks the others, the first   *)
(* of its tier.                                                            *)
LEMMA NextSubmitFound ==
  ASSUME NEW q \in Seq(Submissions), q # <<>>, NEW t \in [Submissions -> Tiers]
  PROVE  /\ NextSubmit(q, t) \in DOMAIN q
         /\ \A j \in DOMAIN q :
              \/ Rank(q[NextSubmit(q, t)], t) < Rank(q[j], t)
              \/ /\ Rank(q[NextSubmit(q, t)], t) = Rank(q[j], t)
                 /\ NextSubmit(q, t) <= j
<1> DEFINE rank(i) == Rank(q[i], t)
           ranks == {rank(i) : i \in DOMAIN q}
<1>1. /\ Len(q) \in Nat \ {0} /\ DOMAIN q = 1..Len(q)
      /\ \A i \in DOMAIN q : q[i] \in Submissions
  BY EmptySeq, ElementOfSeq
<1>2. \A i \in DOMAIN q : rank(i) \in Nat
  BY <1>1 DEF Rank, SUBMIT_PRIORITY_ORDER, Tiers
<1>3. PICK least \in ranks : \A n \in ranks : least <= n
  <2>1. ranks \in SUBSET Nat /\ ranks # {}
    BY <1>1, <1>2
  <2> HIDE DEF ranks
  <2> QED
    BY <2>1, Least
<1> DEFINE top == {i \in DOMAIN q : rank(i) = least}
<1>4. PICK first \in top : \A j \in top : first <= j
  <2>1. top \in SUBSET Nat /\ top # {}
    BY <1>1, <1>3
  <2> HIDE DEF top
  <2> QED
    BY <2>1, Least
<1>5. /\ first \in DOMAIN q
      /\ \A j \in DOMAIN q : \/ rank(first) < rank(j)
                             \/ rank(first) = rank(j) /\ first <= j
  <2>1. first \in DOMAIN q /\ rank(first) = least
    BY <1>4
  <2>2. ASSUME NEW j \in DOMAIN q
        PROVE  rank(first) < rank(j) \/ (rank(first) = rank(j) /\ first <= j)
    <3>1. least <= rank(j) /\ rank(j) \in Nat /\ least \in Nat
      BY <1>2, <1>3, <2>1
    <3>2. rank(j) = least => first <= j
      BY <1>4
    <3> HIDE DEF rank
    <3> QED
      BY <2>1, <3>1, <3>2
  <2> QED
    BY <2>1, <2>2
<1> QED
  BY <1>5 DEF NextSubmit

(* The active submission came from q and outranks what the queue keeps.    *)
Chosen(q, t) ==
  \E n \in DOMAIN q :
    /\ active' = q[n]
    /\ \A i \in DOMAIN queue' : \E j \in DOMAIN q :
         /\ j # n /\ queue'[i] = q[j]
         /\ \/ Rank(q[n], t) < Rank(q[j], t)
            \/ Rank(q[n], t) = Rank(q[j], t) /\ n < j

Outcomes == {"new", "queued", "running"} \cup Statuses

(* What one step of the drain does to a queue whose members wait for their *)
(* turn: it ends with none left, or starts the one that outranks the rest. *)
LEMMA Drained ==
  ASSUME NEW q \in Seq(Submissions), NEW t \in [Submissions -> Tiers],
         NEW settled \in [Submissions -> Outcomes],
         NoTwice(q), \A i \in DOMAIN q : settled[q[i]] = "queued",
         fresh \in BOOLEAN,
         Drain(q, t, settled)
  PROVE  /\ queue' \in Seq(Submissions) /\ NoTwice(queue')
         /\ outcome' \in [Submissions -> Outcomes]
         /\ \A i \in DOMAIN queue' : outcome'[queue'[i]] = "queued"
         /\ aborted' = FALSE /\ status' = "failed" /\ fresh' \in BOOLEAN
         /\ \/ /\ active' = Nobody /\ phase' = "idle"
               /\ q = <<>> /\ queue' = <<>> /\ outcome' = settled
            \/ /\ active' \in Submissions /\ phase' = "hook"
               /\ outcome' = [settled EXCEPT ![active'] = "running"]
               /\ Chosen(q, t)
<1>1. CASE q = <<>>
  BY <1>1 DEF Drain, NoTwice
<1>2. CASE q # <<>>
  <2> DEFINE n == NextSubmit(q, t)
  <2>1. /\ n \in DOMAIN q
        /\ \A j \in DOMAIN q : \/ Rank(q[n], t) < Rank(q[j], t)
                               \/ Rank(q[n], t) = Rank(q[j], t) /\ n <= j
    BY <1>2, NextSubmitFound
  <2>2. /\ queue' = RemoveAt(q, n)
        /\ outcome' = [settled EXCEPT ![q[n]] = "running"]
        /\ active' = q[n] /\ phase' = "hook"
        /\ aborted' = FALSE /\ status' = "failed" /\ fresh' = FALSE
    BY <1>2 DEF Drain
  <2> HIDE DEF n
  <2>3. n \in 1..Len(q) /\ q[n] \in Submissions /\ DOMAIN q = 1..Len(q)
    BY <2>1, ElementOfSeq
  <2>4. queue' \in Seq(Submissions)
    BY <2>2, <2>3, Removed
  <2>5. /\ NoTwice(queue')
        /\ \A k \in DOMAIN queue' : \E j \in DOMAIN q : j # n /\ queue'[k] = q[j]
    BY <2>2, <2>3, RemovedOnce
  <2>6. outcome' \in [Submissions -> Outcomes]
    BY <2>2, <2>3 DEF Outcomes
  <2>7. ASSUME NEW k \in DOMAIN queue' PROVE outcome'[queue'[k]] = "queued"
    <3>1. PICK j \in DOMAIN q : j # n /\ queue'[k] = q[j]
      BY <2>5
    <3>2. q[j] # q[n] /\ q[j] \in Submissions
      BY <3>1, <2>1, <2>3, ElementOfSeq DEF NoTwice
    <3> QED
      BY <3>1, <3>2, <2>2
  <2>8. ASSUME NEW k \in DOMAIN queue'
        PROVE  \E j \in DOMAIN q :
                 /\ j # n /\ queue'[k] = q[j]
                 /\ \/ Rank(q[n], t) < Rank(q[j], t)
                    \/ Rank(q[n], t) = Rank(q[j], t) /\ n < j
    <3>1. PICK j \in DOMAIN q : j # n /\ queue'[k] = q[j]
      BY <2>5
    <3>2. \/ Rank(q[n], t) < Rank(q[j], t)
          \/ Rank(q[n], t) = Rank(q[j], t) /\ n <= j
      BY <2>1
    <3>3. n <= j => n < j
      BY <3>1, <2>3
    <3> QED
      BY <3>1, <3>2, <3>3
  <2> QED
    BY <2>1, <2>2, <2>3, <2>4, <2>5, <2>6, <2>7, <2>8 DEF Chosen
<1> QED
  BY <1>1, <1>2

(* A submission nobody has seen joins the queue, or its turn starts.       *)
LEMMA Enqueued ==
  ASSUME IInv, NEW s \in Submissions, NEW p \in {"next", "later"},
         outcome[s] = "new",
         \A r \in Runs : bg'[r] # "done" => r # s /\ bg[r] # "done",
         Enqueue(s, p)
  PROVE  /\ queue' \in Seq(Submissions) /\ tier' \in [Submissions -> Tiers]
         /\ outcome' \in [Submissions -> Outcomes]
         /\ active' \in Submissions \cup {Nobody}
         /\ phase' \in {"idle", "hook", "loop", "tail"}
         /\ aborted' \in BOOLEAN /\ status' \in Statuses /\ fresh' \in BOOLEAN
         /\ Placed' /\ QueuedSteerPreempts'
         /\ \A i \in DOMAIN queue' :
              queue'[i] = s \/ \E j \in DOMAIN queue : queue'[i] = queue[j]
         /\ \/ active # Nobody /\ active' = active /\ aborted' = aborted
            \/ active = Nobody /\ active' = s
<1> DEFINE q == Append(queue, s)
           t == [tier EXCEPT ![s] = p]
           o == [outcome EXCEPT ![s] = "queued"]
<1>0. /\ queue \in Seq(Submissions) /\ tier \in [Submissions -> Tiers]
      /\ outcome \in [Submissions -> Outcomes] /\ fresh \in BOOLEAN
      /\ active \in Submissions \cup {Nobody} /\ aborted \in BOOLEAN
      /\ phase \in {"idle", "hook", "loop", "tail"} /\ status \in Statuses
      /\ Nobody \notin Submissions
  BY SubmissionsAssumption DEF IInv, TypeOK, Outcomes, Submissions
<1>1. /\ Placed /\ QueuedSteerPreempts
      /\ \A i \in DOMAIN queue : queue[i] \in Submissions /\ queue[i] # s
      /\ active # s
  <2>1. \A i \in DOMAIN queue : queue[i] \in Submissions
    BY <1>0, ElementOfSeq
  <2> QED
    BY <1>0, <2>1 DEF IInv, Placed
<1>2. /\ q \in Seq(Submissions) /\ NoTwice(q)
      /\ \A i \in DOMAIN q : q[i] = s \/ \E j \in DOMAIN queue : q[i] = queue[j]
  BY <1>0, <1>1, AppendedOnce DEF Placed
<1>3. t \in [Submissions -> Tiers] /\ o \in [Submissions -> Outcomes]
  BY <1>0 DEF Tiers, Outcomes
<1>4. \A i \in DOMAIN q : o[q[i]] = "queued"
  BY <1>0, <1>1, <1>2 DEF Placed
<1>5. tier' = t
  BY DEF Enqueue
<1>6. CASE active # Nobody
  <2>1. /\ queue' = q /\ outcome' = o /\ active' = active /\ phase' = phase
        /\ aborted' = aborted /\ status' = status /\ fresh' = fresh
    BY <1>6 DEF Enqueue
  <2> HIDE DEF q, o
  <2>2. Placed'
    <3>1. \A x \in Submissions : x # s => o[x] = outcome[x]
      BY <1>0 DEF o
    <3>2. \A r \in Runs : bg'[r] # "done" => o[r] = "new"
      BY <1>1, <3>1 DEF Placed, Submissions
    <3>3. o[active] = "running"
      BY <1>0, <1>1, <1>6, <3>1 DEF Placed
    <3> QED
      BY <1>1, <1>2, <1>4, <1>6, <2>1, <3>2, <3>3 DEF Placed
  <2>3. QueuedSteerPreempts'
    <3>1. t[s] # "now" /\ \A x \in Submissions : x # s => t[x] = tier[x]
      BY <1>0
    <3> HIDE DEF t
    <3> QED
      BY <1>0, <1>1, <1>2, <1>5, <1>6, <2>1, <3>1 DEF QueuedSteerPreempts
  <2> QED
    BY <1>0, <1>2, <1>3, <1>5, <1>6, <2>1, <2>2, <2>3
<1>7. CASE active = Nobody
  <2>1. /\ queue = <<>> /\ q = <<s>>
        /\ q # <<>> /\ DOMAIN q = {1} /\ q[1] = s
    <3>1. queue = <<>>
      BY <1>1, <1>7 DEF Placed
    <3>2. q = <<s>>
      BY <3>1
    <3> HIDE DEF q
    <3>3. Len(q) = 1 /\ DOMAIN q = {1} /\ q[1] = s
      BY <3>2
    <3>4. q # <<>>
      BY <3>3, EmptySeq
    <3> QED
      BY <3>1, <3>2, <3>3, <3>4
  <2>2. Drain(q, t, o)
    BY <1>7 DEF Enqueue
  <2> HIDE DEF o, t
  <2>3. /\ active' = s /\ phase' = "hook"
        /\ queue' = <<>> /\ DOMAIN queue' = {} /\ queue' \in Seq(Submissions)
        /\ outcome' = [o EXCEPT ![s] = "running"] /\ outcome' \in [Submissions -> Outcomes]
        /\ aborted' = FALSE /\ status' = "failed" /\ fresh' \in BOOLEAN
    <3>1. /\ queue' \in Seq(Submissions)
          /\ outcome' \in [Submissions -> Outcomes]
          /\ aborted' = FALSE /\ status' = "failed" /\ fresh' \in BOOLEAN
          /\ active' \in Submissions /\ phase' = "hook"
          /\ outcome' = [o EXCEPT ![active'] = "running"]
          /\ \E n \in DOMAIN q :
                /\ active' = q[n]
                /\ \A i \in DOMAIN queue' : \E j \in DOMAIN q : j # n
      <4> HIDE DEF q
      <4>1. /\ queue' \in Seq(Submissions)
            /\ outcome' \in [Submissions -> Outcomes]
            /\ aborted' = FALSE /\ status' = "failed" /\ fresh' \in BOOLEAN
        BY <1>0, <1>2, <1>3, <1>4, <2>2, Drained
      <4>2. \/ q = <<>>
            \/ /\ active' \in Submissions /\ phase' = "hook"
               /\ outcome' = [o EXCEPT ![active'] = "running"]
               /\ Chosen(q, t)
        BY <1>0, <1>2, <1>3, <1>4, <2>2, Drained
      <4> QED
        BY <2>1, <4>1, <4>2 DEF Chosen
    <3>3. DOMAIN queue' = {} /\ active' = s
      BY <2>1, <3>1
    <3>4. queue' = <<>>
      BY <3>1, <3>3, EmptySeq
    <3> QED
      BY <3>1, <3>3, <3>4
  <2>4. Placed'
    <3>1. \A x \in Submissions : x # s => outcome'[x] = outcome[x]
      BY <1>0, <2>3 DEF o
    <3>2. \A r \in Runs : bg'[r] # "done" => outcome'[r] = "new"
      BY <1>1, <3>1 DEF Placed, Submissions
    <3>3. outcome'[s] = "running"
      BY <1>3, <2>3
    <3> QED
      BY <1>0, <2>3, <3>2, <3>3 DEF Placed, NoTwice
  <2>5. QueuedSteerPreempts'
    BY <2>3 DEF QueuedSteerPreempts
  <2> QED
    <3>1. tier' \in [Submissions -> Tiers]
      BY <1>3, <1>5
    <3>2. /\ active' \in Submissions \cup {Nobody}
          /\ phase' \in {"idle", "hook", "loop", "tail"}
          /\ aborted' \in BOOLEAN /\ status' \in Statuses
      BY <2>3 DEF Statuses
    <3> QED
      BY <1>7, <2>3, <2>4, <2>5, <3>1, <3>2
<1> QED
  BY <1>6, <1>7

-----------------------------------------------------------------------------
(* The invariant holds at the start and is preserved by every action.      *)

LEMMA InitStep == Init => IInv
<1> SUFFICES ASSUME Init PROVE IInv
  OBVIOUS
<1>1. TypeOK
  BY BoundsAssumption, EmptySeq
  DEF Init, TypeOK, Tiers, Statuses, Submissions
<1>2. Placed /\ Slotted
  <2>1. queue = <<>> /\ waiters = <<>> /\ DOMAIN queue = {} /\ DOMAIN waiters = {}
    BY DEF Init
  <2>2. NoTwice(queue) /\ NoTwice(waiters)
    BY <2>1 DEF NoTwice
  <2>3. \A r \in Runs : outcome[r] = "new"
    BY DEF Init, Submissions
  <2>4. active = Nobody /\ phase = "idle"
    BY DEF Init
  <2> QED
    BY <2>1, <2>2, <2>3, <2>4 DEF Placed, Slotted
<1>3. SwitchInv /\ TeardownInv /\ AtHome
  BY DEF Init, SwitchInv, TeardownInv, AtHome, Going
<1>4. QueuedSteerPreempts /\ ReportsStayHome
  BY SubmissionsAssumption DEF Init, QueuedSteerPreempts, ReportsStayHome, Range
<1> QED
  BY <1>1, <1>2, <1>3, <1>4 DEF IInv

LEMMA SubmitStep ==
  ASSUME IInv, NEW p \in Prompts, Submit(p)
  PROVE  IInv'
<1>1. /\ p \in Submissions /\ p \notin Runs /\ outcome[p] = "new"
      /\ Enqueue(p, "next") /\ switching = "no" /\ teardown = "no"
      /\ UNCHANGED <<turnConv, conv, compacting, bgVars, uiVars>>
  BY SubmissionsAssumption DEF Submit, Submissions, PromptOpen
<1>2. /\ queue' \in Seq(Submissions) /\ tier' \in [Submissions -> Tiers]
      /\ outcome' \in [Submissions -> Outcomes]
      /\ active' \in Submissions \cup {Nobody}
      /\ phase' \in {"idle", "hook", "loop", "tail"}
      /\ aborted' \in BOOLEAN /\ status' \in Statuses /\ fresh' \in BOOLEAN
      /\ Placed' /\ QueuedSteerPreempts'
      /\ \A i \in DOMAIN queue' :
           queue'[i] = p \/ \E j \in DOMAIN queue : queue'[i] = queue[j]
      /\ \/ active # Nobody /\ active' = active /\ aborted' = aborted
         \/ active = Nobody /\ active' = p
  <2>1. \A r \in Runs : bg'[r] # "done" => r # p /\ bg[r] # "done"
    BY <1>1 DEF bgVars
  <2>2. "next" \in {"next", "later"}
    OBVIOUS
  <2> QED
    BY <1>1, <2>1, <2>2, Enqueued
<1>3. TypeOK'
  <2>1. notes' \in BOOLEAN /\ carries' \subseteq Prompts
    BY DEF IInv, TypeOK, Submit
  <2> QED
    BY <1>1, <1>2, <2>1 DEF IInv, TypeOK, Outcomes, bgVars, uiVars
<1>4. Slotted' /\ AtHome'
  BY <1>1 DEF IInv, Slotted, AtHome, Going, bgVars, uiVars
<1>5. SwitchInv' /\ TeardownInv'
  BY <1>1 DEF IInv, SwitchInv, TeardownInv, uiVars
<1>6. ReportsStayHome'
  BY <1>1, <1>2 DEF IInv, ReportsStayHome, Range, bgVars, uiVars
<1> QED
  BY <1>2, <1>3, <1>4, <1>5, <1>6 DEF IInv

LEMMA SteerStep ==
  ASSUME IInv, NEW p \in Prompts, Steer(p)
  PROVE  IInv'
<1>1. /\ p \in Submissions /\ p \notin Runs /\ outcome[p] = "new" /\ active # Nobody
      /\ queue' = Append(queue, p) /\ aborted' = TRUE
      /\ tier' = [tier EXCEPT ![p] = "now"]
      /\ outcome' = [outcome EXCEPT ![p] = "queued"]
      /\ UNCHANGED <<active, phase, status, turnConv, convVars, bgVars, uiVars>>
  BY SubmissionsAssumption DEF Steer, SteerWith, Submissions
<1>2. /\ queue \in Seq(Submissions) /\ outcome \in [Submissions -> Outcomes]
      /\ active \in Submissions /\ Placed
      /\ \A i \in DOMAIN queue : queue[i] \in Submissions /\ queue[i] # p
      /\ active # p
  <2>1. /\ queue \in Seq(Submissions) /\ outcome \in [Submissions -> Outcomes]
        /\ active \in Submissions /\ Placed
    BY <1>1 DEF IInv, TypeOK, Outcomes
  <2> QED
    BY <1>1, <2>1, ElementOfSeq DEF Placed
<1>3. /\ queue' \in Seq(Submissions) /\ NoTwice(queue')
      /\ \A i \in DOMAIN queue' :
           queue'[i] = p \/ \E j \in DOMAIN queue : queue'[i] = queue[j]
  BY <1>1, <1>2, AppendedOnce DEF Placed
<1>4. TypeOK'
  <2>1. tier' \in [Submissions -> Tiers] /\ outcome' \in [Submissions -> Outcomes]
    BY <1>1 DEF IInv, TypeOK, Tiers, Outcomes
  <2> QED
    BY <1>1, <1>3, <2>1 DEF IInv, TypeOK, Outcomes, convVars, noteVars, bgVars, uiVars
<1>5. Placed'
  <2>1. \A x \in Submissions : x # p => outcome'[x] = outcome[x]
    BY <1>1, <1>2
  <2>2. outcome'[p] = "queued"
    BY <1>1, <1>2
  <2>3. \A i \in DOMAIN queue' : outcome'[queue'[i]] = "queued"
    BY <1>2, <1>3, <2>1, <2>2 DEF Placed
  <2>4. \A r \in Runs : bg'[r] # "done" => outcome'[r] = "new"
    BY <1>1, <1>2, <2>1 DEF Placed, Submissions, bgVars
  <2>5. outcome'[active] = "running"
    BY <1>1, <1>2, <2>1 DEF Placed
  <2> QED
    BY <1>1, <1>2, <1>3, <2>3, <2>4, <2>5 DEF Placed
<1>6. Slotted' /\ AtHome'
  BY <1>1 DEF IInv, Slotted, AtHome, Going, bgVars, uiVars
<1>7. SwitchInv' /\ TeardownInv'
  BY <1>1 DEF IInv, SwitchInv, TeardownInv, bgVars, uiVars
<1>8. QueuedSteerPreempts'
  BY <1>1 DEF QueuedSteerPreempts
<1>9. ReportsStayHome'
  BY <1>1, <1>3 DEF IInv, ReportsStayHome, Range, bgVars, uiVars
<1> QED
  BY <1>4, <1>5, <1>6, <1>7, <1>8, <1>9 DEF IInv

(* cancel({clearQueue: true}): whoever waited is told, nobody else.        *)
LEMMA ClearedQueue ==
  ASSUME IInv, CancelAndClear, active' = active, phase' = phase, tier' = tier,
         \A r \in Runs : bg'[r] # "done" => bg[r] # "done"
  PROVE  /\ queue' = <<>> /\ queue' \in Seq(Submissions) /\ aborted' \in BOOLEAN
         /\ outcome' \in [Submissions -> Outcomes]
         /\ Placed' /\ QueuedSteerPreempts' /\ (active # Nobody => aborted')
         /\ \A r \in Runs : ~(r \in Range(queue') \/ (active' = r /\ ~aborted'))
<1>1. /\ queue' = <<>> /\ aborted' = (active # Nobody)
      /\ outcome' = [s \in Submissions |->
                       IF s \in Range(queue) THEN "cancelled" ELSE outcome[s]]
  BY DEF CancelAndClear, Cleared
<1>2. /\ queue' \in Seq(Submissions) /\ DOMAIN queue' = {} /\ NoTwice(queue')
      /\ Range(queue') = {}
  BY <1>1 DEF NoTwice, Range
<1>3. outcome' \in [Submissions -> Outcomes]
  BY <1>1 DEF IInv, TypeOK, Outcomes, Statuses
<1>4. \A s \in Submissions : outcome[s] # "queued" => outcome'[s] = outcome[s]
  BY <1>1 DEF IInv, Placed, Range
<1>5. Placed'
  <2>1. /\ Placed /\ active \in Submissions \cup {Nobody}
        /\ \A r \in Runs : r \in Submissions
    BY DEF IInv, TypeOK, Submissions
  <2>2. active # Nobody => outcome'[active] = "running"
    BY <1>4, <2>1 DEF Placed
  <2>3. \A r \in Runs : bg'[r] # "done" => outcome'[r] = "new"
    BY <1>4, <2>1 DEF Placed
  <2> QED
    BY <1>1, <1>2, <2>1, <2>2, <2>3 DEF Placed
<1>6. QueuedSteerPreempts'
  BY <1>2 DEF QueuedSteerPreempts
<1>7. \A r \in Runs : r # Nobody
  BY SubmissionsAssumption
<1> QED
  BY <1>1, <1>2, <1>3, <1>5, <1>6, <1>7

LEMMA InterruptStep ==
  ASSUME IInv, Interrupt \/ InterruptAll
  PROVE  IInv'
<1>1. CASE Interrupt
  <2>1. /\ aborted' = TRUE
        /\ UNCHANGED <<queue, tier, outcome, active, phase, status, turnConv,
                       convVars, bgVars, uiVars>>
    BY <1>1 DEF Interrupt
  <2>2. TypeOK'
    BY <2>1 DEF IInv, TypeOK, convVars, noteVars, bgVars, uiVars
  <2>3. Placed' /\ Slotted' /\ AtHome'
    BY <2>1 DEF IInv, Placed, Slotted, AtHome, Going, bgVars, uiVars
  <2>4. SwitchInv' /\ TeardownInv'
    BY <2>1 DEF IInv, SwitchInv, TeardownInv, Going, bgVars, uiVars
  <2>5. QueuedSteerPreempts' /\ ReportsStayHome'
    BY <2>1 DEF IInv, QueuedSteerPreempts, ReportsStayHome, bgVars, uiVars
  <2> QED
    BY <2>2, <2>3, <2>4, <2>5 DEF IInv
<1>2. CASE InterruptAll
  <2>1. /\ CancelAndClear
        /\ UNCHANGED <<tier, active, phase, status, turnConv, convVars, bgVars, uiVars>>
    BY <1>2 DEF InterruptAll
  <2>2. /\ queue' \in Seq(Submissions) /\ aborted' \in BOOLEAN
        /\ outcome' \in [Submissions -> Outcomes]
        /\ Placed' /\ QueuedSteerPreempts'
        /\ \A r \in Runs : ~(r \in Range(queue') \/ (active' = r /\ ~aborted'))
    <3>1. \A r \in Runs : bg'[r] # "done" => bg[r] # "done"
      BY <2>1 DEF bgVars
    <3> QED
      BY <2>1, <3>1, ClearedQueue
  <2>3. TypeOK'
    BY <2>1, <2>2 DEF IInv, TypeOK, Outcomes, convVars, noteVars, bgVars, uiVars
  <2>4. Slotted' /\ AtHome'
    BY <2>1 DEF IInv, Slotted, AtHome, Going, bgVars, uiVars
  <2>5. SwitchInv' /\ TeardownInv'
    BY <2>1 DEF IInv, SwitchInv, TeardownInv, Going, bgVars, uiVars
  <2>6. ReportsStayHome'
    BY <2>2 DEF ReportsStayHome
  <2> QED
    BY <2>2, <2>3, <2>4, <2>5, <2>6 DEF IInv
<1> QED
  BY <1>1, <1>2

(* RecordPrompt, RejectPrompt and LoopEnds move the turn on and touch      *)
(* neither the queue nor the runs.                                         *)
LEMMA TurnStepKept ==
  ASSUME IInv, RecordPrompt \/ RejectPrompt \/ LoopEnds
  PROVE  IInv'
<1>1. /\ phase # "idle" /\ phase' \in {"loop", "tail"} /\ status' \in Statuses
      /\ turnConv' \in Nat
      /\ UNCHANGED <<queue, tier, outcome, active, aborted, convVars, bgVars, uiVars>>
  BY DEF IInv, TypeOK, RecordPrompt, RejectPrompt, RejectPromptWith, LoopEnds, Statuses
<1>2. TypeOK'
  BY <1>1 DEF IInv, TypeOK, convVars, noteVars, bgVars, uiVars
<1>3. Placed' /\ Slotted' /\ AtHome'
  BY <1>1 DEF IInv, Placed, Slotted, AtHome, Going, bgVars, uiVars
<1>4. SwitchInv' /\ TeardownInv'
  BY <1>1 DEF IInv, SwitchInv, TeardownInv, Going, bgVars, uiVars
<1>5. QueuedSteerPreempts' /\ ReportsStayHome'
  BY <1>1 DEF IInv, QueuedSteerPreempts, ReportsStayHome, bgVars, uiVars
<1> QED
  BY <1>2, <1>3, <1>4, <1>5 DEF IInv

(* The promises once that of the active turn has been resolved.            *)
Resolved == [outcome EXCEPT ![active] = status]

(* The end of a turn drains a queue that does not hold it.                 *)
LEMMA TurnEnded ==
  ASSUME IInv, EndTurn
  PROVE  /\ queue \in Seq(Submissions) /\ tier \in [Submissions -> Tiers]
         /\ outcome \in [Submissions -> Outcomes] /\ fresh \in BOOLEAN
         /\ active \in Submissions /\ status \in Statuses /\ Placed
         /\ \A i \in DOMAIN queue : queue[i] \in Submissions
         /\ switching = "no"
         /\ Resolved \in [Submissions -> Outcomes]
         /\ \A x \in Submissions : x # active => Resolved[x] = outcome[x]
         /\ \A i \in DOMAIN queue : queue[i] # active /\ Resolved[queue[i]] = "queued"
         /\ \A r \in Runs : bg[r] # "done" => r # active
         /\ queue' \in Seq(Submissions) /\ NoTwice(queue')
         /\ outcome' \in [Submissions -> Outcomes]
         /\ \A i \in DOMAIN queue' : outcome'[queue'[i]] = "queued"
         /\ aborted' = FALSE /\ status' = "failed" /\ fresh' \in BOOLEAN
         /\ \/ /\ active' = Nobody /\ phase' = "idle"
               /\ queue' = <<>> /\ outcome' = Resolved
            \/ /\ active' \in Submissions /\ phase' = "hook"
               /\ outcome' = [Resolved EXCEPT ![active'] = "running"]
               /\ Chosen(queue, tier)
<1>0. /\ Drain(queue, tier, Resolved)
      /\ compacting' \in BOOLEAN /\ phase = "tail"
      /\ UNCHANGED <<tier, turnConv, conv, noteVars, bgVars, uiVars>>
  BY DEF EndTurn, IInv, TypeOK, Resolved
<1>1. /\ queue \in Seq(Submissions) /\ tier \in [Submissions -> Tiers]
      /\ outcome \in [Submissions -> Outcomes] /\ fresh \in BOOLEAN
      /\ active \in Submissions /\ status \in Statuses /\ Placed
      /\ \A i \in DOMAIN queue : queue[i] \in Submissions
      /\ switching = "no"
  <2>1. /\ queue \in Seq(Submissions) /\ tier \in [Submissions -> Tiers]
        /\ outcome \in [Submissions -> Outcomes] /\ fresh \in BOOLEAN
        /\ active \in Submissions /\ status \in Statuses /\ Placed
        /\ switching = "no"
    BY <1>0 DEF IInv, TypeOK, Placed, SwitchInv, Outcomes
  <2> QED
    BY <2>1, ElementOfSeq
<1>2. /\ Resolved \in [Submissions -> Outcomes]
      /\ \A x \in Submissions : x # active => Resolved[x] = outcome[x]
      /\ \A i \in DOMAIN queue : queue[i] # active /\ Resolved[queue[i]] = "queued"
      /\ \A r \in Runs : bg[r] # "done" => r # active
  <2>1. /\ Resolved \in [Submissions -> Outcomes]
        /\ \A x \in Submissions : x # active => Resolved[x] = outcome[x]
    BY <1>1 DEF Outcomes, Resolved
  <2>2. outcome[active] = "running"
    BY <1>0, <1>1 DEF Placed
  <2>3. \A i \in DOMAIN queue : queue[i] # active /\ Resolved[queue[i]] = "queued"
    BY <1>1, <2>1, <2>2 DEF Placed
  <2> QED
    BY <1>1, <2>1, <2>2, <2>3 DEF Placed
<1>3. /\ queue' \in Seq(Submissions) /\ NoTwice(queue')
      /\ outcome' \in [Submissions -> Outcomes]
      /\ \A i \in DOMAIN queue' : outcome'[queue'[i]] = "queued"
      /\ aborted' = FALSE /\ status' = "failed" /\ fresh' \in BOOLEAN
      /\ \/ /\ active' = Nobody /\ phase' = "idle"
            /\ queue' = <<>> /\ outcome' = Resolved
         \/ /\ active' \in Submissions /\ phase' = "hook"
            /\ outcome' = [Resolved EXCEPT ![active'] = "running"]
            /\ Chosen(queue, tier)
  BY <1>0, <1>1, <1>2, Drained DEF Placed
<1> QED
  BY <1>1, <1>2, <1>3

(* The end of a turn: its promise settles, and the next one starts.        *)
LEMMA EndTurnStep ==
  ASSUME IInv, EndTurn
  PROVE  IInv'
<1>0. /\ compacting' \in BOOLEAN
      /\ UNCHANGED <<tier, turnConv, conv, noteVars, bgVars, uiVars>>
  BY DEF EndTurn, IInv, TypeOK
<1>1. /\ queue \in Seq(Submissions) /\ tier \in [Submissions -> Tiers]
      /\ outcome \in [Submissions -> Outcomes] /\ fresh \in BOOLEAN
      /\ active \in Submissions /\ status \in Statuses /\ Placed
      /\ \A i \in DOMAIN queue : queue[i] \in Submissions
      /\ switching = "no"
  BY TurnEnded
<1>2. /\ Resolved \in [Submissions -> Outcomes]
      /\ \A x \in Submissions : x # active => Resolved[x] = outcome[x]
      /\ \A i \in DOMAIN queue : queue[i] # active /\ Resolved[queue[i]] = "queued"
      /\ \A r \in Runs : bg[r] # "done" => r # active
  BY TurnEnded
<1>3. /\ queue' \in Seq(Submissions) /\ NoTwice(queue')
      /\ outcome' \in [Submissions -> Outcomes]
      /\ \A i \in DOMAIN queue' : outcome'[queue'[i]] = "queued"
      /\ aborted' = FALSE /\ status' = "failed" /\ fresh' \in BOOLEAN
      /\ \/ /\ active' = Nobody /\ phase' = "idle"
            /\ queue' = <<>> /\ outcome' = Resolved
         \/ /\ active' \in Submissions /\ phase' = "hook"
            /\ outcome' = [Resolved EXCEPT ![active'] = "running"]
            /\ Chosen(queue, tier)
  BY TurnEnded
<1>4. active' # Nobody => \E n \in DOMAIN queue : active' = queue[n]
  BY <1>3 DEF Chosen
<1>5. \A i \in DOMAIN queue' : \E j \in DOMAIN queue : queue'[i] = queue[j]
  <2>1. queue' = <<>> => DOMAIN queue' = {}
    OBVIOUS
  <2> QED
    BY <1>3, <2>1 DEF Chosen
<1>6. TypeOK'
  BY <1>0, <1>3 DEF IInv, TypeOK, Outcomes, Statuses, noteVars, bgVars, uiVars
<1>7. Placed'
  <2>1. Nobody \notin Submissions
    BY SubmissionsAssumption DEF Submissions
  <2>2. active' # Nobody => outcome'[active'] = "running"
    BY <1>2, <1>3, <2>1
  <2>3. ASSUME NEW r \in Runs, bg'[r] # "done" PROVE outcome'[r] = "new"
    <3>1. r \in Submissions /\ outcome[r] = "new" /\ Resolved[r] = "new"
      BY <1>0, <1>1, <1>2, <2>3 DEF Placed, bgVars, Submissions
    <3>2. CASE active' = Nobody
      BY <3>1, <3>2, <1>3, <2>1
    <3>3. CASE active' # Nobody
      <4>1. PICK n \in DOMAIN queue : active' = queue[n]
        BY <3>3, <1>4
      <4>2. r # active'
        BY <4>1, <3>1, <1>1 DEF Placed
      <4> QED
        BY <4>2, <3>1, <3>3, <1>2, <1>3
    <3> QED
      BY <3>2, <3>3
  <2> QED
    BY <1>3, <2>1, <2>2, <2>3 DEF Placed
<1>8. Slotted' /\ AtHome'
  BY <1>0 DEF IInv, Slotted, AtHome, Going, bgVars, uiVars
<1>9. SwitchInv' /\ TeardownInv'
  BY <1>0, <1>1, SubmissionsAssumption
  DEF IInv, SwitchInv, TeardownInv, bgVars, uiVars, Submissions
<1>10. QueuedSteerPreempts'
  <2> SUFFICES ASSUME NEW i \in DOMAIN queue', tier'[queue'[i]] = "now",
                      active' # Nobody
               PROVE  tier'[active'] = "now"
    BY DEF QueuedSteerPreempts
  <2>1. Chosen(queue, tier)
    BY <1>3
  <2>2. PICK n \in DOMAIN queue :
          /\ active' = queue[n]
          /\ \A k \in DOMAIN queue' : \E j \in DOMAIN queue :
               /\ j # n /\ queue'[k] = queue[j]
               /\ \/ Rank(queue[n], tier) < Rank(queue[j], tier)
                  \/ Rank(queue[n], tier) = Rank(queue[j], tier) /\ n < j
    BY <2>1 DEF Chosen
  <2>3. PICK j \in DOMAIN queue :
          /\ queue'[i] = queue[j]
          /\ \/ Rank(queue[n], tier) < Rank(queue[j], tier)
             \/ Rank(queue[n], tier) = Rank(queue[j], tier)
    BY <2>2
  <2>4. tier' = tier /\ tier[queue[j]] = "now" /\ tier[queue[n]] \in Tiers
    BY <1>0, <1>1, <2>3
  <2> QED
    BY <2>2, <2>3, <2>4 DEF Rank, SUBMIT_PRIORITY_ORDER, Tiers
<1>11. ReportsStayHome'
  <2> SUFFICES ASSUME NEW r \in Runs,
                      r \in Range(queue') \/ (active' = r /\ ~aborted')
               PROVE  home'[r] = store'
    BY DEF ReportsStayHome
  <2>1. r # Nobody
    BY SubmissionsAssumption
  <2>2. r \in Range(queue)
    BY <1>4, <1>5, <2>1 DEF Range
  <2> QED
    BY <2>2, <1>0 DEF IInv, ReportsStayHome, bgVars, uiVars
<1> QED
  BY <1>6, <1>7, <1>8, <1>9, <1>10, <1>11 DEF IInv

(* A turn starts a run, with a slot, waiting for one, or taken over.       *)
LEMMA LaunchStep ==
  ASSUME IInv, NEW r \in Runs, Launch(r) \/ Adopt(r)
  PROVE  IInv'
<1>1. /\ phase = "loop" /\ bg[r] = "none"
      /\ home' = [home EXCEPT ![r] = store]
      /\ \/ bg' = [bg EXCEPT ![r] = "running"] /\ waiters' = waiters
         \/ bg' = [bg EXCEPT ![r] = "waiting"] /\ waiters' = Append(waiters, r)
      /\ adopted' \subseteq Runs
      /\ UNCHANGED <<queue, tier, outcome, turnVars, convVars, stopped, uiVars>>
  BY DEF IInv, TypeOK, Launch, Adopt
<1>2. /\ bg \in [Runs -> {"none", "waiting", "rejected", "running", "done"}]
      /\ home \in [Runs -> Nat] /\ store \in Nat /\ waiters \in Seq(Runs)
      /\ active # Nobody /\ switching = "no" /\ Slotted
  BY <1>1 DEF IInv, TypeOK, Placed, SwitchInv
<1>3. \A k \in DOMAIN waiters : waiters[k] \in Runs /\ waiters[k] # r
  <2>1. \A k \in DOMAIN waiters : waiters[k] \in Runs
    BY <1>2, ElementOfSeq
  <2> QED
    BY <1>1, <1>2, <2>1 DEF Slotted
<1>4. /\ waiters' \in Seq(Runs) /\ Slotted'
      /\ bg' \in [Runs -> {"none", "waiting", "rejected", "running", "done"}]
  <2>1. CASE bg' = [bg EXCEPT ![r] = "running"] /\ waiters' = waiters
    BY <1>1, <1>2, <1>3, <2>1 DEF Slotted
  <2>2. CASE bg' = [bg EXCEPT ![r] = "waiting"] /\ waiters' = Append(waiters, r)
    <3>1. /\ waiters' \in Seq(Runs) /\ NoTwice(waiters')
          /\ \A k \in DOMAIN waiters' :
               waiters'[k] = r \/ \E j \in DOMAIN waiters : waiters'[k] = waiters[j]
      BY <1>2, <1>3, <2>2, AppendedOnce DEF Slotted
    <3>2. \A k \in DOMAIN waiters' : bg'[waiters'[k]] = "waiting"
      BY <1>2, <1>3, <2>2, <3>1 DEF Slotted
    <3> QED
      BY <1>2, <2>2, <3>1, <3>2 DEF Slotted
  <2> QED
    BY <1>1, <2>1, <2>2
<1>5. TypeOK'
  <2>1. home' \in [Runs -> Nat]
    BY <1>1, <1>2
  <2> QED
    BY <1>1, <1>4, <2>1 DEF IInv, TypeOK, turnVars, convVars, noteVars, uiVars
<1>6. \A x \in Runs : x # r => bg'[x] = bg[x] /\ home'[x] = home[x]
  BY <1>1, <1>2
<1>7. Placed'
  <2>1. \A x \in Runs : bg'[x] # "done" => bg[x] # "done"
    BY <1>1, <1>6
  <2> QED
    BY <1>1, <2>1 DEF IInv, Placed, turnVars
<1>8. SwitchInv' /\ TeardownInv'
  BY <1>1, <1>2 DEF IInv, SwitchInv, TeardownInv, turnVars, uiVars
<1>9. AtHome'
  <2>1. home'[r] = store
    BY <1>1, <1>2
  <2> QED
    BY <1>1, <1>6, <2>1 DEF IInv, AtHome, Going, uiVars
<1>10. QueuedSteerPreempts'
  BY <1>1 DEF IInv, QueuedSteerPreempts, turnVars
<1>11. ReportsStayHome'
  <2>1. home'[r] = store
    BY <1>1, <1>2
  <2> QED
    BY <1>1, <1>6, <2>1 DEF IInv, ReportsStayHome, Range, turnVars, uiVars
<1> QED
  BY <1>4, <1>5, <1>7, <1>8, <1>9, <1>10, <1>11 DEF IInv

(* A run that settles gives its slot to the first waiter, if any.          *)
LEMMA Release ==
  ASSUME IInv, NEW r \in Runs, bg[r] = "running", Released(r)
  PROVE  /\ bg' \in [Runs -> {"none", "waiting", "rejected", "running", "done"}]
         /\ waiters' \in Seq(Runs) /\ Slotted'
         /\ bg'[r] = "done"
         /\ \A x \in Runs : x # r => /\ (bg'[x] = bg[x] \/ (bg[x] = "waiting" /\ bg'[x] = "running"))
                                     /\ (bg'[x] # "done" => bg[x] # "done")
<1>1. /\ bg \in [Runs -> {"none", "waiting", "rejected", "running", "done"}]
      /\ waiters \in Seq(Runs) /\ Slotted
  BY DEF IInv, TypeOK
<1>2. \A k \in DOMAIN waiters : /\ waiters[k] \in Runs /\ bg[waiters[k]] = "waiting"
                                /\ waiters[k] # r
  <2>1. \A k \in DOMAIN waiters : waiters[k] \in Runs
    BY <1>1, ElementOfSeq
  <2> QED
    BY <1>1, <2>1 DEF Slotted
<1>3. CASE bg' = [bg EXCEPT ![r] = "done"] /\ waiters' = waiters
  BY <1>1, <1>2, <1>3 DEF Slotted
<1>4. CASE /\ waiters # <<>> /\ waiters' = Tail(waiters)
           /\ bg' = [bg EXCEPT ![r] = "done", ![Head(waiters)] = "running"]
  <2> DEFINE w == Head(waiters)
  <2>1. /\ waiters' \in Seq(Runs) /\ NoTwice(waiters')
        /\ w = waiters[1] /\ 1 \in DOMAIN waiters
        /\ \A k \in DOMAIN waiters' :
             \E j \in DOMAIN waiters : j # 1 /\ waiters'[k] = waiters[j]
    BY <1>1, <1>4, TailOnce DEF Slotted
  <2>2. w \in Runs /\ bg[w] = "waiting" /\ w # r
    BY <1>2, <2>1
  <2> HIDE DEF w
  <2>3. /\ bg' \in [Runs -> {"none", "waiting", "rejected", "running", "done"}]
        /\ bg'[r] = "done" /\ bg'[w] = "running"
        /\ \A x \in Runs : x # r /\ x # w => bg'[x] = bg[x]
    BY <1>1, <1>4, <2>2 DEF w
  <2>4. ASSUME NEW k \in DOMAIN waiters' PROVE bg'[waiters'[k]] = "waiting"
    <3>1. PICK j \in DOMAIN waiters : j # 1 /\ waiters'[k] = waiters[j]
      BY <2>1
    <3>2. waiters[j] # w
      BY <1>1, <2>1, <3>1 DEF Slotted, NoTwice
    <3> QED
      BY <1>2, <2>3, <3>1, <3>2
  <2> QED
    BY <2>1, <2>2, <2>3, <2>4 DEF Slotted
<1> QED
  BY <1>3, <1>4 DEF Released

LEMMA FinishRunStep ==
  ASSUME IInv, NEW r \in Runs, FinishRun(r)
  PROVE  IInv'
<1>1. /\ bg[r] = "running" /\ Released(r)
      /\ UNCHANGED <<turnConv, conv, compacting, noteVars, adopted, stopped, home, uiVars>>
  BY DEF FinishRun, FinishRunUnless
<1>2. /\ bg' \in [Runs -> {"none", "waiting", "rejected", "running", "done"}]
      /\ waiters' \in Seq(Runs) /\ Slotted'
      /\ bg'[r] = "done"
      /\ \A x \in Runs : x # r =>
           /\ bg'[x] = bg[x] \/ (bg[x] = "waiting" /\ bg'[x] = "running")
           /\ bg'[x] # "done" => bg[x] # "done"
  BY <1>1, Release
<1>3. \A x \in Runs : Going(x)' => Going(x)
  BY <1>2 DEF Going
<1>4. AtHome'
  BY <1>1, <1>3 DEF IInv, AtHome, uiVars
<1>5. CASE r \in stopped \/ ~notifier
  <2>1. UNCHANGED <<queue, tier, outcome, active, phase, aborted, status, fresh>>
    BY <1>5 DEF FinishRun, FinishRunUnless
  <2>2. TypeOK'
    BY <1>1, <1>2, <2>1 DEF IInv, TypeOK, noteVars, uiVars
  <2>3. Placed'
    <3>1. \A x \in Runs : bg'[x] # "done" => bg[x] # "done"
      BY <1>2
    <3> QED
      BY <2>1, <3>1 DEF IInv, Placed
  <2>4. SwitchInv' /\ TeardownInv'
    BY <1>1, <1>3, <2>1 DEF IInv, SwitchInv, TeardownInv, uiVars
  <2>5. QueuedSteerPreempts' /\ ReportsStayHome'
    BY <1>1, <2>1 DEF IInv, QueuedSteerPreempts, ReportsStayHome, uiVars
  <2> QED
    BY <1>2, <1>4, <2>2, <2>3, <2>4, <2>5 DEF IInv
<1>6. CASE r \notin stopped /\ notifier
  <2>1. /\ Enqueue(r, "later") /\ r \in Submissions /\ outcome[r] = "new"
        /\ switching = "no" /\ teardown = "no" /\ home[r] = store
    <3>1. Enqueue(r, "later")
      BY <1>6 DEF FinishRun, FinishRunUnless
    <3> QED
      BY <1>1, <1>6, <3>1
      DEF IInv, Placed, SwitchInv, TeardownInv, AtHome, Going, Submissions
  <2>2. /\ queue' \in Seq(Submissions) /\ tier' \in [Submissions -> Tiers]
        /\ outcome' \in [Submissions -> Outcomes]
        /\ active' \in Submissions \cup {Nobody}
        /\ phase' \in {"idle", "hook", "loop", "tail"}
        /\ aborted' \in BOOLEAN /\ status' \in Statuses /\ fresh' \in BOOLEAN
        /\ Placed' /\ QueuedSteerPreempts'
        /\ \A i \in DOMAIN queue' :
             queue'[i] = r \/ \E j \in DOMAIN queue : queue'[i] = queue[j]
        /\ \/ active # Nobody /\ active' = active /\ aborted' = aborted
           \/ active = Nobody /\ active' = r
    <3>1. \A x \in Runs : bg'[x] # "done" => x # r /\ bg[x] # "done"
      BY <1>2
    <3>2. "later" \in {"next", "later"}
      OBVIOUS
    <3> QED
      BY <2>1, <3>1, <3>2, Enqueued
  <2>3. TypeOK'
    BY <1>1, <1>2, <2>2 DEF IInv, TypeOK, Outcomes, noteVars, uiVars
  <2>4. SwitchInv' /\ TeardownInv'
    BY <1>1, <2>1 DEF IInv, SwitchInv, TeardownInv, uiVars
  <2>5. ReportsStayHome'
    BY <1>1, <2>1, <2>2 DEF IInv, ReportsStayHome, Range, uiVars
  <2> QED
    BY <1>2, <1>4, <2>2, <2>3, <2>4, <2>5 DEF IInv
<1> QED
  BY <1>5, <1>6

LEMMA FinishRejectedStep ==
  ASSUME IInv, NEW r \in Runs, FinishRejected(r)
  PROVE  IInv'
<1>1. /\ bg[r] = "rejected" /\ bg' = [bg EXCEPT ![r] = "done"]
      /\ UNCHANGED <<queue, tier, outcome, turnVars, convVars, waiters, adopted,
                     stopped, home, uiVars>>
  BY DEF FinishRejected
<1>2. /\ bg' \in [Runs -> {"none", "waiting", "rejected", "running", "done"}]
      /\ \A x \in Runs : bg'[x] # "done" => bg'[x] = bg[x]
      /\ \A x \in Runs : bg[x] # "rejected" => bg'[x] = bg[x]
  BY <1>1 DEF IInv, TypeOK
<1>3. TypeOK'
  BY <1>1, <1>2 DEF IInv, TypeOK, turnVars, convVars, noteVars, uiVars
<1>4. Slotted'
  <2>1. \A k \in DOMAIN waiters : waiters[k] \in Runs
    BY ElementOfSeq DEF IInv, TypeOK
  <2> QED
    BY <1>1, <1>2, <2>1 DEF IInv, Slotted
<1>5. Placed'
  BY <1>1, <1>2 DEF IInv, Placed, turnVars
<1>6. SwitchInv' /\ TeardownInv' /\ AtHome'
  <2>1. \A x \in Runs : Going(x)' => Going(x)
    BY <1>2 DEF Going
  <2> QED
    BY <1>1, <2>1 DEF IInv, SwitchInv, TeardownInv, AtHome, turnVars, uiVars
<1>7. QueuedSteerPreempts' /\ ReportsStayHome'
  BY <1>1 DEF IInv, QueuedSteerPreempts, ReportsStayHome, turnVars, uiVars
<1> QED
  BY <1>3, <1>4, <1>5, <1>6, <1>7 DEF IInv

(* Compression replaces the conversation; no queue, run or store moves.    *)
LEMMA CompressStep ==
  ASSUME IInv, Compress \/ CompressFails \/ CompressDone
  PROVE  IInv'
<1>1. /\ compacting' \in BOOLEAN /\ conv' \in Nat /\ fresh' \in BOOLEAN
      /\ notes' \in BOOLEAN
      /\ UNCHANGED <<queue, tier, outcome, turnVars, carries, bgVars, uiVars>>
  <2>1. conv \in Nat /\ fresh \in BOOLEAN /\ notes \in BOOLEAN
    BY DEF IInv, TypeOK
  <2>2. CASE Compress
    BY <2>1, <2>2 DEF Compress
  <2>3. CASE CompressFails
    BY <2>1, <2>3 DEF CompressFails
  <2>4. CASE CompressDone
    <3>1. conv' \in Nat
      BY <2>1, <2>4 DEF CompressDone
    <3> QED
      BY <2>4, <3>1 DEF CompressDone
  <2> QED
    BY <2>2, <2>3, <2>4
<1>2. TypeOK'
  BY <1>1 DEF IInv, TypeOK, turnVars, bgVars, uiVars
<1>3. Placed' /\ Slotted' /\ AtHome'
  BY <1>1 DEF IInv, Placed, Slotted, AtHome, Going, turnVars, bgVars, uiVars
<1>4. SwitchInv' /\ TeardownInv'
  BY <1>1 DEF IInv, SwitchInv, TeardownInv, Going, turnVars, bgVars, uiVars
<1>5. QueuedSteerPreempts' /\ ReportsStayHome'
  BY <1>1 DEF IInv, QueuedSteerPreempts, ReportsStayHome, turnVars, bgVars, uiVars
<1> QED
  BY <1>2, <1>3, <1>4, <1>5 DEF IInv

(* cancelAll leaves nobody unmarked and nobody waiting.                    *)
LEMMA CancelledRuns ==
  ASSUME IInv, CancelRuns
  PROVE  /\ bg' \in [Runs -> {"none", "waiting", "rejected", "running", "done"}]
         /\ waiters' \in Seq(Runs) /\ Slotted'
         /\ stopped' \subseteq Runs /\ adopted' = adopted /\ home' = home
         /\ \A r \in Runs : Going(r)' => r \in stopped'
         /\ \A r \in Runs : bg'[r] # "done" => bg[r] # "done"
<1>1. /\ stopped' = stopped \cup {r \in Runs : bg[r] \in {"waiting", "running"}}
      /\ bg' = [r \in Runs |-> IF bg[r] = "waiting" THEN "rejected" ELSE bg[r]]
      /\ waiters' = <<>> /\ adopted' = adopted /\ home' = home
  BY DEF CancelRuns
<1>2. /\ bg \in [Runs -> {"none", "waiting", "rejected", "running", "done"}]
      /\ stopped \subseteq Runs
  BY DEF IInv, TypeOK
<1>3. Slotted' /\ waiters' \in Seq(Runs)
  BY <1>1 DEF Slotted, NoTwice
<1>4. \A r \in Runs : Going(r)' => r \in stopped'
  BY <1>1, <1>2 DEF Going
<1> QED
  BY <1>1, <1>2, <1>3, <1>4

(* What a switch and a teardown do first: nothing queued, every run marked.*)
LEMMA Replaced ==
  ASSUME IInv, CancelRuns, CancelAndClear,
         active' = active, phase' = phase, tier' = tier
  PROVE  /\ queue' \in Seq(Submissions) /\ aborted' \in BOOLEAN
         /\ outcome' \in [Submissions -> Outcomes]
         /\ bg' \in [Runs -> {"none", "waiting", "rejected", "running", "done"}]
         /\ waiters' \in Seq(Runs) /\ stopped' \subseteq Runs
         /\ adopted' = adopted /\ home' = home
         /\ Placed' /\ Slotted' /\ AtHome' /\ QueuedSteerPreempts' /\ ReportsStayHome'
         /\ \A r \in Runs : Going(r)' => r \in stopped'
<1>1. /\ bg' \in [Runs -> {"none", "waiting", "rejected", "running", "done"}]
      /\ waiters' \in Seq(Runs) /\ Slotted'
      /\ stopped' \subseteq Runs /\ adopted' = adopted /\ home' = home
      /\ \A r \in Runs : Going(r)' => r \in stopped'
      /\ \A r \in Runs : bg'[r] # "done" => bg[r] # "done"
  BY CancelledRuns
<1>2. /\ queue' \in Seq(Submissions) /\ aborted' \in BOOLEAN
      /\ outcome' \in [Submissions -> Outcomes]
      /\ Placed' /\ QueuedSteerPreempts'
      /\ \A r \in Runs : ~(r \in Range(queue') \/ (active' = r /\ ~aborted'))
  BY <1>1, ClearedQueue
<1>3. AtHome' /\ ReportsStayHome'
  BY <1>1, <1>2 DEF AtHome, ReportsStayHome
<1> QED
  BY <1>1, <1>2, <1>3

LEMMA SwitchStep ==
  ASSUME IInv, BeginSwitch \/ ResetThread
  PROVE  IInv'
<1>1. /\ CancelRuns /\ CancelAndClear /\ active = Nobody
      /\ switching' \in {"no", "detached", "rotated"}
      /\ conv' \in Nat /\ fresh' \in BOOLEAN
      /\ UNCHANGED <<tier, active, phase, status, turnConv, compacting, notes,
                     carries, store, notifier, teardown, forced>>
  <2>1. conv \in Nat /\ fresh \in BOOLEAN /\ SwitchInv
    BY DEF IInv, TypeOK
  <2>2. CASE BeginSwitch
    BY <2>1, <2>2 DEF BeginSwitch, convVars, noteVars
  <2>3. CASE ResetThread
    <3>1. conv' \in Nat
      BY <2>1, <2>3 DEF ResetThread
    <3>2. active = Nobody
      BY <2>1, <2>3 DEF ResetThread, SwitchInv
    <3> QED
      BY <2>3, <3>1, <3>2 DEF ResetThread
  <2> QED
    BY <2>2, <2>3
<1>2. /\ queue' \in Seq(Submissions) /\ aborted' \in BOOLEAN
      /\ outcome' \in [Submissions -> Outcomes]
      /\ bg' \in [Runs -> {"none", "waiting", "rejected", "running", "done"}]
      /\ waiters' \in Seq(Runs) /\ stopped' \subseteq Runs
      /\ adopted' = adopted /\ home' = home
      /\ Placed' /\ Slotted' /\ AtHome' /\ QueuedSteerPreempts' /\ ReportsStayHome'
      /\ \A r \in Runs : Going(r)' => r \in stopped'
  BY <1>1, Replaced
<1>3. TypeOK'
  BY <1>1, <1>2 DEF IInv, TypeOK, Outcomes
<1>4. SwitchInv' /\ TeardownInv'
  BY <1>1, <1>2 DEF IInv, SwitchInv, TeardownInv
<1> QED
  BY <1>2, <1>3, <1>4 DEF IInv

(* Storage moves only while every live run is marked and no turn is active.*)
LEMMA RotateStep ==
  ASSUME IInv, Rotate \/ RotateFails
  PROVE  IInv'
<1>1. /\ switching # "no" /\ active = Nobody /\ queue = <<>>
      /\ \A r \in Runs : Going(r) => r \in stopped
      /\ store' \in Nat /\ switching' \in {"no", "rotated"}
      /\ UNCHANGED <<queue, tier, outcome, turnVars, convVars, bgVars,
                     notifier, teardown, forced>>
  BY DEF IInv, TypeOK, Placed, SwitchInv, Rotate, RotateFails
<1>2. TypeOK'
  BY <1>1 DEF IInv, TypeOK, turnVars, convVars, noteVars, bgVars
<1>3. Placed' /\ Slotted' /\ AtHome'
  BY <1>1 DEF IInv, Placed, Slotted, AtHome, Going, turnVars, bgVars
<1>4. SwitchInv' /\ TeardownInv'
  BY <1>1 DEF IInv, SwitchInv, TeardownInv, Going, turnVars, bgVars
<1>5. QueuedSteerPreempts' /\ ReportsStayHome'
  <2>1. DOMAIN queue' = {} /\ Range(queue') = {} /\ active' = Nobody
    BY <1>1 DEF Range, turnVars
  <2> QED
    BY <2>1, SubmissionsAssumption DEF QueuedSteerPreempts, ReportsStayHome
<1> QED
  BY <1>2, <1>3, <1>4, <1>5 DEF IInv

LEMMA TeardownStep ==
  ASSUME IInv, BeginTeardown \/ Close
  PROVE  IInv'
<1>1. CASE BeginTeardown
  <2>1. /\ CancelRuns /\ CancelAndClear
        /\ teardown' = "settling" /\ notifier' = FALSE
        /\ UNCHANGED <<tier, active, phase, status, turnConv, convVars,
                       store, switching, forced>>
    BY <1>1 DEF BeginTeardown
  <2>2. /\ queue' \in Seq(Submissions) /\ aborted' \in BOOLEAN
        /\ outcome' \in [Submissions -> Outcomes]
        /\ bg' \in [Runs -> {"none", "waiting", "rejected", "running", "done"}]
        /\ waiters' \in Seq(Runs) /\ stopped' \subseteq Runs
        /\ adopted' = adopted /\ home' = home
        /\ Placed' /\ Slotted' /\ AtHome' /\ QueuedSteerPreempts' /\ ReportsStayHome'
        /\ \A r \in Runs : Going(r)' => r \in stopped'
    BY <2>1, Replaced
  <2>3. TypeOK'
    BY <2>1, <2>2 DEF IInv, TypeOK, Outcomes, convVars, noteVars
  <2>4. SwitchInv' /\ TeardownInv'
    BY <2>1, <2>2 DEF IInv, SwitchInv, TeardownInv
  <2> QED
    BY <2>2, <2>3, <2>4 DEF IInv
<1>2. CASE Close
  <2>1. /\ teardown # "no" /\ teardown' = "closed" /\ forced' = (active # Nobody)
        /\ UNCHANGED <<queue, tier, outcome, turnVars, convVars, bgVars,
                       store, switching, notifier>>
    BY <1>2 DEF Close
  <2>2. TypeOK'
    BY <2>1 DEF IInv, TypeOK, turnVars, convVars, noteVars, bgVars
  <2>3. Placed' /\ Slotted' /\ AtHome'
    BY <2>1 DEF IInv, Placed, Slotted, AtHome, Going, turnVars, bgVars
  <2>4. SwitchInv' /\ TeardownInv'
    BY <2>1 DEF IInv, SwitchInv, TeardownInv, Going, turnVars, bgVars
  <2>5. QueuedSteerPreempts' /\ ReportsStayHome'
    BY <2>1 DEF IInv, QueuedSteerPreempts, ReportsStayHome, turnVars, bgVars
  <2> QED
    BY <2>2, <2>3, <2>4, <2>5 DEF IInv
<1> QED
  BY <1>1, <1>2

LEMMA NextStep == IInv /\ [Next]_vars => IInv'
<1> SUFFICES ASSUME IInv, [Next]_vars PROVE IInv'
  OBVIOUS
<1>1. ASSUME NEW p \in Prompts, Submit(p) \/ Steer(p) PROVE IInv'
  BY <1>1, SubmitStep, SteerStep
<1>2. CASE Interrupt \/ InterruptAll
  BY <1>2, InterruptStep
<1>3. CASE TurnStep
  BY <1>3, TurnStepKept, EndTurnStep DEF TurnStep
<1>4. ASSUME NEW r \in Runs, Launch(r) \/ Adopt(r) \/ RunStep(r) PROVE IInv'
  <2>1. CASE Launch(r) \/ Adopt(r)
    BY <2>1, LaunchStep
  <2>2. CASE RunStep(r)
    BY <2>2, FinishRunStep, FinishRejectedStep DEF RunStep
  <2> QED
    BY <1>4, <2>1, <2>2
<1>5. CASE Compress \/ CompressFails \/ CompressDone
  BY <1>5, CompressStep
<1>6. CASE BeginSwitch \/ ResetThread
  BY <1>6, SwitchStep
<1>7. CASE Rotate \/ RotateFails
  BY <1>7, RotateStep
<1>8. CASE BeginTeardown \/ Close
  BY <1>8, TeardownStep
<1>9. CASE UNCHANGED vars
  <2>1. UNCHANGED <<queue, tier, outcome, turnVars, convVars, bgVars, uiVars>>
    BY <1>9 DEF vars
  <2>2. TypeOK'
    BY <2>1 DEF IInv, TypeOK, turnVars, convVars, noteVars, bgVars, uiVars
  <2>3. Placed' /\ Slotted' /\ AtHome'
    BY <2>1 DEF IInv, Placed, Slotted, AtHome, Going, turnVars, bgVars, uiVars
  <2>4. SwitchInv' /\ TeardownInv'
    BY <2>1 DEF IInv, SwitchInv, TeardownInv, Going, turnVars, bgVars, uiVars
  <2>5. QueuedSteerPreempts' /\ ReportsStayHome'
    BY <2>1 DEF IInv, QueuedSteerPreempts, ReportsStayHome, turnVars, bgVars, uiVars
  <2> QED
    BY <2>2, <2>3, <2>4, <2>5 DEF IInv
<1> QED
  BY <1>1, <1>2, <1>3, <1>4, <1>5, <1>6, <1>7, <1>8, <1>9
  DEF Next, UserStep, Background

LEMMA TurnInductive == Spec => []IInv
BY InitStep, NextStep, PTL DEF Spec

-----------------------------------------------------------------------------
(* The properties.                                                         *)

(* Every variable keeps its type; outcome in particular only ever holds a  *)
(* promise state, so a turn ends as completed, failed or cancelled.        *)
THEOREM TurnTypeOK == Spec => []TypeOK
<1>1. IInv => TypeOK
  BY DEF IInv
<1> QED
  BY <1>1, TurnInductive, PTL

(* Once a steer is queued no ordinary or background turn runs uncancelled. *)
THEOREM TurnSteerPreempts == Spec => []QueuedSteerPreempts
<1>1. IInv => QueuedSteerPreempts
  BY DEF IInv
<1> QED
  BY <1>1, TurnInductive, PTL

(* A report is queued or answered only in the session that launched its    *)
(* run, however storage is rotated between launch and finish.              *)
THEOREM TurnReportsStayHome == Spec => []ReportsStayHome
<1>1. IInv => ReportsStayHome
  BY DEF IInv
<1> QED
  BY <1>1, TurnInductive, PTL

(* No turn runs or waits while a switch replaces the session, or once a    *)
(* teardown that did not give up has settled.                              *)
THEOREM TurnStorageIsQuiet == Spec => []StorageIsQuiet
<1>1. IInv => StorageIsQuiet
  BY DEF IInv, SwitchInv, TeardownInv, Placed, StorageIsQuiet
<1> QED
  BY <1>1, TurnInductive, PTL

(* A turn starts at the end of another, or when a submission finds none    *)
(* active and leaves nothing queued.                                       *)
LEMMA StartedBy ==
  ASSUME IInv, IInv', [Next]_vars, phase # "hook", phase' = "hook"
  PROVE  EndTurn \/ queue' = <<>>
<1>1. ASSUME NEW s \in Submissions, NEW p \in {"next", "later"}, outcome[s] = "new",
             \A r \in Runs : bg'[r] # "done" => r # s /\ bg[r] # "done",
             Enqueue(s, p)
      PROVE  queue' = <<>>
  <2>1. active = Nobody
    BY <1>1 DEF Enqueue
  <2>2. /\ queue' \in Seq(Submissions) /\ active' = s /\ Placed'
        /\ \A i \in DOMAIN queue' :
             queue'[i] = s \/ \E j \in DOMAIN queue : queue'[i] = queue[j]
    <3>1. /\ queue' \in Seq(Submissions) /\ Placed'
          /\ \A i \in DOMAIN queue' :
               queue'[i] = s \/ \E j \in DOMAIN queue : queue'[i] = queue[j]
          /\ \/ active # Nobody /\ active' = active /\ aborted' = aborted
             \/ active = Nobody /\ active' = s
      BY <1>1, Enqueued
    <3> QED
      BY <2>1, <3>1
  <2>3. DOMAIN queue = {}
    BY <2>1 DEF IInv, Placed
  <2>4. s # Nobody
    BY SubmissionsAssumption DEF Submissions
  <2>5. DOMAIN queue' = {}
    BY <2>2, <2>3, <2>4 DEF Placed
  <2> QED
    BY <2>2, <2>5, EmptySeq
<1>2. ASSUME NEW p \in Prompts, Submit(p) PROVE queue' = <<>>
  <2>1. /\ p \in Submissions /\ p \notin Runs /\ outcome[p] = "new"
        /\ Enqueue(p, "next") /\ bg' = bg
    BY <1>2, SubmissionsAssumption DEF Submit, Submissions, bgVars
  <2> QED
    BY <1>1, <2>1
<1>3. ASSUME NEW r \in Runs, FinishRun(r) PROVE queue' = <<>>
  <2>1. /\ bg[r] = "running" /\ Released(r)
        /\ phase' = phase \/ Enqueue(r, "later")
    BY <1>3 DEF FinishRun, FinishRunUnless
  <2>2. Enqueue(r, "later") /\ r \in Submissions /\ outcome[r] = "new"
    BY <2>1 DEF IInv, Placed, Submissions
  <2>3. \A x \in Runs : bg'[x] # "done" => x # r /\ bg[x] # "done"
    BY <2>1, Release
  <2> QED
    BY <1>1, <2>2, <2>3
<1>4. phase' # phase
  OBVIOUS
<1>5. CASE UserStep
  BY <1>2, <1>4, <1>5
  DEF UserStep, Steer, SteerWith, Interrupt, InterruptAll, Compress, turnVars,
      BeginSwitch, BeginTeardown
<1>6. CASE TurnStep
  BY <1>6 DEF TurnStep, RecordPrompt, RejectPrompt, RejectPromptWith, LoopEnds
<1>7. CASE Background
  BY <1>3, <1>4, <1>7
  DEF Background, Launch, Adopt, RunStep, FinishRejected, CompressFails,
      CompressDone, Rotate, RotateFails, ResetThread, Close, turnVars
<1>8. CASE UNCHANGED vars
  BY <1>4, <1>8 DEF vars, turnVars
<1> QED
  BY <1>5, <1>6, <1>7, <1>8 DEF Next

(* A turn outranks whatever it leaves queued, and in its tier came first.  *)
THEOREM TurnStartsInOrder == Spec => StartsInOrder
<1> DEFINE Ahead(s) ==
      \A i \in DOMAIN queue' :
        \/ Rank(s, tier') < Rank(queue'[i], tier')
        \/ /\ Rank(s, tier') = Rank(queue'[i], tier')
           /\ \A j, k \in DOMAIN queue :
                (queue[j] = s /\ queue[k] = queue'[i]) => j < k
<1>1. ASSUME IInv, IInv', [Next]_vars, NEW s \in Submissions,
             active' = s, phase' = "hook", phase # "hook"
      PROVE  Ahead(s)
  <2>1. CASE queue' = <<>>
    BY <2>1
  <2>2. CASE EndTurn
    <3>1. Chosen(queue, tier) /\ NoTwice(queue) /\ tier' = tier
      <4>1. Chosen(queue, tier) /\ Placed
        BY <1>1, <2>2, TurnEnded
      <4> QED
        BY <2>2, <4>1 DEF Placed, EndTurn
    <3>2. PICK n \in DOMAIN queue :
            /\ active' = queue[n]
            /\ \A i \in DOMAIN queue' : \E j \in DOMAIN queue :
                 /\ j # n /\ queue'[i] = queue[j]
                 /\ \/ Rank(queue[n], tier) < Rank(queue[j], tier)
                    \/ Rank(queue[n], tier) = Rank(queue[j], tier) /\ n < j
      BY <3>1 DEF Chosen
    <3> SUFFICES ASSUME NEW i \in DOMAIN queue'
                 PROVE  \/ Rank(s, tier') < Rank(queue'[i], tier')
                        \/ /\ Rank(s, tier') = Rank(queue'[i], tier')
                           /\ \A j, k \in DOMAIN queue :
                                (queue[j] = s /\ queue[k] = queue'[i]) => j < k
      OBVIOUS
    <3>3. PICK m \in DOMAIN queue :
            /\ queue'[i] = queue[m]
            /\ \/ Rank(queue[n], tier) < Rank(queue[m], tier)
               \/ Rank(queue[n], tier) = Rank(queue[m], tier) /\ n < m
      BY <3>2
    <3>4. \A j, k \in DOMAIN queue :
            (queue[j] = s /\ queue[k] = queue'[i]) => j = n /\ k = m
      BY <1>1, <3>1, <3>2, <3>3 DEF NoTwice
    <3> QED
      BY <1>1, <3>1, <3>2, <3>3, <3>4
  <2> QED
    BY <1>1, <2>1, <2>2, StartedBy
<1>2. IInv /\ IInv' /\ [Next]_vars =>
        [ \A s \in Submissions :
            (active' = s /\ phase' = "hook" /\ phase # "hook") => Ahead(s) ]_vars
  BY <1>1
<1> QED
  BY <1>2, TurnInductive, PTL DEF Spec, StartsInOrder

-----------------------------------------------------------------------------
(* McpClients: what a turn can call.  In the end every server and refresh  *)
(* is in order (Good) for as long as no two activities met at servers of   *)
(* one prefix (crossed); the types hold whatever happens.                  *)

(* The function names that can be of server s.                             *)
Own(s) == {Plain(s, t) : t \in Tools} \cup {Hashed(s, t) : t \in Tools}

(* Actions that wait for a transport or a server, and servers without one. *)
Live(a) == act[a].phase \in {"closing", "connecting"}
Left(s) == \A a \in Actions : Live(a) => act[a].server # s

(* A connection whose server does not change any more.                     *)
Lasting(c) ==
  c \in Servers \/ (c \in Actions /\ act[c].phase = "done" /\ act[c].server \in Servers)

(* What the connection of s holds of tool t, and the definition it has of  *)
(* it.                                                                     *)
HasTool(s, t) == conn[s] # None /\ held[conn[s]][t].v # 0
DefOf(s, t) ==
  [name |-> held[conn[s]][t].name, conn |-> conn[s], tool |-> t, v |-> held[conn[s]][t].v]

(* Types, of the activities too; a connection in use was made by an action *)
(* that is done.                                                           *)
Refreshes ==
  [all : SUBSET Servers, left : SUBSET Servers, at : Conns \cup {None},
   phase : {"idle", "running"}, removed : SUBSET (FunctionNames \cup {None}),
   tools : SUBSET Definitions]

Types ==
  /\ McpTypeOK
  /\ act \in [Actions ->
       [kind : {"none", "add", "auth", "disable", "remove"},
        server : Servers \cup {None},
        phase : {"new", "closing", "connecting", "done"},
        before : SUBSET FunctionNames]]
  /\ sync \in [Syncs -> Refreshes]
  /\ registry \in [FunctionNames -> Definitions \cup {None}]
  /\ crossed \in BOOLEAN
  /\ \A a \in Actions : Live(a) => act[a].server \in Servers
  /\ \A c \in open : Lasting(c)
  /\ \A s \in Servers : conn[s] # None => Lasting(conn[s])
  /\ \A r \in Syncs : sync[r].at # None => Lasting(sync[r].at)

(* Servers that cannot have a name in common.                              *)
Apart(s, q) == Prefix[s] # Prefix[q]

(* Each activity that is under way is at servers apart from all others.    *)
ActInv ==
  \A a \in Actions :
    /\ Live(a) => act[a].before = names[act[a].server] /\ conn[act[a].server] = None
    /\ act[a].phase = "closing" => act[a].kind \in {"auth", "disable", "remove"}
    /\ act[a].phase # "done" => \A t \in Tools : held[a][t] = NoTool

SepInv ==
  /\ \A a, b \in Actions : a # b /\ Live(a) /\ Live(b) => Apart(act[a].server, act[b].server)
  /\ \A a \in Actions, r \in Syncs : Live(a) => \A s \in sync[r].all : Apart(s, act[a].server)
  /\ \A r, q \in Syncs : r # q => \A s \in sync[r].all, u \in sync[q].all : Apart(s, u)

(* A refresh asks over the connection that the server has still.           *)
SyncInv ==
  \A r \in Syncs :
    /\ sync[r].phase = "idle" => sync[r] = IdleSync
    /\ sync[r].left \subseteq sync[r].all
    /\ sync[r].at # None => /\ ServerOf(sync[r].at) \in sync[r].all \ sync[r].left
                            /\ conn[ServerOf(sync[r].at)] = sync[r].at

ConnInv ==
  \A s \in Servers : conn[s] # None => ServerOf(conn[s]) = s /\ conn[s] \in open

(* The books: a server is listed with the names of the tools that its      *)
(* connection holds, all of them its own and taken; one that nothing is    *)
(* done to is connected or has none.                                       *)
NamesOwn == \A s \in Servers : names[s] \subseteq Own(s)

NamesApart == \A s, q \in Servers : s # q => names[s] \cap names[q] = {}

HeldNames ==
  \A s \in Servers, t \in Tools : HasTool(s, t) =>
    held[conn[s]][t].name \in {Plain(s, t), Hashed(s, t)}

NamesHeld ==
  \A s \in Servers : conn[s] # None =>
    \A n : n \in names[s] <=> \E t \in Tools : HasTool(s, t) /\ n = held[conn[s]][t].name

Resting ==
  \A s \in Servers : Left(s) => /\ conn[s] # None <=> statuses[s] = "connected"
                                /\ conn[s] = None => names[s] = {}

Taken == \A n : n \in taken <=> \E s \in Servers : conn[s] # None /\ n \in names[s]

BookInv == NamesOwn /\ NamesApart /\ HeldNames /\ NamesHeld /\ Resting /\ Taken

(* The registry: every entry is of a name still listed for its server, or  *)
(* is about to be removed by a refresh; every tool held is registered, or  *)
(* about to be; and what a refresh is about to register will find its name *)
(* free.                                                                   *)
Stems ==
  \A n \in FunctionNames : registry[n] # None =>
    /\ Lasting(registry[n].conn) /\ n \in Own(ServerOf(registry[n].conn))
    /\ \/ \E r \in Syncs : n \in sync[r].removed
       \/ n \in names[ServerOf(registry[n].conn)]

Served ==
  \A s \in Servers, t \in Tools : HasTool(s, t) =>
    \/ \E r \in Syncs : DefOf(s, t) \in sync[r].tools
    \/ /\ registry[DefOf(s, t).name] = DefOf(s, t)
       /\ \A r \in Syncs : DefOf(s, t).name \notin sync[r].removed

Pending ==
  \A r \in Syncs : \A d \in sync[r].tools :
    /\ \E s \in sync[r].all \ sync[r].left, t \in Tools :
         HasTool(s, t) /\ d = DefOf(s, t) /\ conn[s] # sync[r].at
    /\ registry[d.name] = None \/ d.name \in sync[r].removed

Removing == \A r \in Syncs : \A n \in sync[r].removed : \E s \in sync[r].all : n \in Own(s)

RegInv == Stems /\ Served /\ Pending /\ Removing

(* What a server lists is what its connection holds, unless it is marked   *)
(* or its list still to be asked for.                                      *)
FreshInv ==
  \A s \in Servers :
    /\ conn[s] # None /\ s \notin dirty
    /\ \A r \in Syncs : s \notin sync[r].left /\ sync[r].at # conn[s]
    => \A t \in Tools : held[conn[s]][t].v = offered[s][t]

Good == ActInv /\ SepInv /\ SyncInv /\ ConnInv /\ BookInv /\ RegInv /\ FreshInv

McpInv == Types /\ (~crossed => Good)

-----------------------------------------------------------------------------
(* Servers of different prefix have no name in common, and no hashed name  *)
(* is another server's at all.                                             *)
LEMMA OwnApart ==
  ASSUME NEW s \in Servers, NEW q \in Servers, Apart(s, q)
  PROVE  Own(s) \cap Own(q) = {}
BY McpAssumption DEF Own, Plain, Hashed, Apart

LEMMA HashedAlone ==
  ASSUME NEW s \in Servers, NEW q \in Servers, s # q, NEW t \in Tools
  PROVE  Hashed(s, t) \notin Own(q)
BY McpAssumption DEF Own, Plain, Hashed

(* A name is of one tool.                                                  *)
LEMMA OneTool ==
  ASSUME NEW s \in Servers, NEW t \in Tools, NEW u \in Tools,
         {Plain(s, t), Hashed(s, t)} \cap {Plain(s, u), Hashed(s, u)} # {}
  PROVE  t = u
BY DEF Plain, Hashed

LEMMA ToolOf ==
  ASSUME NEW s, NEW t, NEW n, n \in {Plain(s, t), Hashed(s, t)}
  PROVE  n.tool = t
<1>1. Plain(s, t).tool = t /\ Hashed(s, t).tool = t
  BY DEF Plain, Hashed
<1> QED BY <1>1

(* The names of a server are function names, and None is not.              *)
LEMMA OwnNames ==
  ASSUME NEW s \in Servers
  PROVE  /\ Own(s) \subseteq FunctionNames
         /\ \A t \in Tools : {Plain(s, t), Hashed(s, t)} \subseteq Own(s)
BY McpAssumption DEF Own, Plain, Hashed, FunctionNames

LEMMA NoneOutside ==
  /\ None \notin Conns /\ None \notin Servers /\ None \notin Actions
  /\ None \notin FunctionNames /\ None \notin Definitions
BY McpAssumption DEF Conns

(* uniqueMcpRegisteredName gives an own name that is not seen, and gives   *)
(* one whenever the hashed name is not.                                    *)
LEMMA FreeType ==
  ASSUME NEW s \in Servers, NEW t \in Tools, NEW seen, Free(s, t, seen) # None
  PROVE  Free(s, t, seen) \in {Plain(s, t), Hashed(s, t)} /\ Free(s, t, seen) \notin seen
BY DEF Free

LEMMA FreeName ==
  ASSUME NEW s \in Servers, NEW t \in Tools, NEW seen, Hashed(s, t) \notin seen
  PROVE  Free(s, t, seen) # None
BY OwnNames, NoneOutside DEF Free, Own

(* withRegisteredNames leaves no tool out if no hashed name is seen, and   *)
(* changes the one connection only.                                        *)
LEMMA GivenAll ==
  ASSUME NEW s \in Servers, NEW T \in SUBSET Tools, NEW seen,
         \A t \in T : Hashed(s, t) \notin seen
  PROVE  Given(s, T, seen) = T
BY FreeName DEF Given

LEMMA KeptAt ==
  ASSUME NEW h, NEW c, c # None, NEW s, NEW T, NEW list, NEW seen, c \in DOMAIN h
  PROVE  /\ DOMAIN Kept(h, c, s, T, list, seen) = DOMAIN h
         /\ \A e \in DOMAIN h : e # c => Kept(h, c, s, T, list, seen)[e] = h[e]
         /\ Kept(h, c, s, T, list, seen)[c] = [t \in Tools |->
              IF t \in Given(s, T, seen)
                THEN [v |-> list[t], name |-> Free(s, t, seen)] ELSE h[c][t]]
BY DEF Kept

(* Types of what it returns, and of the registry.                          *)
LEMMA DefsTyped ==
  ASSUME NEW s \in Servers, NEW c \in Conns, NEW T \in SUBSET Tools,
         NEW list \in [Tools -> Versions], NEW seen
  PROVE  /\ Defs(s, c, T, list, seen) \subseteq Definitions
         /\ NamesOf(s, T, seen) \subseteq Own(s)
<1>1. \A t \in Given(s, T, seen) : t \in T /\ Free(s, t, seen) \in Own(s)
  BY FreeType, OwnNames DEF Given
<1> QED BY <1>1, OwnNames DEF Defs, NamesOf, Definitions

LEMMA AddedTyped ==
  ASSUME NEW reg \in [FunctionNames -> Definitions \cup {None}], NEW D \in SUBSET Definitions
  PROVE  Added(reg, D) \in [FunctionNames -> Definitions \cup {None}]
<1>1. \A n \in FunctionNames : (\E d \in D : d.name = n) => (CHOOSE d \in D : d.name = n) \in D
  OBVIOUS
<1> QED BY <1>1 DEF Added

LEMMA WithoutTyped ==
  ASSUME NEW reg \in [FunctionNames -> Definitions \cup {None}], NEW G
  PROVE  Without(reg, G) \in [FunctionNames -> Definitions \cup {None}]
BY DEF Without

LEMMA RegistersTyped ==
  ASSUME NEW reg \in [FunctionNames -> Definitions \cup {None}],
         NEW D \in SUBSET Definitions, Registers(reg, D)
  PROVE  registry' \in [FunctionNames -> Definitions \cup {None}]
BY AddedTyped DEF Registers, Fresh

(* register throws for nothing and adds all if every name is free, and     *)
(* adds no other.                                                          *)
LEMMA RegistersAll ==
  ASSUME NEW reg, NEW D, Registers(reg, D),
         \A d \in D : reg[d.name] = None,
         \A d, e \in D : d.name = e.name => d = e
  PROVE  /\ registry' = Added(reg, D)
         /\ \A d \in D : d.name \in FunctionNames => registry'[d.name] = d
         /\ \A n \in FunctionNames : \/ registry'[n] \in D /\ registry'[n].name = n
                                     \/ (\A d \in D : d.name # n) /\ registry'[n] = reg[n]
<1>1. registry' = Added(reg, D)
  BY DEF Registers, Fresh
<1>2. \A n \in FunctionNames : (\E d \in D : d.name = n) =>
         (CHOOSE d \in D : d.name = n) \in D /\ (CHOOSE d \in D : d.name = n).name = n
  OBVIOUS
<1> QED BY <1>1, <1>2 DEF Added

-----------------------------------------------------------------------------
(* The server of a connection in use does not change.                      *)
LEMMA LastingStays ==
  ASSUME Types, [McpNext]_mcpVars
  PROVE  \A c : Lasting(c) => Lasting(c)' /\ ServerOf(c)' = ServerOf(c)
<1>0. DOMAIN act = Actions
  BY DEF Types
<1>1. \A c \in Actions : act[c].phase = "done" => act'[c] = act[c]
  <2>1. CASE UNCHANGED act
    BY <2>1
  <2>2. ASSUME NEW a \in Actions, NEW k, NEW s, NEW ph, NEW b, Does(a, k, s, ph, b),
               act[a].phase # "done"
        PROVE  \A c \in Actions : act[c].phase = "done" => act'[c] = act[c]
    BY <1>0, <2>2 DEF Does
  <2>3. ASSUME NEW s \in Servers, NEW t \in Tools, Change(s, t) PROVE UNCHANGED act
    BY <2>3 DEF Change
  <2>4. ASSUME NEW a \in Actions, NEW s \in Servers,
               Add(a, s) \/ AddDisabled(a, s) \/ Authenticate(a, s)
                 \/ Mutate(a, s, "disable") \/ Mutate(a, s, "remove")
        PROVE  \A c \in Actions : act[c].phase = "done" => act'[c] = act[c]
    BY <2>4, <2>2 DEF Add, AddDisabled, Authenticate, Mutate, Ended
  <2>5. ASSUME NEW a \in Actions, Closed(a)
        PROVE  \A c \in Actions : act[c].phase = "done" => act'[c] = act[c]
    BY <1>0, <2>5, <2>2 DEF Closed, Ended
  <2>6. ASSUME NEW a \in Actions, Connected(a) \/ ConnectFails(a)
        PROVE  \A c \in Actions : act[c].phase = "done" => act'[c] = act[c]
    BY <2>6, <2>2 DEF Connected, ConnectedThen, ConnectFails, Ended
  <2>7. ASSUME NEW r \in Syncs,
               StartSync(r) \/ NextServer(r) \/ Lists(r) \/ ListFails(r) \/ Applies(r)
        PROVE  UNCHANGED act
    BY <2>7 DEF StartSync, NextServer, Lists, ListFails, ListFailsThen, Applies, AppliesTo
  <2> QED BY <2>1, <2>3, <2>4, <2>5, <2>6, <2>7 DEF McpNext, mcpVars
<1> QED BY <1>1 DEF Lasting, ServerOf

(* Types, action by action.                                                *)
LEMMA KeptTyped ==
  ASSUME NEW h \in [Conns -> [Tools -> [v : Versions, name : FunctionNames \cup {None}]]],
         NEW c \in Conns \cup {None}, NEW s \in Servers, NEW T \in SUBSET Tools,
         NEW list \in [Tools -> Versions], NEW seen
  PROVE  Kept(h, c, s, T, list, seen)
           \in [Conns -> [Tools -> [v : Versions, name : FunctionNames \cup {None}]]]
<1>1. CASE c = None
  BY <1>1 DEF Kept
<1>2. CASE c # None
  <2>1. \A t \in Given(s, T, seen) : t \in Tools /\ Free(s, t, seen) \in FunctionNames
    BY FreeType, OwnNames DEF Given
  <2> QED BY <1>2, <2>1 DEF Kept
<1> QED BY <1>1, <1>2

ActTypes ==
  /\ act \in [Actions ->
       [kind : {"none", "add", "auth", "disable", "remove"},
        server : Servers \cup {None},
        phase : {"new", "closing", "connecting", "done"},
        before : SUBSET FunctionNames]]
  /\ \A a \in Actions : Live(a) => act[a].server \in Servers

LEMMA ActTyped ==
  ASSUME ActTypes,
         NEW a \in Actions, NEW k \in {"none", "add", "auth", "disable", "remove"},
         NEW s \in Servers \cup {None}, NEW ph \in {"new", "closing", "connecting", "done"},
         NEW b \in SUBSET FunctionNames, Does(a, k, s, ph, b),
         ph \in {"closing", "connecting"} => s \in Servers
  PROVE  ActTypes'
BY DEF ActTypes, Does, Live

LEMMA TypesStep ==
  ASSUME Types, [McpNext]_mcpVars
  PROVE  Types'
<1> USE NoneOutside
<1> USE DEF IdleSync
<1>0. \A c : Lasting(c) => Lasting(c)'
  BY LastingStays
<1>1. \A c : Lasting(c) => c \in Conns /\ ServerOf(c) \in Servers
  BY DEF Lasting, ServerOf, Conns
<1>2. 0 \in Versions
  BY McpAssumption DEF Versions
<1>3. CASE UNCHANGED mcpVars
  BY <1>3, <1>0 DEF Types, McpTypeOK, mcpVars, server, books, Live
<1>4. ASSUME NEW s \in Servers, NEW t \in Tools, Change(s, t) PROVE Types'
  <2>1. offered' \in [Servers -> [Tools -> Versions]] /\ changes' \in 0..MaxChanges
    BY <1>4, McpAssumption DEF Types, McpTypeOK, Change
  <2>2. dirty' \subseteq Servers
    BY <1>4 DEF Types, McpTypeOK, Change
  <2> QED BY <1>0, <1>4, <2>1, <2>2 DEF Types, McpTypeOK, Change, books, Live
<1> DEFINE Rest == /\ sync \in [Syncs -> Refreshes]
                   /\ registry \in [FunctionNames -> Definitions \cup {None}]
                   /\ crossed \in BOOLEAN
                   /\ \A c \in open : Lasting(c)
                   /\ \A s \in Servers : conn[s] # None => Lasting(conn[s])
                   /\ \A r \in Syncs : sync[r].at # None => Lasting(sync[r].at)
<1>A. ActTypes /\ Rest /\ McpTypeOK
  BY DEF Types, ActTypes
<1>B. ASSUME ActTypes', Rest', McpTypeOK' PROVE Types'
  BY <1>B DEF Types, ActTypes
<1>C. ASSUME NEW S, Enters(S) PROVE crossed' \in BOOLEAN
  BY <1>C, <1>A DEF Enters
<1> HIDE DEF IdleSync
<1>5. ASSUME NEW a \in Actions, NEW s \in Servers, Add(a, s) PROVE Types'
  <2>1. ActTypes'
    BY <1>A, <1>5, ActTyped DEF Add
  <2>2. Rest'
    BY <1>A, <1>C, <1>0, <1>5 DEF Add
  <2>3. McpTypeOK'
    BY <1>A, <1>5 DEF McpTypeOK, Add, server
  <2> QED BY <2>1, <2>2, <2>3, <1>B
<1>6. ASSUME NEW a \in Actions, NEW s \in Servers, AddDisabled(a, s) PROVE Types'
  <2>1. ActTypes'
    BY <1>A, <1>6, ActTyped DEF AddDisabled, Ended
  <2>2. Rest'
    BY <1>A, <1>C, <1>0, <1>6 DEF AddDisabled
  <2>3. McpTypeOK'
    BY <1>A, <1>6 DEF McpTypeOK, AddDisabled, server
  <2> QED BY <2>1, <2>2, <2>3, <1>B
<1>7. ASSUME NEW a \in Actions, NEW s \in Servers, Authenticate(a, s) PROVE Types'
  <2>1. ActTypes'
    BY <1>A, <1>7, ActTyped DEF Authenticate, McpTypeOK
  <2>2. Rest'
    BY <1>A, <1>C, <1>0, <1>7 DEF Authenticate, CloseConnection, CloseFreeing, McpTypeOK
  <2>3. McpTypeOK'
    BY <1>A, <1>7 DEF McpTypeOK, Authenticate, CloseConnection, CloseFreeing, server
  <2> QED BY <2>1, <2>2, <2>3, <1>B
<1>8. ASSUME NEW a \in Actions, NEW s \in Servers, NEW k \in {"disable", "remove"}, Mutate(a, s, k)
      PROVE  Types'
  <2>1. ActTypes'
    BY <1>A, <1>8, ActTyped DEF Mutate, Ended, McpTypeOK
  <2>2. registry' \in [FunctionNames -> Definitions \cup {None}]
    <3>1. \A G : Without(registry, G) \in [FunctionNames -> Definitions \cup {None}]
      BY <1>A, WithoutTyped
    <3> QED BY <1>A, <1>8, <3>1 DEF Mutate, Mutated
  <2>3. Rest'
    BY <1>A, <1>C, <1>0, <1>8, <2>2 DEF Mutate, CloseConnection, CloseFreeing, McpTypeOK
  <2>4. McpTypeOK'
    BY <1>A, <1>8 DEF McpTypeOK, Mutate, Mutated, CloseConnection, CloseFreeing, server
  <2> QED BY <2>1, <2>3, <2>4, <1>B
<1>9. ASSUME NEW a \in Actions, Closed(a) PROVE Types'
  <2>1. ActTypes'
    <3>1. CASE act[a].kind = "auth"
      BY <1>A, <1>9, <3>1 DEF Closed, ActTypes, Live
    <3>2. CASE act[a].kind # "auth"
      BY <1>A, <1>9, <3>2, ActTyped DEF Closed, Ended
    <3> QED BY <3>1, <3>2
  <2>2. registry' \in [FunctionNames -> Definitions \cup {None}]
    <3>1. \A G : Without(registry, G) \in [FunctionNames -> Definitions \cup {None}]
      BY <1>A, WithoutTyped
    <3> QED BY <1>A, <1>9, <3>1 DEF Closed, Mutated
  <2>3. Rest'
    BY <1>A, <1>0, <1>9, <2>2 DEF Closed
  <2>4. McpTypeOK'
    BY <1>A, <1>9 DEF McpTypeOK, Closed, Mutated, server
  <2> QED BY <2>1, <2>3, <2>4, <1>B
<1>10. ASSUME NEW a \in Actions, Connected(a) PROVE Types'
  <2> DEFINE s == act[a].server
             T == IsListed(offered[s])
  <2>1. s \in Servers /\ T \in SUBSET Tools /\ offered[s] \in [Tools -> Versions]
    BY <1>10 DEF Connected, ConnectedThen, Types, McpTypeOK, Live, IsListed
  <2>2. a \in Conns
    BY DEF Conns
  <2>3. held' \in [Conns -> [Tools -> [v : Versions, name : FunctionNames \cup {None}]]]
    BY <1>10, <2>1, <2>2, KeptTyped DEF Connected, ConnectedThen, Types, McpTypeOK
  <2>4. NamesOf(s, T, taken) \subseteq FunctionNames
    BY <2>1, <2>2, DefsTyped, OwnNames
  <2>5. registry' \in [FunctionNames -> Definitions \cup {None}]
    <3> DEFINE reg == Without(registry, act[a].before)
               D == Defs(s, a, T, offered[s], taken)
    <3>1. D \in SUBSET Definitions
      BY <2>1, <2>2, DefsTyped
    <3>2. reg \in [FunctionNames -> Definitions \cup {None}]
      BY <1>A, WithoutTyped
    <3>3. Registers(reg, D)
      BY <1>10 DEF Connected, ConnectedThen
    <3> HIDE DEF reg, D
    <3> QED BY <3>1, <3>2, <3>3, RegistersTyped
  <2>6. Lasting(a)'
    BY <1>10, <2>1 DEF Connected, ConnectedThen, Ended, Does, Lasting, Types
  <2>7. ActTypes'
    BY <1>A, <1>10, <2>1, ActTyped DEF Connected, ConnectedThen, Ended
  <2>8. Rest'
    BY <1>A, <1>10, <1>0, <2>5, <2>6 DEF Connected, ConnectedThen, McpTypeOK
  <2>9. McpTypeOK'
    BY <1>A, <1>10, <2>1, <2>2, <2>3, <2>4 DEF McpTypeOK, Connected, ConnectedThen, server
  <2> QED BY <2>7, <2>8, <2>9, <1>B
<1>11. ASSUME NEW a \in Actions, ConnectFails(a) PROVE Types'
  <2>1. ActTypes'
    BY <1>A, <1>11, ActTyped DEF ConnectFails, Ended
  <2>2. registry' \in [FunctionNames -> Definitions \cup {None}]
    <3>1. \A G : Without(registry, G) \in [FunctionNames -> Definitions \cup {None}]
      BY <1>A, WithoutTyped
    <3> QED BY <1>11, <3>1 DEF ConnectFails
  <2>3. Rest'
    BY <1>A, <1>0, <1>11, <2>2 DEF ConnectFails
  <2>4. McpTypeOK'
    BY <1>A, <1>11 DEF McpTypeOK, ConnectFails, server
  <2> QED BY <2>1, <2>3, <2>4, <1>B
<1>12. ASSUME NEW r \in Syncs, StartSync(r) PROVE Types'
  <2>1. Rest'
    BY <1>A, <1>C, <1>0, <1>12 DEF McpTypeOK, StartSync, books, IdleSync, Refreshes
  <2>2. McpTypeOK' /\ ActTypes'
    BY <1>A, <1>12 DEF McpTypeOK, ActTypes, Live, StartSync, server, books
  <2> QED BY <2>1, <2>2, <1>B
<1>13. ASSUME NEW r \in Syncs, NextServer(r) PROVE Types'
  <2>1. Rest'
    <3>1. PICK s \in sync[r].left :
            sync' = [sync EXCEPT ![r].left = @ \ {s}, ![r].at = conn[s]]
      BY <1>13 DEF NextServer
    <3>2. s \in Servers /\ conn[s] \in Conns \cup {None} /\ (conn[s] # None => Lasting(conn[s]))
      BY <1>A DEF McpTypeOK, Refreshes
    <3>3. sync'[r] = [sync[r] EXCEPT !.left = @ \ {s}, !.at = conn[s]] /\ sync[r] \in Refreshes
      BY <1>A, <3>1
    <3>4. \A q \in Syncs : q # r => sync'[q] = sync[q]
      BY <1>A, <3>1
    <3>5. sync' \in [Syncs -> Refreshes]
      <4>1. sync'[r] \in Refreshes
        BY <3>2, <3>3 DEF Refreshes
      <4> QED BY <1>A, <3>1, <3>4, <4>1
    <3>6. UNCHANGED <<registry, crossed, open, conn>>
      BY <1>13 DEF NextServer, books
    <3>7. \A q \in Syncs : sync'[q].at # None => Lasting(sync'[q].at)
      BY <1>A, <3>2, <3>3, <3>4 DEF Refreshes
    <3> QED BY <1>A, <1>0, <3>5, <3>6, <3>7
  <2>2. McpTypeOK' /\ ActTypes'
    BY <1>A, <1>13 DEF McpTypeOK, ActTypes, Live, NextServer, server, books
  <2> QED BY <2>1, <2>2, <1>B
<1>14. ASSUME NEW r \in Syncs, Lists(r) PROVE Types'
  <2> DEFINE c == sync[r].at
             s == ServerOf(c)
             list == offered[s]
             lost == {t \in Tools : held[c][t].v # 0 /\ held[c][t].v # list[t]}
             changed == {t \in Tools : list[t] # 0 /\ held[c][t].v # list[t]}
             gone == {held[c][t].name : t \in lost}
             seen == taken \ gone
             dropped == [held EXCEPT ![c] = [t \in Tools |->
                           IF t \in lost THEN NoTool ELSE held[c][t]]]
             new == NamesOf(s, changed, seen)
  <2>1. c \in Conns /\ s \in Servers /\ list \in [Tools -> Versions] /\ changed \in SUBSET Tools
    BY <1>1, <1>14 DEF Lists, Types, McpTypeOK
  <2>2. dropped \in [Conns -> [Tools -> [v : Versions, name : FunctionNames \cup {None}]]]
    BY <1>2, <2>1 DEF Types, McpTypeOK, NoTool
  <2>3. conn[s] \in Conns \cup {None}
    BY <2>1 DEF Types, McpTypeOK
  <2>4. held' \in [Conns -> [Tools -> [v : Versions, name : FunctionNames \cup {None}]]]
    <3> HIDE DEF dropped, changed, seen
    <3>1. held' = Kept(dropped, conn[s], s, changed, list, seen)
      BY <1>14 DEF Lists, dropped, changed, seen
    <3> QED BY <2>1, <2>2, <2>3, <3>1, KeptTyped
  <2>5. Defs(s, c, changed, list, seen) \subseteq Definitions /\ new \subseteq FunctionNames
    BY <2>1, DefsTyped, OwnNames
  <2>6. taken' \subseteq FunctionNames
    BY <1>14, <2>5 DEF Lists, Types, McpTypeOK
  <2>7. names' \in [Servers -> SUBSET FunctionNames]
    BY <1>14, <2>5 DEF Lists, Types, McpTypeOK
  <2>8. gone \subseteq FunctionNames \cup {None}
    BY <2>1, <1>A DEF McpTypeOK
  <2>9. Rest'
    <3>1. sync' = [sync EXCEPT ![r].at = None, ![r].removed = @ \cup gone,
                     ![r].tools = @ \cup Defs(s, c, changed, list, seen)]
      BY <1>14 DEF Lists
    <3> DEFINE D == Defs(s, c, changed, list, seen)
    <3>0. sync[r] \in Refreshes
      BY <1>A
    <3>2. UNCHANGED <<registry, crossed, open, conn>>
      BY <1>14 DEF Lists
    <3> HIDE DEF gone, D
    <3>3. \A q \in Syncs : q # r => sync'[q] = sync[q]
      BY <1>A, <3>1
    <3>4. sync'[r] = [sync[r] EXCEPT !.at = None, !.removed = @ \cup gone, !.tools = @ \cup D]
      BY <1>A, <3>1 DEF D
    <3>5. sync' \in [Syncs -> Refreshes]
      <4>1. /\ sync[r].removed \cup gone \subseteq FunctionNames \cup {None}
            /\ sync[r].tools \cup D \subseteq Definitions
        BY <3>0, <2>5, <2>8 DEF D, Refreshes
      <4>2. sync'[r] \in Refreshes
        BY <3>0, <3>4, <4>1 DEF Refreshes
      <4> QED BY <1>A, <3>1, <3>3, <4>2
    <3>6. \A q \in Syncs : sync'[q].at # None => Lasting(sync'[q].at)
      BY <1>A, <3>0, <3>3, <3>4 DEF Refreshes
    <3> QED BY <1>A, <1>0, <3>2, <3>5, <3>6
  <2>10. ActTypes'
    BY <1>A, <1>14 DEF Lists, ActTypes, Live
  <2>11. McpTypeOK'
    <3>1. UNCHANGED <<server, conn, open, known, statuses, dirty>>
      BY <1>14 DEF Lists
    <3> HIDE DEF c, s, list, lost, changed, gone, seen, dropped, new
    <3> QED BY <1>A, <3>1, <2>4, <2>6, <2>7 DEF McpTypeOK, server
  <2> QED BY <2>9, <2>10, <2>11, <1>B
<1>15. ASSUME NEW r \in Syncs, ListFails(r) PROVE Types'
  <2>1. Rest'
    BY <1>A, <1>0, <1>15 DEF ListFails, ListFailsThen, books, Refreshes
  <2>2. McpTypeOK' /\ ActTypes'
    BY <1>A, <1>1, <1>15 DEF McpTypeOK, ActTypes, Live, ListFails, ListFailsThen, server, books
  <2> QED BY <2>1, <2>2, <1>B
<1>16. ASSUME NEW r \in Syncs, Applies(r) PROVE Types'
  <2>1. registry' \in [FunctionNames -> Definitions \cup {None}]
    <3>1. Without(registry, sync[r].removed) \in [FunctionNames -> Definitions \cup {None}]
      BY <1>A, WithoutTyped
    <3>2. sync[r].tools \subseteq Definitions
      BY <1>A DEF Refreshes
    <3> QED BY <1>16, <3>1, <3>2, RegistersTyped DEF Applies, AppliesTo
  <2>2. Rest'
    BY <1>A, <1>0, <1>16, <2>1 DEF Applies, AppliesTo, books, IdleSync, Refreshes
  <2>3. McpTypeOK' /\ ActTypes'
    BY <1>A, <1>16 DEF McpTypeOK, ActTypes, Live, Applies, AppliesTo, server, books
  <2> QED BY <2>2, <2>3, <1>B
<1> QED BY <1>3, <1>4, <1>5, <1>6, <1>7, <1>8, <1>9, <1>10, <1>11, <1>12, <1>13, <1>14, <1>15, <1>16
        DEF McpNext

-----------------------------------------------------------------------------
(* The start: initialize gives the names in the order of the               *)
(* configuration, so that each is given once.                              *)
LEMMA AddedAll ==
  ASSUME NEW reg, NEW D, \A d, e \in D : d.name = e.name => d = e
  PROVE  /\ \A d \in D : d.name \in FunctionNames => Added(reg, D)[d.name] = d
         /\ \A n \in FunctionNames :
              \/ Added(reg, D)[n] \in D /\ Added(reg, D)[n].name = n
              \/ (\A d \in D : d.name # n) /\ Added(reg, D)[n] = reg[n]
<1>1. \A n \in FunctionNames : (\E d \in D : d.name = n) =>
         (CHOOSE d \in D : d.name = n) \in D /\ (CHOOSE d \in D : d.name = n).name = n
  OBVIOUS
<1> QED BY <1>1 DEF Added

LEMMA InitHolds ==
  ASSUME McpInit
  PROVE  McpInv
<1> USE NoneOutside
<1> DEFINE up == {s \in Servers : statuses[s] = "connected"}
           Listed(s) == IF s \in up THEN IsListed(offered[s]) ELSE {}
           N(s, t) == NameAtStart(up, s, t)
           D(s, t) == [name |-> N(s, t), conn |-> s, tool |-> t, v |-> offered[s][t]]
           all == UNION {{D(s, t) : t \in Listed(s)} : s \in Servers}
<1>1. /\ offered \in [Servers -> [Tools -> {0, 1}]] /\ changes = 0
      /\ known \in SUBSET Servers
      /\ statuses \in [Servers -> {"absent", "disabled", "error", "connected"}]
      /\ conn = [s \in Servers |-> IF s \in up THEN s ELSE None]
      /\ open = up
      /\ held = [c \in Conns |-> [t \in Tools |->
             IF c \in up /\ t \in Listed(c)
               THEN [v |-> offered[c][t], name |-> N(c, t)] ELSE NoTool]]
      /\ names = [s \in Servers |-> {N(s, t) : t \in Listed(s)}]
      /\ taken = UNION {names[s] : s \in Servers}
      /\ registry = Added([n \in FunctionNames |-> None], all)
      /\ dirty = {} /\ act = [a \in Actions |-> IdleAct]
      /\ sync = [r \in Syncs |-> IdleSync] /\ crossed = FALSE
  BY DEF McpInit
<1>n. \A s \in Servers : \A n : n \in names[s] <=> \E t \in Listed(s) : n = N(s, t)
  BY <1>1
<1>h. \A c \in Conns, t \in Tools :
        held[c][t] = IF c \in up /\ t \in Listed(c)
                       THEN [v |-> offered[c][t], name |-> N(c, t)] ELSE NoTool
  BY <1>1
<1>v. \A c \in Conns, t \in Tools :
        /\ c \in up /\ t \in Listed(c) => held[c][t] = [v |-> offered[c][t], name |-> N(c, t)]
        /\ ~(c \in up /\ t \in Listed(c)) => held[c][t] = NoTool
  BY <1>h
<1>t. NoTool.v = 0 /\ NoTool.name = None /\ NoTool \in [v : {0}, name : {None}]
  BY DEF NoTool
<1>H. held = [c \in Conns |-> [t \in Tools |-> held[c][t]]]
  <2> HIDE DEF Listed, N, up
  <2> QED BY <1>1
<1>2. 0 \in Versions /\ 1 \in Versions /\ 0 \in 0..MaxChanges
  BY McpAssumption DEF Versions
<1>3. /\ \A s \in Servers, t \in Tools : N(s, t) \in {Plain(s, t), Hashed(s, t)}
      /\ \A s \in Servers : Listed(s) \in SUBSET Tools
  BY DEF NameAtStart, IsListed
<1>N. \A s \in Servers, t \in Tools :
        N(s, t) = IF \E q \in Earlier[s] \cap up : Prefix[q] = Prefix[s] /\ offered[q][t] # 0
                    THEN Hashed(s, t) ELSE Plain(s, t)
  BY DEF NameAtStart
<1>L. \A s \in Servers : \A t : t \in Listed(s) <=> s \in up /\ t \in Tools /\ offered[s][t] # 0
  BY DEF IsListed
<1>U. \A s : s \in up <=> s \in Servers /\ statuses[s] = "connected"
  OBVIOUS
<1> HIDE DEF N, Listed, up
<1>4. \A s, q \in Servers : \A t \in Listed(s), u \in Listed(q) : N(s, t) = N(q, u) => s = q /\ t = u
  <2> SUFFICES ASSUME NEW s \in Servers, NEW q \in Servers, NEW t \in Listed(s), NEW u \in Listed(q),
                      N(s, t) = N(q, u)
               PROVE  s = q /\ t = u
    OBVIOUS
  <2>1. t \in Tools /\ u \in Tools /\ s \in up /\ q \in up /\ offered[s][t] # 0 /\ offered[q][u] # 0
    BY <1>L
  <2>2. t = u
    <3>1. N(s, t) \in {Plain(s, t), Hashed(s, t)} /\ N(q, u) \in {Plain(q, u), Hashed(q, u)}
      BY <1>3, <2>1
    <3>2. N(s, t).tool = t /\ N(q, u).tool = u
      BY <3>1 DEF Plain, Hashed
    <3> QED BY <3>2
  <2>3. s # q => Prefix[s] = Prefix[q] /\ N(s, t) = Plain(s, t) /\ N(q, t) = Plain(q, t)
    <3>1. N(s, t) \in {Plain(s, t), Hashed(s, t)} /\ N(q, t) \in {Plain(q, t), Hashed(q, t)}
      BY <1>3, <2>1, <2>2
    <3>2. N(s, t) = N(q, t)
      BY <2>2
    <3>3. Prefix[s] \notin Servers /\ Prefix[q] \notin Servers
      BY McpAssumption
    <3> QED BY <3>1, <3>2, <3>3 DEF Plain, Hashed
  <2>4. Plain(s, t) # Hashed(s, t) /\ Plain(q, t) # Hashed(q, t)
    BY McpAssumption DEF Plain, Hashed
  <2>5. s \in Earlier[q] => s = q
    BY <1>N, <2>1, <2>2, <2>3, <2>4
  <2>6. q \in Earlier[s] => s = q
    BY <1>N, <2>1, <2>2, <2>3, <2>4
  <2> QED BY <2>2, <2>5, <2>6, McpAssumption
<1>5. \A s \in Servers : names[s] \subseteq Own(s) /\ Own(s) \subseteq FunctionNames
  <2>1. \A s \in Servers : \A t \in Listed(s) : N(s, t) \in Own(s)
    BY <1>3, OwnNames
  <2>2. \A s \in Servers : \A n \in names[s] : n \in Own(s)
    BY <1>n, <2>1
  <2>3. \A s \in Servers : Own(s) \subseteq FunctionNames
    BY OwnNames
  <2> QED BY <2>2, <2>3
<1>6. \A s \in Servers : \A t \in Listed(s) :
         D(s, t) \in all /\ D(s, t) \in Definitions /\ N(s, t) \in FunctionNames
  <2> SUFFICES ASSUME NEW s \in Servers, NEW t \in Listed(s)
               PROVE  D(s, t) \in all /\ D(s, t) \in Definitions /\ N(s, t) \in FunctionNames
    OBVIOUS
  <2>1. N(s, t) \in FunctionNames
    BY <1>3, OwnNames
  <2>2. offered[s][t] \in Versions /\ t \in Tools
    BY <1>1, <1>2, <1>L
  <2> QED BY <2>1, <2>2 DEF Definitions, Conns
<1>7. \A d \in all : \E s \in Servers : \E t \in Listed(s) : d = D(s, t)
  OBVIOUS
<1> HIDE DEF all, N
<1>8. \A d, e \in all : d.name = e.name => d = e
  BY <1>4, <1>7
<1>9. all \in SUBSET Definitions
  BY <1>6, <1>7
<1>10. /\ \A s \in Servers : \A t \in Listed(s) : registry[N(s, t)] = D(s, t)
       /\ \A n \in FunctionNames : registry[n] # None =>
            \E s \in Servers : \E t \in Listed(s) : registry[n] = D(s, t) /\ N(s, t) = n
  <2>1. \A d \in all : d.name \in FunctionNames => registry[d.name] = d
    BY <1>1, <1>8, AddedAll
  <2>2. \A n \in FunctionNames : \/ registry[n] \in all /\ registry[n].name = n
                                 \/ registry[n] = None
    BY <1>1, <1>8, AddedAll
  <2> QED BY <2>1, <2>2, <1>6, <1>7
<1>11. registry \in [FunctionNames -> Definitions \cup {None}]
  BY <1>1, <1>9, AddedTyped
<1>12. Types
  <2>1. held \in [Conns -> [Tools -> [v : Versions, name : FunctionNames \cup {None}]]]
    <3>1. \A s \in Servers, t \in Tools : N(s, t) \in FunctionNames
      BY <1>3, OwnNames
    <3>2. \A c \in Conns, t \in Tools : held[c][t] \in [v : Versions, name : FunctionNames \cup {None}]
      <4> SUFFICES ASSUME NEW c \in Conns, NEW t \in Tools
                   PROVE  held[c][t] \in [v : Versions, name : FunctionNames \cup {None}]
        OBVIOUS
      <4>1. CASE c \in up /\ t \in Listed(c)
        <5>1. offered[c][t] \in Versions /\ N(c, t) \in FunctionNames
          BY <4>1, <1>1, <1>2, <1>L, <1>U, <3>1
        <5>2. held[c][t] = [v |-> offered[c][t], name |-> N(c, t)]
          BY <1>v, <4>1
        <5> QED BY <5>1, <5>2
      <4>2. CASE ~(c \in up /\ t \in Listed(c))
        BY <1>v, <4>2, <1>2, <1>t
      <4> QED BY <4>1, <4>2
    <3> QED BY <1>H, <3>2
  <2>2. McpTypeOK
    <3>1. offered \in [Servers -> [Tools -> Versions]]
      BY <1>1, <1>2
    <3>2. names \in [Servers -> SUBSET FunctionNames]
      <4>1. DOMAIN names = Servers /\ names = [s \in Servers |-> names[s]]
        BY <1>1
      <4> QED BY <1>5, <4>1
    <3>3. taken \subseteq FunctionNames
      BY <1>1, <1>5
    <3>4. conn \in [Servers -> Conns \cup {None}] /\ open \subseteq Conns
      BY <1>1, <1>U DEF Conns
    <3> QED BY <1>1, <1>2, <2>1, <3>1, <3>2, <3>3, <3>4 DEF McpTypeOK
  <2>3. sync \in [Syncs -> Refreshes]
    BY <1>1 DEF IdleSync, Refreshes
  <2>4. \A a \in Actions : ~Live(a)
    BY <1>1 DEF Live, IdleAct
  <2>5. \A s \in Servers : Lasting(s)
    BY DEF Lasting
  <2>6. act \in [Actions ->
          [kind : {"none", "add", "auth", "disable", "remove"},
           server : Servers \cup {None},
           phase : {"new", "closing", "connecting", "done"},
           before : SUBSET FunctionNames]]
    BY <1>1 DEF IdleAct
  <2>7. (\A c \in open : Lasting(c)) /\ (\A s \in Servers : conn[s] # None => Lasting(conn[s]))
    BY <1>1, <1>U, <2>5
  <2>8. \A r \in Syncs : sync[r].at = None
    BY <1>1 DEF IdleSync
  <2> QED BY <1>1, <1>11, <2>2, <2>3, <2>4, <2>6, <2>7, <2>8 DEF Types
<1>13. Good
  <2>1. \A a \in Actions : act[a].phase = "new"
    BY <1>1 DEF IdleAct
  <2>2. \A r \in Syncs : sync[r] = IdleSync
    BY <1>1
  <2>3. \A s \in Servers : Lasting(s) /\ ServerOf(s) = s
    BY DEF Lasting, ServerOf
  <2>4. \A s \in Servers : /\ s \in up => conn[s] = s
                           /\ s \notin up => conn[s] = None
    BY <1>1
  <2>5. \A s \in up, t \in Tools :
           /\ t \in Listed(s) => held[s][t] = [v |-> offered[s][t], name |-> N(s, t)]
           /\ t \notin Listed(s) => held[s][t] = NoTool /\ offered[s][t] = 0
    BY <1>v, <1>L, <1>U DEF Conns
  <2>6. \A s \in Servers, t \in Tools : HasTool(s, t) =>
           s \in up /\ t \in Listed(s) /\ DefOf(s, t) = D(s, t) /\ held[conn[s]][t].name = N(s, t)
    <3> SUFFICES ASSUME NEW s \in Servers, NEW t \in Tools, HasTool(s, t)
                 PROVE  s \in up /\ t \in Listed(s) /\ DefOf(s, t) = D(s, t) /\ held[conn[s]][t].name = N(s, t)
      OBVIOUS
    <3>1. s \in up /\ conn[s] = s
      BY <2>4 DEF HasTool
    <3>2. t \in Listed(s)
      <4>1. t \notin Listed(s) => held[conn[s]][t].v = 0
        BY <2>5, <3>1, <1>t
      <4> QED BY <4>1 DEF HasTool
    <3>3. held[s][t] = [v |-> offered[s][t], name |-> N(s, t)]
      BY <2>5, <3>1, <3>2
    <3> QED BY <3>1, <3>2, <3>3 DEF DefOf
  <2>7. \A s \in up : \A t \in Listed(s) : t \in Tools /\ HasTool(s, t)
    <3> SUFFICES ASSUME NEW s \in up, NEW t \in Listed(s) PROVE t \in Tools /\ HasTool(s, t)
      OBVIOUS
    <3>1. s \in Servers /\ t \in Tools /\ offered[s][t] # 0
      BY <1>L, <1>U
    <3>2. conn[s] = s /\ held[s][t] = [v |-> offered[s][t], name |-> N(s, t)]
      BY <2>4, <2>5, <3>1
    <3> QED BY <3>1, <3>2 DEF HasTool
  <2>8. ActInv
    <3>1. \A a \in Actions, t \in Tools : held[a][t] = NoTool
      BY <1>h, <1>U, McpAssumption DEF Conns
    <3> QED BY <2>1, <3>1 DEF ActInv, Live
  <2>9. SepInv
    BY <2>1, <2>2 DEF SepInv, Live, IdleSync
  <2>10. SyncInv
    BY <2>2 DEF SyncInv, IdleSync
  <2>11. ConnInv
    BY <2>3, <2>4, <1>1 DEF ConnInv
  <2>12. BookInv
    <3>1. \A s, q \in Servers : s # q => names[s] \cap names[q] = {}
      BY <1>1, <1>4
    <3>2. NamesHeld
      <4> SUFFICES ASSUME NEW s \in Servers, conn[s] # None, NEW n
                   PROVE  n \in names[s] <=> \E t \in Tools : HasTool(s, t) /\ n = held[conn[s]][t].name
        BY DEF NamesHeld
      <4>1. s \in up
        BY <2>4
      <4> QED BY <1>n, <1>L, <2>6, <2>7, <4>1
    <3>3. \A s \in Servers : conn[s] = None => names[s] = {} /\ statuses[s] # "connected"
      BY <1>n, <1>L, <1>U, <2>4
    <3>4. Taken
      <4>1. taken = UNION {names[s] : s \in Servers}
        BY <1>1
      <4> QED BY <4>1, <3>3 DEF Taken
    <3>5. \A s \in Servers : conn[s] # None => statuses[s] = "connected"
      BY <2>4, <1>U
    <3>6. NamesOwn /\ NamesApart
      BY <1>5, <3>1 DEF NamesOwn, NamesApart
    <3>7. HeldNames
      BY <1>3, <2>6 DEF HeldNames
    <3>8. Resting
      BY <3>3, <3>5 DEF Resting
    <3> QED BY <3>2, <3>4, <3>6, <3>7, <3>8 DEF BookInv
  <2>13. RegInv
    <3>1. \A n \in FunctionNames : registry[n] # None =>
       /\ Lasting(registry[n].conn) /\ n \in Own(ServerOf(registry[n].conn))
       /\ n \in names[ServerOf(registry[n].conn)]
      <4> SUFFICES ASSUME NEW n \in FunctionNames, registry[n] # None
                   PROVE  /\ Lasting(registry[n].conn) /\ n \in Own(ServerOf(registry[n].conn))
                          /\ n \in names[ServerOf(registry[n].conn)]
        OBVIOUS
      <4>1. PICK s \in Servers : \E t \in Listed(s) : registry[n] = D(s, t) /\ N(s, t) = n
        BY <1>10
      <4>2. registry[n].conn = s /\ n \in names[s]
        BY <4>1, <1>1
      <4> QED BY <4>2, <2>3, <1>5
    <3>2. \A s \in Servers, t \in Tools : HasTool(s, t) => registry[DefOf(s, t).name] = DefOf(s, t)
      BY <2>6, <1>10
    <3> QED BY <3>1, <3>2, <2>2 DEF RegInv, Stems, Served, Pending, Removing, IdleSync
  <2>14. FreshInv
    <3>1. \A s \in Servers, t \in Tools : conn[s] # None => held[conn[s]][t].v = offered[s][t]
      <4> SUFFICES ASSUME NEW s \in Servers, NEW t \in Tools, conn[s] # None
                   PROVE  held[conn[s]][t].v = offered[s][t]
        OBVIOUS
      <4>1. s \in up /\ conn[s] = s
        BY <2>4
      <4>2. CASE t \in Listed(s)
        <5>1. held[s][t] = [v |-> offered[s][t], name |-> N(s, t)]
          BY <2>5, <4>1, <4>2
        <5> QED BY <4>1, <5>1
      <4>3. CASE t \notin Listed(s)
        BY <2>5, <4>1, <4>3, <1>t
      <4> QED BY <4>2, <4>3
    <3> QED BY <3>1 DEF FreshInv
  <2> QED BY <2>8, <2>9, <2>10, <2>11, <2>12, <2>13, <2>14 DEF Good
<1> QED BY <1>12, <1>13 DEF McpInv

-----------------------------------------------------------------------------
Stays == \A c : Lasting(c) => Lasting(c)' /\ ServerOf(c)' = ServerOf(c)

(* Steps that leave a part of the invariant alone.                         *)
LEMMA RegFrame ==
  ASSUME Types, RegInv, Stays, UNCHANGED <<conn, held, names, registry, sync>>
  PROVE  RegInv'
<1>1. \A s \in Servers, t \in Tools : (HasTool(s, t) <=> HasTool(s, t)') /\ DefOf(s, t)' = DefOf(s, t)
  BY DEF HasTool, DefOf
<1>2. \A s : Own(s)' = Own(s)
  BY DEF Own, Plain, Hashed
<1>3. \A n \in FunctionNames : registry[n] # None =>
        Lasting(registry[n].conn)' /\ ServerOf(registry[n].conn)' = ServerOf(registry[n].conn)
  BY DEF RegInv, Stems, Stays
<1>4. Stems'
  BY <1>2, <1>3 DEF RegInv, Stems
<1>5. Served' /\ Removing'
  BY <1>1, <1>2 DEF RegInv, Served, Removing
<1>6. Pending'
  <2>1. \A r \in Syncs : sync[r].all \subseteq Servers
    BY DEF Types, Refreshes
  <2> QED BY <1>1, <2>1 DEF RegInv, Pending
<1> QED BY <1>4, <1>5, <1>6 DEF RegInv

LEMMA ConnFrame ==
  ASSUME Types, ConnInv, Stays, UNCHANGED conn, open \subseteq open'
  PROVE  ConnInv'
BY DEF ConnInv, Stays, Types

LEMMA SyncFrame ==
  ASSUME Types, SyncInv, Stays, UNCHANGED <<conn, sync>>
  PROVE  SyncInv'
BY DEF SyncInv, Stays, Types, IdleSync

(* A server changes its list: it is marked if it has a connection.         *)
LEMMA ChangeGood ==
  ASSUME Types, Good, Stays, NEW s \in Servers, NEW t \in Tools, Change(s, t)
  PROVE  Good'
<1>1. UNCHANGED <<conn, open, held, known, statuses, names, taken, registry, act, sync, crossed>>
  BY DEF Change, books
<1>2. RegInv' /\ ConnInv' /\ SyncInv'
  BY <1>1, RegFrame, ConnFrame, SyncFrame DEF Good
<1>3. ActInv'
  BY <1>1 DEF Good, ActInv, Live
<1>4. SepInv'
  BY <1>1 DEF Good, SepInv, Live, Apart
<1>5. BookInv'
  BY <1>1 DEF Good, BookInv, NamesOwn, NamesApart, HeldNames, NamesHeld, Resting, Taken,
              HasTool, Left, Live, Own, Plain, Hashed
<1>6. FreshInv'
  <2> SUFFICES ASSUME NEW q \in Servers, conn[q] # None, q \notin dirty',
                      \A r \in Syncs : q \notin sync[r].left /\ sync[r].at # conn[q],
                      NEW u \in Tools
               PROVE  held[conn[q]][u].v = offered'[q][u]
    BY <1>1 DEF FreshInv
  <2>1. q \notin dirty /\ dirty \subseteq dirty'
    BY DEF Change
  <2>2. conn[q] \in open /\ ServerOf(conn[q]) = q
    BY DEF Good, ConnInv
  <2>3. q # s
    BY <2>2 DEF Change
  <2>4. offered'[q] = offered[q]
    BY <2>3 DEF Change, Types, McpTypeOK
  <2> QED BY <2>1, <2>4 DEF Good, FreshInv
<1> QED BY <1>2, <1>3, <1>4, <1>5, <1>6 DEF Good

-----------------------------------------------------------------------------
(* An activity that starts without meeting another is apart from all.      *)
LEMMA EntersApart ==
  ASSUME Types, NEW S \in SUBSET Servers, Enters(S), ~crossed'
  PROVE  /\ \A a \in Actions : Live(a) => \A s \in S : Apart(s, act[a].server)
         /\ \A r \in Syncs : \A q \in sync[r].all, s \in S : Apart(s, q)
<1>1. Related(S) \cap Busy = {}
  BY DEF Enters
<1>2. \A a \in Actions : Live(a) => act[a].server \in Busy /\ act[a].server \in Servers
  BY DEF Busy, Live, Types
<1>3. \A r \in Syncs : \A q \in sync[r].all : q \in Busy /\ q \in Servers
  BY DEF Busy, Types, Refreshes
<1>4. \A q \in Busy \cap Servers : \A s \in S : Apart(s, q)
  BY <1>1 DEF Related, Apart
<1> QED BY <1>2, <1>3, <1>4

LEMMA DoesAt ==
  ASSUME Types, NEW a \in Actions, NEW k, NEW s, NEW ph, NEW b, Does(a, k, s, ph, b)
  PROVE  /\ act'[a] = [kind |-> k, server |-> s, phase |-> ph, before |-> b]
         /\ \A c \in Actions : c # a => act'[c] = act[c]
BY DEF Types, Does

(* Closing the connection of s for an action at s that starts.             *)
LEMMA CloseGood ==
  ASSUME Types, Types', Good, Stays, ~crossed',
         NEW a \in Actions, NEW s \in Servers, NEW k \in {"auth", "disable", "remove"},
         act[a].phase = "new", conn[s] # None,
         Does(a, k, s, "closing", names[s]), CloseConnection(s), Enters({s}),
         UNCHANGED <<server, open, held, statuses, names, registry, sync>>
  PROVE  Good'
<1>0. /\ conn' = [conn EXCEPT ![s] = None] /\ taken' = taken \ names[s] /\ dirty' = dirty \ {s}
      /\ conn'[s] = None /\ \A q \in Servers : q # s => conn'[q] = conn[q]
  BY DEF CloseConnection, CloseFreeing, Types, McpTypeOK
<1>1. /\ \A c \in Actions : Live(c) => Apart(s, act[c].server) /\ act[c].server # s
      /\ \A r \in Syncs : \A q \in sync[r].all : Apart(s, q) /\ q # s
  BY EntersApart DEF Apart
<1>2. /\ act'[a] = [kind |-> k, server |-> s, phase |-> "closing", before |-> names[s]]
      /\ \A c \in Actions : c # a => act'[c] = act[c]
  BY DoesAt
<1>3. Live(a)' /\ \A c \in Actions : c # a => (Live(c)' <=> Live(c))
  BY <1>2 DEF Live
<1>4. UNCHANGED <<offered, open, held, statuses, names, registry, sync>>
  BY DEF server
<1>5. \A q \in Servers, t \in Tools : /\ HasTool(q, t)' <=> q # s /\ HasTool(q, t)
                                      /\ q # s => DefOf(q, t)' = DefOf(q, t)
  BY <1>0, <1>4 DEF HasTool, DefOf
<1>6. \A q : Own(q)' = Own(q)
  BY DEF Own, Plain, Hashed
<1>7. ActInv'
  BY <1>0, <1>1, <1>2, <1>3, <1>4 DEF Good, ActInv, Types, Live
<1>8. SepInv'
  BY <1>1, <1>2, <1>3, <1>4 DEF Good, SepInv, Apart
<1>9. SyncInv'
  <2>1. \A r \in Syncs : sync[r].at # None =>
           ServerOf(sync[r].at)' = ServerOf(sync[r].at) /\ ServerOf(sync[r].at) \in Servers \ {s}
    BY <1>1 DEF Good, SyncInv, Types, Refreshes, Stays
  <2>2. \A r \in Syncs : sync[r].at # None =>
           conn'[ServerOf(sync[r].at)] = conn[ServerOf(sync[r].at)]
    BY <1>0, <2>1
  <2>3. UNCHANGED <<sync, IdleSync>>
    BY <1>4 DEF IdleSync
  <2> QED BY <2>1, <2>2, <2>3 DEF Good, SyncInv
<1>10. ConnInv'
  BY <1>0, <1>4 DEF Good, ConnInv, Stays, Types
<1>11. BookInv'
  <2>1. Taken'
    BY <1>0, <1>4 DEF Good, BookInv, Taken, NamesApart
  <2>2. \A q \in Servers : Left(q)' => q # s /\ Left(q)
    BY <1>2, <1>3 DEF Left, Live
  <2>3. Resting'
    BY <1>0, <1>4, <2>2 DEF Good, BookInv, Resting
  <2>4. NamesOwn' /\ NamesApart'
    BY <1>4, <1>6 DEF Good, BookInv, NamesOwn, NamesApart
  <2>5. HeldNames'
    BY <1>0, <1>4, <1>5 DEF Good, BookInv, HeldNames, Plain, Hashed
  <2>6. NamesHeld'
    <3>1. \A q \in Servers : conn'[q] # None => conn'[q] = conn[q] /\ q # s
      BY <1>0
    <3> QED BY <3>1, <1>4, <1>5 DEF Good, BookInv, NamesHeld
  <2> QED BY <2>1, <2>3, <2>4, <2>5, <2>6 DEF BookInv
<1>12. RegInv'
  <2>1. Stems'
    BY <1>4, <1>6 DEF Good, RegInv, Stems, Stays
  <2>2. Served'
    BY <1>4, <1>5 DEF Good, RegInv, Served
  <2>3. Pending'
    <3>1. \A r \in Syncs : sync[r].all \subseteq Servers
      BY DEF Types, Refreshes
    <3> QED BY <1>0, <1>1, <1>4, <1>5, <3>1 DEF Good, RegInv, Pending
  <2>4. Removing'
    BY <1>4, <1>6 DEF Good, RegInv, Removing
  <2> QED BY <2>1, <2>2, <2>3, <2>4 DEF RegInv
<1>13. FreshInv'
  BY <1>0, <1>4 DEF Good, FreshInv
<1> QED BY <1>7, <1>8, <1>9, <1>10, <1>11, <1>12, <1>13 DEF Good

(* An action at s that has no connection starts or ends.                   *)
LEMMA BareGood ==
  ASSUME Types, Types', Good, Stays, ~crossed',
         NEW a \in Actions, NEW s \in Servers, NEW k, NEW u, NEW ph,
         act[a].phase = "new", conn[s] = None, ph \in {"connecting", "done"},
         ph = "connecting" => u = s,
         Does(a, k, u, ph, names[s]), Enters({s}),
         UNCHANGED <<server, conn, open, held, names, taken, dirty, registry, sync>>,
         \A q \in Servers : \/ statuses'[q] = statuses[q]
                            \/ q = s /\ statuses'[q] # "connected"
  PROVE  Good'
<1>1. /\ \A c \in Actions : Live(c) => Apart(s, act[c].server) /\ act[c].server # s
      /\ \A r \in Syncs : \A q \in sync[r].all : Apart(s, q) /\ q # s
  BY EntersApart DEF Apart
<1>2. /\ act'[a] = [kind |-> k, server |-> u, phase |-> ph, before |-> names[s]]
      /\ \A c \in Actions : c # a => act'[c] = act[c]
  BY DoesAt
<1>3. (Live(a)' => u = s) /\ \A c \in Actions : c # a => (Live(c)' <=> Live(c))
  BY <1>2 DEF Live
<1>4. UNCHANGED <<offered, conn, open, held, names, taken, dirty, registry, sync>>
  BY DEF server
<1>7. ActInv'
  BY <1>1, <1>2, <1>3, <1>4 DEF Good, ActInv, Types, Live
<1>8. SepInv'
  BY <1>1, <1>2, <1>3, <1>4 DEF Good, SepInv, Apart
<1>9. SyncInv' /\ ConnInv' /\ RegInv'
  BY <1>4, SyncFrame, ConnFrame, RegFrame DEF Good
<1>10. BookInv'
  <2>1. \A q \in Servers : Left(q)' => Left(q)
    BY <1>2, <1>3 DEF Left, Live
  <2>2. Left(s)
    BY <1>1 DEF Left
  <2>3. \A q \in Servers : q # s => statuses'[q] = statuses[q]
    OBVIOUS
  <2>4. statuses'[s] # "connected"
    BY <2>2 DEF Good, BookInv, Resting
  <2>5. Resting'
    BY <1>4, <2>1, <2>3, <2>4 DEF Good, BookInv, Resting
  <2> QED BY <1>4, <2>5 DEF Good, BookInv, NamesOwn, NamesApart, HeldNames, NamesHeld, Taken,
                            HasTool, Own, Plain, Hashed
<1>11. FreshInv'
  BY <1>4 DEF Good, FreshInv
<1> QED BY <1>7, <1>8, <1>9, <1>10, <1>11 DEF Good

(* A server that nothing is done to and that has no connection lists no    *)
(* names.                                                                  *)
LEMMA BareNames ==
  ASSUME Types, Good, ~crossed', NEW s \in Servers, conn[s] = None, Enters({s})
  PROVE  names[s] = {}
<1>1. Left(s)
  BY EntersApart DEF Apart, Left
<1> QED BY <1>1 DEF Good, BookInv, Resting

(* The actions that the user starts.                                       *)
LEMMA AddGood ==
  ASSUME Types, Types', Good, Stays, ~crossed', NEW a \in Actions, NEW s \in Servers, Add(a, s)
  PROVE  Good'
<1>1. names[s] = {}
  BY BareNames DEF Add
<1>2. Does(a, "add", s, "connecting", names[s])
  BY <1>1 DEF Add
<1>3. act[a].phase = "new" /\ conn[s] = None /\ Enters({s})
  BY DEF Add
<1>4. UNCHANGED <<server, conn, open, held, names, taken, dirty, registry, sync, statuses>>
  BY DEF Add
<1> HIDE DEF Does
<1> QED BY <1>2, <1>3, <1>4, BareGood

LEMMA AddDisabledGood ==
  ASSUME Types, Types', Good, Stays, ~crossed',
         NEW a \in Actions, NEW s \in Servers, AddDisabled(a, s)
  PROVE  Good'
<1>1. names[s] = {}
  BY BareNames DEF AddDisabled
<1>2. Does(a, "none", None, "done", names[s])
  BY <1>1 DEF AddDisabled, Ended
<1>3. UNCHANGED names
  BY <1>1 DEF AddDisabled, Types, McpTypeOK
<1>4. \A q \in Servers : \/ statuses'[q] = statuses[q]
                         \/ q = s /\ statuses'[q] # "connected"
  BY DEF AddDisabled, Types, McpTypeOK
<1>5. act[a].phase = "new" /\ conn[s] = None /\ Enters({s})
  BY DEF AddDisabled
<1>6. UNCHANGED <<server, conn, open, held, taken, dirty, registry, sync>>
  BY DEF AddDisabled
<1> HIDE DEF Does
<1> QED BY <1>2, <1>3, <1>4, <1>5, <1>6, BareGood

LEMMA AuthenticateGood ==
  ASSUME Types, Types', Good, Stays, ~crossed',
         NEW a \in Actions, NEW s \in Servers, Authenticate(a, s)
  PROVE  Good'
<1>1. CASE conn[s] = None
  <2>1. Does(a, "auth", s, "connecting", names[s]) /\ act[a].phase = "new" /\ Enters({s})
    BY <1>1 DEF Authenticate
  <2>2. UNCHANGED <<server, conn, open, held, names, taken, dirty, registry, sync, statuses>>
    BY <1>1 DEF Authenticate
  <2> QED BY <1>1, <2>1, <2>2, BareGood
<1>2. CASE conn[s] # None
  BY <1>2, CloseGood DEF Authenticate
<1> QED BY <1>1, <1>2

LEMMA MutateGood ==
  ASSUME Types, Types', Good, Stays, ~crossed', NEW a \in Actions, NEW s \in Servers,
         NEW k \in {"disable", "remove"}, Mutate(a, s, k)
  PROVE  Good'
<1>1. CASE conn[s] = None
  <2>1. names[s] = {}
    BY <1>1, BareNames DEF Mutate
  <2>2. Does(a, "none", None, "done", names[s]) /\ act[a].phase = "new" /\ Enters({s})
    BY <1>1, <2>1 DEF Mutate, Ended
  <2>3. UNCHANGED names
    <3>1. names' = [names EXCEPT ![s] = {}]
      BY <1>1 DEF Mutate, Mutated
    <3> QED BY <2>1, <3>1 DEF Types, McpTypeOK
  <2>4. UNCHANGED <<taken, conn, dirty>>
    BY <1>1, <2>1 DEF Mutate, CloseConnection, CloseFreeing, Types, McpTypeOK
  <2>5. UNCHANGED registry
    BY <1>1, <2>1 DEF Mutate, Mutated, Without, Types
  <2>6. \A q \in Servers : \/ statuses'[q] = statuses[q]
                           \/ q = s /\ statuses'[q] # "connected"
    BY <1>1 DEF Mutate, Mutated, Types, McpTypeOK
  <2>7. UNCHANGED <<server, open, held, sync>>
    BY DEF Mutate
  <2> QED BY <1>1, <2>2, <2>3, <2>4, <2>5, <2>6, <2>7, BareGood
<1>2. CASE conn[s] # None
  BY <1>2, CloseGood DEF Mutate
<1> QED BY <1>1, <1>2

-----------------------------------------------------------------------------
(* A closed transport: the action at s goes on to connect again.           *)
LEMMA ReopenGood ==
  ASSUME Types, Types', Good, Stays,
         NEW a \in Actions, act[a].phase = "closing",
         act' = [act EXCEPT ![a].phase = "connecting"],
         open' = open \ ClosedFor(a),
         UNCHANGED <<offered, conn, held, names, statuses, taken, dirty, registry, sync>>
  PROVE  Good'
<1>1. /\ act'[a] = [act[a] EXCEPT !.phase = "connecting"]
      /\ \A c \in Actions : c # a => act'[c] = act[c]
  BY DEF Types
<1>2. /\ act'[a].server = act[a].server /\ act'[a].before = act[a].before
      /\ act'[a].phase = "connecting"
  BY <1>1 DEF Types
<1>3. Live(a)' /\ Live(a) /\ \A c \in Actions : (Live(c)' <=> Live(c)) /\ act'[c].server = act[c].server
  BY <1>1, <1>2 DEF Live
<1>4. conn[act[a].server] = None /\ act[a].server \in Servers
  BY <1>3 DEF Good, ActInv, Types
<1>5. ActInv'
  <2>1. \A c \in Actions : act'[c].before = act[c].before
    BY <1>1, <1>2
  <2>2. \A c \in Actions : act'[c].phase = "closing" => act'[c] = act[c]
    BY <1>1, <1>2
  <2>3. \A c \in Actions : act'[c].phase # "done" => act[c].phase # "done"
    BY <1>1, <1>2
  <2> QED BY <1>3, <2>1, <2>2, <2>3 DEF Good, ActInv
<1>6. SepInv'
  BY <1>3 DEF Good, SepInv, Apart
<1>7. SyncInv' /\ RegInv'
  BY SyncFrame, RegFrame DEF Good
<1>8. ConnInv'
  <2>1. \A q \in Servers : conn[q] # None => conn[q] \in open' /\ ServerOf(conn[q]) = q
    BY DEF Good, ConnInv, ClosedFor
  <2> QED BY <2>1 DEF ConnInv, Stays, Types
<1>9. BookInv'
  <2>1. \A q \in Servers : Left(q)' => Left(q)
    BY <1>3 DEF Left
  <2> QED BY <2>1 DEF Good, BookInv, NamesOwn, NamesApart, HeldNames, NamesHeld, Resting, Taken,
                      HasTool, Own, Plain, Hashed
<1>10. FreshInv'
  BY DEF Good, FreshInv
<1> QED BY <1>5, <1>6, <1>7, <1>8, <1>9, <1>10 DEF Good

(* The action at s ends without a connection, and its tools are removed.   *)
LEMMA DropGood ==
  ASSUME Types, Types', Good, Stays,
         NEW a \in Actions, NEW s \in Servers, Live(a), act[a].server = s,
         Ended(a, None),
         names' = [names EXCEPT ![s] = {}],
         registry' = Without(registry, names[s]),
         \A q \in Servers : q # s => statuses'[q] = statuses[q],
         statuses'[s] # "connected",
         \A c \in open : ServerOf(c) # s => c \in open',
         UNCHANGED <<offered, conn, held, taken, dirty, sync>>
  PROVE  Good'
<1>1. conn[s] = None
  BY DEF Good, ActInv
<1>2. act'[a].phase = "done" /\ \A c \in Actions : c # a => act'[c] = act[c]
  <2>1. Does(a, "none", None, "done", {})
    BY DEF Ended
  <2>2. act'[a] = [kind |-> "none", server |-> None, phase |-> "done", before |-> {}]
    BY <2>1, DoesAt
  <2> QED BY <2>1, <2>2, DoesAt
<1>3. ~Live(a)' /\ \A c \in Actions : c # a => (Live(c)' <=> Live(c))
  BY <1>2 DEF Live
<1>4. /\ \A c \in Actions : c # a /\ Live(c) => act[c].server # s
      /\ \A r \in Syncs : \A q \in sync[r].all : Apart(s, q) /\ q # s /\ q \in Servers
  BY DEF Good, SepInv, Apart, Types, Refreshes
<1>5. names'[s] = {} /\ \A q \in Servers : q # s => names'[q] = names[q]
  BY DEF Types, McpTypeOK
<1>6. \A n \in FunctionNames : registry'[n] = IF n \in names[s] THEN None ELSE registry[n]
  BY DEF Without
<1>7. \A q \in Servers, t \in Tools : (HasTool(q, t)' <=> HasTool(q, t)) /\ DefOf(q, t)' = DefOf(q, t)
  BY DEF HasTool, DefOf
<1>8. \A q : Own(q)' = Own(q)
  BY DEF Own, Plain, Hashed
<1>9. ActInv'
  <2>1. \A c \in Actions : Live(c)' => /\ c # a /\ Live(c) /\ act'[c] = act[c]
                                       /\ act[c].server # s /\ act[c].server \in Servers
    BY <1>2, <1>3, <1>4 DEF Types
  <2>2. \A c \in Actions : Live(c)' => act'[c].before = names'[act'[c].server] /\ conn'[act'[c].server] = None
    BY <1>5, <2>1 DEF Good, ActInv
  <2>3. \A c \in Actions : act'[c].phase # "done" => c # a /\ act'[c] = act[c]
    BY <1>2
  <2>4. \A c \in Actions : act'[c].phase = "closing" => act'[c].kind \in {"auth", "disable", "remove"}
    BY <2>3 DEF Good, ActInv
  <2> QED BY <2>2, <2>3, <2>4 DEF Good, ActInv
<1>10. SepInv'
  BY <1>2, <1>3 DEF Good, SepInv, Apart
<1>11. SyncInv'
  BY SyncFrame DEF Good
<1>12. ConnInv'
  <2>1. \A q \in Servers : conn[q] # None => conn[q] \in open' /\ ServerOf(conn[q]) = q
    BY <1>1 DEF Good, ConnInv
  <2> QED BY <2>1 DEF ConnInv, Stays, Types
<1>13. BookInv'
  <2>1. NamesOwn' /\ NamesApart'
    BY <1>5, <1>8 DEF Good, BookInv, NamesOwn, NamesApart
  <2>2. HeldNames'
    BY <1>7 DEF Good, BookInv, HeldNames, Plain, Hashed
  <2>3. NamesHeld'
    BY <1>1, <1>5, <1>7 DEF Good, BookInv, NamesHeld
  <2>4. \A q \in Servers : Left(q)' /\ q # s => Left(q)
    BY <1>2, <1>3 DEF Left
  <2>5. Resting'
    BY <1>1, <1>5, <2>4 DEF Good, BookInv, Resting
  <2>6. Taken'
    BY <1>1, <1>5 DEF Good, BookInv, Taken
  <2> QED BY <2>1, <2>2, <2>3, <2>5, <2>6 DEF BookInv
<1>14. RegInv'
  <2>1. Stems'
    <3> SUFFICES ASSUME NEW n \in FunctionNames, registry'[n] # None
                 PROVE  (/\ Lasting(registry[n].conn) /\ n \in Own(ServerOf(registry[n].conn))
                         /\ \/ \E r \in Syncs : n \in sync[r].removed
                            \/ n \in names[ServerOf(registry[n].conn)])'
      BY DEF Stems
    <3>1. registry'[n] = registry[n] /\ n \notin names[s]
      BY <1>6
    <3>2. Lasting(registry[n].conn) /\ n \in Own(ServerOf(registry[n].conn))
      BY <3>1 DEF Good, RegInv, Stems
    <3>3. Lasting(registry[n].conn)' /\ ServerOf(registry[n].conn)' = ServerOf(registry'[n].conn)
      BY <3>1, <3>2 DEF Stays
    <3>4. ServerOf(registry[n].conn) \in Servers
      BY <3>2 DEF Lasting, ServerOf
    <3>5. n \in names[ServerOf(registry[n].conn)] => n \in names'[ServerOf(registry[n].conn)]
      BY <1>5, <3>1, <3>4
    <3>6. (\E r \in Syncs : n \in sync[r].removed) \/ n \in names[ServerOf(registry[n].conn)]
      BY <3>1 DEF Good, RegInv, Stems
    <3> QED BY <1>8, <3>1, <3>2, <3>3, <3>5, <3>6
  <2>2. Served'
    <3>1. \A q \in Servers, t \in Tools : HasTool(q, t) =>
             DefOf(q, t).name \in names[q] /\ q # s /\ DefOf(q, t).name \in FunctionNames
      BY <1>1, OwnNames DEF Good, BookInv, NamesHeld, NamesOwn, HasTool, DefOf
    <3>2. \A q \in Servers, t \in Tools : HasTool(q, t) => DefOf(q, t).name \notin names[s]
      BY <3>1 DEF Good, BookInv, NamesApart
    <3> QED BY <1>6, <1>7, <3>1, <3>2 DEF Good, RegInv, Served
  <2>3. Pending'
    <3>1. \A r \in Syncs : \A d \in sync[r].tools : d.name \in FunctionNames
      BY DEF Types, Refreshes, Definitions
    <3> QED BY <1>4, <1>6, <1>7, <3>1 DEF Good, RegInv, Pending
  <2>4. Removing'
    BY <1>8 DEF Good, RegInv, Removing
  <2> QED BY <2>1, <2>2, <2>3, <2>4 DEF RegInv
<1>15. FreshInv'
  BY DEF Good, FreshInv
<1> QED BY <1>9, <1>10, <1>11, <1>12, <1>13, <1>14, <1>15 DEF Good

(* The end of a close, and of a connect that fails.                        *)
LEMMA ClosedGood ==
  ASSUME Types, Types', Good, Stays, NEW a \in Actions, Closed(a)
  PROVE  Good'
<1> DEFINE s == act[a].server
<1>1. act[a].phase = "closing" /\ open' = open \ ClosedFor(a)
  BY DEF Closed
<1>2. UNCHANGED <<offered, conn, held, taken, dirty, sync>>
  BY DEF Closed, server
<1>3. CASE act[a].kind = "auth"
  <2>1. act' = [act EXCEPT ![a].phase = "connecting"] /\ UNCHANGED <<statuses, names, registry>>
    BY <1>3 DEF Closed
  <2> QED BY <1>1, <1>2, <2>1, ReopenGood
<1>4. CASE act[a].kind # "auth"
  <2>1. Live(a) /\ s \in Servers /\ act[a].before = names[s]
    BY <1>1 DEF Live, Types, Good, ActInv
  <2>2. Ended(a, None) /\ Mutated(s, act[a].kind, names[s])
    BY <1>4, <2>1 DEF Closed
  <2>3. names' = [names EXCEPT ![s] = {}] /\ registry' = Without(registry, names[s])
    BY <2>2 DEF Mutated
  <2>4. statuses'[s] # "connected" /\ \A q \in Servers : q # s => statuses'[q] = statuses[q]
    BY <2>1, <2>2 DEF Mutated, Types, McpTypeOK
  <2>5. \A c \in open : ServerOf(c) # s => c \in open'
    BY <1>1 DEF ClosedFor
  <2> HIDE DEF s
  <2>6. act[a].server = s
    BY DEF s
  <2> QED BY <1>2, <2>1, <2>2, <2>3, <2>4, <2>5, <2>6, DropGood
<1> QED BY <1>3, <1>4

LEMMA ConnectFailsGood ==
  ASSUME Types, Types', Good, Stays, NEW a \in Actions, ConnectFails(a)
  PROVE  Good'
<1> DEFINE s == act[a].server
<1>1. Live(a) /\ s \in Servers /\ act[a].before = names[s]
  BY DEF ConnectFails, Live, Types, Good, ActInv
<1>2. UNCHANGED <<offered, conn, open, held, taken, dirty, sync>>
  BY DEF ConnectFails, server
<1>3. Ended(a, None) /\ names' = [names EXCEPT ![s] = {}] /\ registry' = Without(registry, names[s])
  BY <1>1 DEF ConnectFails
<1>4. statuses'[s] # "connected" /\ \A q \in Servers : q # s => statuses'[q] = statuses[q]
  BY <1>1 DEF ConnectFails, Types, McpTypeOK
<1>5. act[a].server = s
  OBVIOUS
<1>6. \A c \in open : ServerOf(c) # s => c \in open'
  BY <1>2
<1> HIDE DEF s
<1> QED BY <1>1, <1>2, <1>3, <1>4, <1>5, <1>6, DropGood

-----------------------------------------------------------------------------
(* Names of tools held are listed, of one server only, and taken unless an *)
(* action is at their server.                                              *)
LEMMA HeldFacts ==
  ASSUME Types, Good
  PROVE  /\ \A q \in Servers, t \in Tools : HasTool(q, t) =>
              /\ DefOf(q, t).name \in names[q] /\ DefOf(q, t).name \in FunctionNames
              /\ DefOf(q, t).name \in {Plain(q, t), Hashed(q, t)}
         /\ \A q, s \in Servers : \A n : q # s => ~(n \in names[q] /\ n \in names[s])
         /\ \A q \in Servers : \A n \in names[q] : n \in taken \/ \E a \in Actions : Live(a) /\ act[a].server = q
         /\ \A q \in Servers : \A n \in names[q] : n \in Own(q)
<1>1. \A q \in Servers, t \in Tools : HasTool(q, t) => DefOf(q, t).name \in {Plain(q, t), Hashed(q, t)}
  BY DEF Good, BookInv, HeldNames, DefOf
<1>2. \A q \in Servers, t \in Tools : HasTool(q, t) => DefOf(q, t).name \in names[q]
  BY DEF Good, BookInv, NamesHeld, HasTool, DefOf
<1>3. \A q \in Servers : names[q] \subseteq FunctionNames
  BY DEF Types, McpTypeOK
<1>4. \A q \in Servers : \A n \in names[q] : n \in taken \/ \E a \in Actions : Live(a) /\ act[a].server = q
  BY DEF Good, BookInv, Taken, Resting, Left
<1> QED BY <1>1, <1>2, <1>3, <1>4 DEF Good, BookInv, NamesApart, NamesOwn

(* The names that tools T of s are given are new: neither another server   *)
(* nor a refresh elsewhere has them.                                       *)
OpenTo(s, T, seen) ==
  /\ \A t \in T : Hashed(s, t) \notin seen
  /\ \A q \in Servers : q # s => \A n \in names[q] : n \in taken => n \in seen
  /\ \A a \in Actions : Live(a) /\ act[a].server # s => Apart(act[a].server, s)

NamedAnew(s, T, seen) ==
  /\ Given(s, T, seen) = T
  /\ \A t \in T : /\ Free(s, t, seen) \in {Plain(s, t), Hashed(s, t)}
                  /\ Free(s, t, seen) \notin seen /\ Free(s, t, seen) # None
                  /\ Free(s, t, seen) \in Own(s)
  /\ \A t, u \in T : Free(s, t, seen) = Free(s, u, seen) => t = u
  /\ \A q \in Servers : q # s => \A t \in T : Free(s, t, seen) \notin names[q]

(* Names given so are new: to the names seen and to every other server.    *)
LEMMA GivenFresh ==
  ASSUME Types, Good, NEW s \in Servers, NEW T \in SUBSET Tools, NEW seen, OpenTo(s, T, seen)
  PROVE  NamedAnew(s, T, seen)
<1> USE DEF OpenTo
<1>1. Given(s, T, seen) = T
  BY GivenAll
<1>2. \A t \in T : /\ Free(s, t, seen) \in {Plain(s, t), Hashed(s, t)}
                   /\ Free(s, t, seen) \notin seen /\ Free(s, t, seen) # None
  BY FreeName, FreeType
<1>3. \A t \in T : Free(s, t, seen) \in Own(s)
  BY <1>2, OwnNames
<1>4. \A t, u \in T : Free(s, t, seen) = Free(s, u, seen) => t = u
  BY <1>2, OneTool
<1>5. \A q \in Servers : q # s => \A t \in T : Free(s, t, seen) \notin names[q]
  <2> SUFFICES ASSUME NEW q \in Servers, q # s, NEW t \in T, Free(s, t, seen) \in names[q]
               PROVE  FALSE
    OBVIOUS
  <2>1. Free(s, t, seen) \notin taken
    BY <1>2
  <2>2. \E a \in Actions : Live(a) /\ act[a].server = q
    BY <2>1, HeldFacts
  <2>3. Apart(q, s)
    BY <2>2
  <2>4. Free(s, t, seen) \in Own(q)
    BY HeldFacts
  <2> QED BY <1>3, <2>3, <2>4, OwnApart
<1> QED BY <1>1, <1>2, <1>3, <1>4, <1>5 DEF NamedAnew

(* A server connects: its old entries go and its tools are registered,     *)
(* over the new connection.                                                *)
LEMMA ConnectedGoodAt ==
  ASSUME Types, Types', Good, Stays, NEW a \in Actions, Connected(a),
         NEW s, s = act[a].server, NEW T, T = IsListed(offered[s])
  PROVE  Good'
<1> DEFINE F(t) == Free(s, t, taken)
           D == Defs(s, a, T, offered[s], taken)
           reg == Without(registry, names[s])
<1>1. Live(a) /\ s \in Servers /\ T \in SUBSET Tools /\ act[a].before = names[s] /\ conn[s] = None
      /\ a \in Conns /\ a # None /\ a \notin Servers
  BY NoneOutside, McpAssumption DEF Connected, ConnectedThen, Live, Types, Good, ActInv, IsListed, Conns
<1>2. /\ act[a].phase = "connecting" /\ Ended(a, s)
      /\ statuses' = [statuses EXCEPT ![s] = "connected"]
      /\ conn' = [conn EXCEPT ![s] = a]
      /\ open' = open \cup {a}
      /\ held' = Kept(held, a, s, T, offered[s], taken)
      /\ names' = [names EXCEPT ![s] = NamesOf(s, T, taken)]
      /\ taken' = taken \cup NamesOf(s, T, taken)
      /\ Registers(reg, D)
      /\ UNCHANGED <<offered, dirty, sync, crossed>>
  BY <1>1 DEF Connected, ConnectedThen, server
<1>t. \A t \in Tools : t \in T <=> offered[s][t] # 0
  BY DEF IsListed
<1>3. act'[a].phase = "done" /\ act'[a].server = s /\ \A c \in Actions : c # a => act'[c] = act[c]
  <2>1. Does(a, "none", s, "done", {})
    BY <1>2 DEF Ended
  <2>2. act'[a] = [kind |-> "none", server |-> s, phase |-> "done", before |-> {}]
    BY <2>1, DoesAt
  <2> QED BY <2>1, <2>2, DoesAt
<1>4. ~Live(a)' /\ \A c \in Actions : c # a => (Live(c)' <=> Live(c))
  BY <1>3 DEF Live
<1>5. /\ \A c \in Actions : c # a /\ Live(c) => act[c].server # s /\ Apart(act[c].server, s)
      /\ \A r \in Syncs : \A q \in sync[r].all : Apart(q, s) /\ q # s /\ q \in Servers
  BY <1>1 DEF Good, SepInv, Apart, Types, Refreshes
<1>6. \A t \in T : Hashed(s, t) \notin taken
  <2> SUFFICES ASSUME NEW t \in T, Hashed(s, t) \in taken PROVE FALSE
    OBVIOUS
  <2>1. PICK q \in Servers : conn[q] # None /\ Hashed(s, t) \in names[q]
    BY DEF Good, BookInv, Taken
  <2>2. q # s /\ Hashed(s, t) \in Own(q)
    BY <1>1, <2>1, HeldFacts
  <2> QED BY <1>1, <2>2, HashedAlone
<1>7. /\ Given(s, T, taken) = T
      /\ \A t \in T : /\ F(t) \in {Plain(s, t), Hashed(s, t)} /\ F(t) \notin taken
                      /\ F(t) # None /\ F(t) \in Own(s)
      /\ \A t, u \in T : F(t) = F(u) => t = u
      /\ \A q \in Servers : q # s => \A t \in T : F(t) \notin names[q]
  <2>1. \A c \in Actions : Live(c) /\ act[c].server # s => Apart(act[c].server, s)
    BY <1>5
  <2>2. OpenTo(s, T, taken)
    BY <1>6, <2>1 DEF OpenTo
  <2>3. NamedAnew(s, T, taken)
    BY <1>1, <2>2, GivenFresh
  <2> QED BY <2>3 DEF NamedAnew
<1> HIDE DEF F
<1>8. \A n : n \in NamesOf(s, T, taken) <=> \E t \in T : n = F(t)
  BY <1>7 DEF NamesOf, F
<1>9. /\ \A e \in Conns : e # a => held'[e] = held[e]
      /\ \A t \in Tools : held'[a][t] = IF t \in T THEN [v |-> offered[s][t], name |-> F(t)] ELSE NoTool
  <2>1. DOMAIN held = Conns /\ \A t \in Tools : held[a][t] = NoTool
    BY <1>2 DEF Types, McpTypeOK, Good, ActInv
  <2>2. held'[a] = [t \in Tools |->
              IF t \in Given(s, T, taken)
                THEN [v |-> offered[s][t], name |-> Free(s, t, taken)] ELSE held[a][t]]
    BY <1>1, <1>2, <2>1, KeptAt
  <2>3. \A e \in DOMAIN held : e # a => Kept(held, a, s, T, offered[s], taken)[e] = held[e]
    BY <1>1, <2>1 DEF Kept
  <2> QED BY <1>2, <1>7, <2>1, <2>2, <2>3 DEF F
<1>10. conn'[s] = a /\ \A q \in Servers : q # s => conn'[q] = conn[q] /\ conn[q] # a
  <2>1. ~Lasting(a)
    BY <1>1, <1>2 DEF Lasting
  <2> QED BY <1>1, <1>2, <2>1 DEF Types, McpTypeOK
<1>11. names'[s] = NamesOf(s, T, taken) /\ \A q \in Servers : q # s => names'[q] = names[q]
  BY <1>1, <1>2 DEF Types, McpTypeOK
<1>12. /\ \A t \in Tools : HasTool(s, t)' <=> t \in T
       /\ \A t \in T : DefOf(s, t)' = [name |-> F(t), conn |-> a, tool |-> t, v |-> offered[s][t]]
       /\ \A t \in T : held'[conn'[s]][t].name = F(t)
       /\ \A q \in Servers, t \in Tools : q # s => (HasTool(q, t)' <=> HasTool(q, t))
       /\ \A q \in Servers, t \in Tools : q # s /\ HasTool(q, t) => DefOf(q, t)' = DefOf(q, t)
  <2>1. \A t \in T : t \in Tools /\ held'[conn'[s]][t] = [v |-> offered[s][t], name |-> F(t)] /\ offered[s][t] # 0
    BY <1>1, <1>9, <1>10, <1>t
  <2>2. \A t \in Tools : t \notin T => held'[conn'[s]][t].v = 0
    <3>1. NoTool.v = 0
      BY DEF NoTool
    <3> QED BY <1>9, <1>10, <3>1
  <2>3. \A t \in T : held'[conn'[s]][t].v # 0 /\ held'[conn'[s]][t].v = offered[s][t] /\ held'[conn'[s]][t].name = F(t)
    <3> SUFFICES ASSUME NEW t \in T
                 PROVE  held'[conn'[s]][t].v # 0 /\ held'[conn'[s]][t].v = offered[s][t] /\ held'[conn'[s]][t].name = F(t)
      OBVIOUS
    <3>1. held'[conn'[s]][t] = [v |-> offered[s][t], name |-> F(t)] /\ offered[s][t] # 0
      BY <2>1
    <3> QED BY <3>1
  <2>4. \A t \in Tools : HasTool(s, t)' <=> t \in T
    BY <1>1, <1>10, <2>2, <2>3 DEF HasTool
  <2>5. \A t \in T : DefOf(s, t)' = [name |-> F(t), conn |-> a, tool |-> t, v |-> offered[s][t]]
    BY <1>10, <2>3 DEF DefOf
  <2>6. \A q \in Servers : q # s /\ conn[q] # None => conn[q] \in Conns
    BY DEF Types, McpTypeOK
  <2>7. \A q \in Servers, t \in Tools : q # s /\ conn[q] # None => held'[conn'[q]][t] = held[conn[q]][t]
    BY <1>9, <1>10, <2>6
  <2>8. \A q \in Servers, t \in Tools : q # s => (HasTool(q, t)' <=> HasTool(q, t))
    BY <1>10, <2>7 DEF HasTool
  <2>9. \A q \in Servers, t \in Tools : q # s /\ conn[q] # None => DefOf(q, t)' = DefOf(q, t)
    BY <1>10, <2>7 DEF DefOf
  <2>10. \A q \in Servers, t \in Tools : HasTool(q, t) => conn[q] # None
    BY DEF HasTool
  <2> QED BY <2>3, <2>4, <2>5, <2>8, <2>9, <2>10
<1>13. \A q : Own(q)' = Own(q)
  BY DEF Own, Plain, Hashed
<1>14. ActInv'
  <2>1. \A c \in Actions : Live(c)' => /\ c # a /\ Live(c) /\ act'[c] = act[c]
                                       /\ act[c].server # s /\ act[c].server \in Servers
    BY <1>3, <1>4, <1>5 DEF Types
  <2>2. \A c \in Actions : Live(c)' => act'[c].before = names'[act'[c].server] /\ conn'[act'[c].server] = None
    BY <1>10, <1>11, <2>1 DEF Good, ActInv
  <2>3. \A c \in Actions : act'[c].phase # "done" => c # a /\ act'[c] = act[c]
    BY <1>3
  <2>4. \A c \in Actions : act'[c].phase = "closing" => act'[c].kind \in {"auth", "disable", "remove"}
    BY <1>3, <2>3 DEF Good, ActInv
  <2>5. \A c \in Actions, t \in Tools : act'[c].phase # "done" => held'[c][t] = NoTool
    BY <1>9, <2>3 DEF Good, ActInv, Conns
  <2> QED BY <2>2, <2>4, <2>5 DEF ActInv, NoTool
<1>15. SepInv'
  BY <1>2, <1>3, <1>4 DEF Good, SepInv, Apart
<1>16. SyncInv'
  <2>1. \A r \in Syncs : sync[r].at # None =>
           /\ ServerOf(sync[r].at)' = ServerOf(sync[r].at) /\ ServerOf(sync[r].at) \in Servers \ {s}
           /\ conn'[ServerOf(sync[r].at)] = conn[ServerOf(sync[r].at)]
    BY <1>2, <1>5, <1>10 DEF Good, SyncInv, Types, Refreshes, Stays
  <2>2. UNCHANGED sync
    BY <1>2
  <2> QED BY <2>1, <2>2 DEF Good, SyncInv, IdleSync
<1>17. ConnInv'
  <2>1. ServerOf(a)' = s
    BY <1>1, <1>3 DEF ServerOf
  <2>2. \A q \in Servers : q # s /\ conn[q] # None =>
          ServerOf(conn[q])' = q /\ conn'[q] = conn[q] /\ conn[q] \in open'
    <3>1. \A q \in Servers : q # s /\ conn[q] # None => conn'[q] = conn[q] /\ Lasting(conn[q]) /\ conn[q] \in open'
      BY <1>2, <1>10 DEF Good, ConnInv, Types
    <3> QED BY <3>1 DEF Stays, Good, ConnInv
  <2> QED BY <1>2, <1>10, <2>1, <2>2 DEF ConnInv
<1>18. NamesOwn' /\ NamesApart'
  <2>1. \A q \in Servers : q # s => names'[q] = names[q]
    BY <1>11
  <2>2. \A n \in names'[s] : n \in Own(s) /\ \A q \in Servers : q # s => n \notin names[q]
    BY <1>7, <1>8, <1>11
  <2>3. NamesOwn'
    BY <1>13, <2>1, <2>2 DEF Good, BookInv, NamesOwn
  <2>4. NamesApart'
    BY <2>1, <2>2 DEF Good, BookInv, NamesApart
  <2> QED BY <2>3, <2>4
<1>19. HeldNames'
  <2>1. \A q \in Servers, t \in Tools : q # s /\ HasTool(q, t) => held'[conn'[q]][t].name \in {Plain(q, t), Hashed(q, t)}
    <3> SUFFICES ASSUME NEW q \in Servers, NEW t \in Tools, q # s, HasTool(q, t)
                 PROVE  held'[conn'[q]][t].name \in {Plain(q, t), Hashed(q, t)}
      OBVIOUS
    <3>1. held'[conn'[q]][t].name = DefOf(q, t)'.name /\ DefOf(q, t)' = DefOf(q, t)
      BY <1>12 DEF DefOf
    <3> QED BY <3>1, HeldFacts
  <2>2. \A t \in T : held'[conn'[s]][t].name \in {Plain(s, t), Hashed(s, t)}
    BY <1>7, <1>12
  <2> QED BY <1>12, <2>1, <2>2 DEF HeldNames, Plain, Hashed
<1>20. NamesHeld'
  <2>1. \A q \in Servers : q # s /\ conn[q] # None => \A n :
           n \in names[q] <=> \E t \in Tools : HasTool(q, t) /\ n = DefOf(q, t).name
    BY DEF Good, BookInv, NamesHeld, DefOf
  <2>2. \A q \in Servers : conn'[q] # None => \A n :
           n \in names'[q] <=> \E t \in Tools : HasTool(q, t)' /\ n = DefOf(q, t)'.name
    <3>1. \A n : n \in names'[s] <=> \E t \in Tools : HasTool(s, t)' /\ n = DefOf(s, t)'.name
      <4>1. \A t \in T : t \in Tools /\ HasTool(s, t)' /\ DefOf(s, t)'.name = F(t)
        BY <1>1, <1>12 DEF DefOf
      <4>2. \A t \in Tools : HasTool(s, t)' => t \in T
        BY <1>12
      <4> QED BY <1>8, <1>11, <4>1, <4>2
    <3>2. ASSUME NEW q \in Servers, q # s, conn'[q] # None, NEW n
          PROVE  n \in names'[q] <=> \E t \in Tools : HasTool(q, t)' /\ n = DefOf(q, t)'.name
      BY <1>10, <1>11, <1>12, <2>1, <3>2
    <3> QED BY <3>1, <3>2
  <2>3. \A q \in Servers, t \in Tools : DefOf(q, t)'.name = held'[conn'[q]][t].name
    BY DEF DefOf
  <2> QED BY <2>2, <2>3 DEF NamesHeld
<1>21. Resting'
  <2>1. \A q \in Servers : Left(q)' /\ q # s => Left(q)
    BY <1>3, <1>4, <1>1 DEF Left
  <2>2. statuses'[s] = "connected" /\ \A q \in Servers : q # s => statuses'[q] = statuses[q]
    BY <1>1, <1>2 DEF Types, McpTypeOK
  <2>3. conn'[s] # None
    BY <1>1, <1>10
  <2> QED BY <1>10, <1>11, <2>1, <2>2, <2>3 DEF Good, BookInv, Resting
<1>22. Taken'
  BY <1>1, <1>2, <1>10, <1>11 DEF Good, BookInv, Taken
<1>23. BookInv'
  BY <1>18, <1>19, <1>20, <1>21, <1>22 DEF BookInv
<1>24. FreshInv'
  <2>1. \A t \in Tools : held'[a][t].v = offered[s][t]
    <3>1. \A t \in Tools : t \notin T => held'[a][t].v = 0 /\ offered[s][t] = 0
      <4>1. NoTool.v = 0
        BY DEF NoTool
      <4> QED BY <1>9, <1>t, <4>1
    <3>2. \A t \in T : held'[a][t].v = offered[s][t]
      <4> SUFFICES ASSUME NEW t \in T PROVE held'[a][t].v = offered[s][t]
        OBVIOUS
      <4>1. held'[a][t] = [v |-> offered[s][t], name |-> F(t)]
        BY <1>1, <1>9
      <4> QED BY <4>1
    <3> QED BY <3>1, <3>2
  <2>2. \A q \in Servers, t \in Tools : q # s /\ conn[q] # None => held'[conn'[q]][t] = held[conn[q]][t]
    <3>1. \A q \in Servers : conn[q] # None => conn[q] \in Conns
      BY DEF Types, McpTypeOK
    <3> QED BY <1>9, <1>10, <3>1
  <2> QED BY <1>2, <1>10, <2>1, <2>2 DEF Good, FreshInv
<1>25. \A d : d \in D <=> \E t \in T : d = [name |-> F(t), conn |-> a, tool |-> t, v |-> offered[s][t]]
  BY <1>7 DEF Defs, F
<1> HIDE DEF D
<1>26. \A n \in FunctionNames : reg[n] = IF n \in names[s] THEN None ELSE registry[n]
  BY DEF Without
<1>27. \A r \in Syncs : \A n \in sync[r].removed : n \notin Own(s)
  <2> SUFFICES ASSUME NEW r \in Syncs, NEW n \in sync[r].removed, n \in Own(s) PROVE FALSE
    OBVIOUS
  <2>1. PICK q \in sync[r].all : n \in Own(q)
    BY DEF Good, RegInv, Removing
  <2> QED BY <1>1, <1>5, <2>1, OwnApart
<1>28. \A t \in T : F(t) \in FunctionNames /\ (registry[F(t)] = None \/ F(t) \in names[s])
  <2> SUFFICES ASSUME NEW t \in T, registry[F(t)] # None, F(t) \notin names[s] PROVE FALSE
    BY <1>1, <1>7, OwnNames
  <2>1. F(t) \in FunctionNames /\ F(t) \in Own(s)
    BY <1>1, <1>7, OwnNames
  <2> DEFINE q == ServerOf(registry[F(t)].conn)
  <2>2. q \in Servers
    BY <2>1 DEF Good, RegInv, Stems, Lasting, ServerOf
  <2>3. F(t) \in names[q]
    BY <1>27, <2>1 DEF Good, RegInv, Stems
  <2> QED BY <1>7, <2>2, <2>3
<1> HIDE DEF reg
<1>29. /\ \A t \in T : registry'[F(t)] = [name |-> F(t), conn |-> a, tool |-> t, v |-> offered[s][t]]
       /\ \A n \in FunctionNames :
            \/ \E t \in T : n = F(t)
            \/ (\A t \in T : n # F(t)) /\ registry'[n] = IF n \in names[s] THEN None ELSE registry[n]
  <2>1. \A d \in D : \E t \in T : d = [name |-> F(t), conn |-> a, tool |-> t, v |-> offered[s][t]]
                                  /\ d.name = F(t) /\ d.tool = t /\ d.conn = a
    BY <1>25
  <2>2. \A d \in D : d.name \in FunctionNames /\ reg[d.name] = None
    BY <1>26, <1>28, <2>1
  <2>3. \A d, e \in D : d.name = e.name => d = e
    BY <1>7, <2>1
  <2>4. /\ \A d \in D : d.name \in FunctionNames => registry'[d.name] = d
        /\ \A n \in FunctionNames : \/ registry'[n] \in D /\ registry'[n].name = n
                                    \/ (\A d \in D : d.name # n) /\ registry'[n] = reg[n]
    BY <1>2, <2>2, <2>3, RegistersAll
  <2>5. \A t \in T : registry'[F(t)] = [name |-> F(t), conn |-> a, tool |-> t, v |-> offered[s][t]]
    <3> SUFFICES ASSUME NEW t \in T
                 PROVE  registry'[F(t)] = [name |-> F(t), conn |-> a, tool |-> t, v |-> offered[s][t]]
      OBVIOUS
    <3> DEFINE d == [name |-> F(t), conn |-> a, tool |-> t, v |-> offered[s][t]]
    <3>1. d \in D /\ d.name = F(t)
      BY <1>25
    <3> HIDE DEF d
    <3>2. registry'[d.name] = d
      BY <3>1, <2>2, <2>4
    <3> QED BY <3>1, <3>2 DEF d
  <2>6. ASSUME NEW n \in FunctionNames
        PROVE  \/ \E t \in T : n = F(t)
               \/ (\A t \in T : n # F(t)) /\ registry'[n] = IF n \in names[s] THEN None ELSE registry[n]
    <3>1. CASE registry'[n] \in D /\ registry'[n].name = n
      BY <2>1, <3>1
    <3>2. CASE registry'[n] = reg[n]
      BY <1>26, <3>2
    <3> QED BY <2>4, <3>1, <3>2
  <2> QED BY <2>5, <2>6
<1>30. Stems'
  <2> SUFFICES ASSUME NEW n \in FunctionNames, registry'[n] # None
               PROVE  (/\ Lasting(registry[n].conn) /\ n \in Own(ServerOf(registry[n].conn))
                       /\ \/ \E r \in Syncs : n \in sync[r].removed
                          \/ n \in names[ServerOf(registry[n].conn)])'
    BY DEF Stems
  <2>1. CASE \E t \in T : n = F(t)
    <3>1. PICK t \in T : n = F(t)
      BY <2>1
    <3>2. registry'[n].conn = a
      <4>1. registry'[n] = [name |-> F(t), conn |-> a, tool |-> t, v |-> offered[s][t]]
        BY <1>29, <3>1
      <4> QED BY <4>1
    <3>3. Lasting(a)' /\ ServerOf(a)' = s
      BY <1>1, <1>3 DEF Lasting, ServerOf
    <3>4. n \in Own(s) /\ n \in names'[s]
      BY <1>7, <1>8, <1>11, <3>1
    <3> QED BY <1>13, <3>2, <3>3, <3>4
  <2>2. CASE \A t \in T : n # F(t)
    <3>1. registry'[n] = registry[n] /\ n \notin names[s]
      BY <1>29, <2>2
    <3>2. Lasting(registry[n].conn) /\ n \in Own(ServerOf(registry[n].conn))
      BY <3>1 DEF Good, RegInv, Stems
    <3>3. Lasting(registry[n].conn)' /\ ServerOf(registry[n].conn)' = ServerOf(registry'[n].conn)
      BY <3>1, <3>2 DEF Stays
    <3>4. ServerOf(registry[n].conn) \in Servers
      BY <3>2 DEF Lasting, ServerOf
    <3>5. n \in names[ServerOf(registry[n].conn)] => n \in names'[ServerOf(registry[n].conn)]
      BY <1>11, <3>1, <3>4
    <3>6. (\E r \in Syncs : n \in sync[r].removed) \/ n \in names[ServerOf(registry[n].conn)]
      BY <3>1 DEF Good, RegInv, Stems
    <3>7. UNCHANGED sync
      BY <1>2
    <3> QED BY <1>13, <3>1, <3>2, <3>3, <3>5, <3>6, <3>7
  <2> QED BY <2>1, <2>2
<1>31. Served'
  <2> SUFFICES ASSUME NEW q \in Servers, NEW t \in Tools, HasTool(q, t)'
               PROVE  \/ \E r \in Syncs : DefOf(q, t)' \in sync'[r].tools
                      \/ /\ registry'[DefOf(q, t)'.name] = DefOf(q, t)'
                         /\ \A r \in Syncs : DefOf(q, t)'.name \notin sync'[r].removed
    BY DEF Served
  <2>0. UNCHANGED sync
    BY <1>2
  <2>1. CASE q = s
    <3>1. t \in T /\ DefOf(s, t)' = [name |-> F(t), conn |-> a, tool |-> t, v |-> offered[s][t]]
      BY <1>12, <2>1
    <3>2. DefOf(s, t)'.name = F(t)
      BY <3>1
    <3>3. registry'[F(t)] = DefOf(s, t)'
      BY <1>29, <3>1
    <3>4. \A r \in Syncs : F(t) \notin sync[r].removed
      BY <1>7, <1>27, <3>1
    <3> QED BY <2>0, <2>1, <3>2, <3>3, <3>4
  <2>2. CASE q # s
    <3>1. HasTool(q, t) /\ DefOf(q, t)' = DefOf(q, t)
      BY <1>12, <2>2
    <3> DEFINE n == DefOf(q, t).name
    <3>2. n \in names[q] /\ n \in FunctionNames
      BY <3>1, HeldFacts
    <3>3. n \notin names[s] /\ \A u \in T : n # F(u)
      BY <1>1, <1>7, <2>2, <3>2, HeldFacts
    <3>4. registry'[n] = registry[n]
      BY <1>29, <3>2, <3>3
    <3>5. \/ \E r \in Syncs : DefOf(q, t) \in sync[r].tools
          \/ registry[n] = DefOf(q, t) /\ \A r \in Syncs : n \notin sync[r].removed
      BY <3>1 DEF Good, RegInv, Served
    <3> QED BY <2>0, <3>1, <3>4, <3>5
  <2> QED BY <2>1, <2>2
<1>32. Pending'
  <2> SUFFICES ASSUME NEW r \in Syncs, NEW d \in sync[r].tools
               PROVE  /\ \E q \in sync[r].all \ sync[r].left, t \in Tools :
                           HasTool(q, t)' /\ d = DefOf(q, t)' /\ conn'[q] # sync[r].at
                      /\ registry'[d.name] = None \/ d.name \in sync[r].removed
    BY <1>2 DEF Pending
  <2>1. PICK q \in sync[r].all \ sync[r].left, t \in Tools :
           HasTool(q, t) /\ d = DefOf(q, t) /\ conn[q] # sync[r].at
    BY DEF Good, RegInv, Pending
  <2>2. q \in Servers /\ q # s
    BY <1>5, <2>1
  <2>3. HasTool(q, t)' /\ d = DefOf(q, t)' /\ conn'[q] # sync[r].at
    BY <1>10, <1>12, <2>1, <2>2
  <2>4. d.name \in names[q] /\ d.name \in FunctionNames
    BY <2>1, <2>2, HeldFacts
  <2>5. d.name \notin names[s] /\ \A u \in T : d.name # F(u)
    BY <1>1, <1>7, <2>2, <2>4, HeldFacts
  <2>6. registry'[d.name] = registry[d.name]
    BY <1>29, <2>4, <2>5
  <2>7. registry[d.name] = None \/ d.name \in sync[r].removed
    BY DEF Good, RegInv, Pending
  <2> QED BY <2>1, <2>3, <2>6, <2>7
<1>33. Removing'
  BY <1>2, <1>13 DEF Good, RegInv, Removing
<1>34. RegInv'
  BY <1>30, <1>31, <1>32, <1>33 DEF RegInv
<1> QED BY <1>14, <1>15, <1>16, <1>17, <1>23, <1>24, <1>34 DEF Good

LEMMA ConnectedGood ==
  ASSUME Types, Types', Good, Stays, NEW a \in Actions, Connected(a)
  PROVE  Good'
BY ConnectedGoodAt

-----------------------------------------------------------------------------
(* A refresh starts: the servers that were marked are its own now.         *)
LEMMA StartSyncGood ==
  ASSUME Types, Types', Good, Stays, ~crossed', NEW r \in Syncs, StartSync(r)
  PROVE  Good'
<1>1. sync[r] = IdleSync
  BY DEF StartSync, Good, SyncInv
<1>2. UNCHANGED <<offered, conn, open, held, statuses, names, taken, registry, act>> /\ dirty' = {}
  BY DEF StartSync, server, books
<1>3. /\ sync'[r] = [IdleSync EXCEPT !.all = dirty, !.left = dirty, !.phase = "running"]
      /\ \A q \in Syncs : q # r => sync'[q] = sync[q]
  BY DEF StartSync, Types
<1>4. /\ sync'[r].all = dirty /\ sync'[r].left = dirty /\ sync'[r].phase = "running"
      /\ sync'[r].at = None /\ sync'[r].removed = {} /\ sync'[r].tools = {}
  BY <1>3 DEF IdleSync
<1>5. sync[r].at = None /\ sync[r].removed = {} /\ sync[r].tools = {} /\ sync[r].left = {} /\ sync[r].all = {}
  BY <1>1 DEF IdleSync
<1>6. /\ \A a \in Actions : Live(a) => \A s \in dirty : Apart(s, act[a].server)
      /\ \A q \in Syncs : \A u \in sync[q].all, s \in dirty : Apart(s, u) /\ Apart(u, s)
  <2>1. dirty \in SUBSET Servers /\ Enters(dirty)
    BY DEF StartSync, Types, McpTypeOK
  <2>2. /\ \A a \in Actions : Live(a) => \A s \in dirty : Apart(s, act[a].server)
        /\ \A q \in Syncs : \A u \in sync[q].all, s \in dirty : Apart(s, u)
    BY <2>1, EntersApart
  <2> QED BY <2>2 DEF Apart
<1>7. ActInv'
  BY <1>2 DEF Good, ActInv, Live
<1>8. SepInv'
  <2>1. \A a \in Actions : Live(a)' <=> Live(a)
    BY <1>2 DEF Live
  <2>2. \A q \in Syncs : sync'[q].all = IF q = r THEN dirty ELSE sync[q].all
    BY <1>3, <1>4
  <2>3. \A a \in Actions, q \in Syncs : Live(a) => \A s \in sync'[q].all : Apart(s, act[a].server)
    BY <1>6, <2>2 DEF Good, SepInv
  <2>4. \A p, q \in Syncs : p # q => \A s \in sync'[p].all, u \in sync'[q].all : Apart(s, u)
    BY <1>6, <2>2 DEF Good, SepInv
  <2>5. \A a, b \in Actions : a # b /\ Live(a) /\ Live(b) => Apart(act[a].server, act[b].server)
    BY DEF Good, SepInv
  <2> QED BY <1>2, <2>1, <2>3, <2>4, <2>5 DEF SepInv, Apart
<1>9. SyncInv'
  <2> SUFFICES ASSUME NEW q \in Syncs
               PROVE (/\ sync[q].phase = "idle" => sync[q] = IdleSync
                      /\ sync[q].left \subseteq sync[q].all
                      /\ sync[q].at # None => /\ ServerOf(sync[q].at) \in sync[q].all \ sync[q].left
                                              /\ conn[ServerOf(sync[q].at)] = sync[q].at)'
    BY DEF SyncInv
  <2>1. CASE q # r
    BY <1>2, <1>3, <2>1 DEF Good, SyncInv, IdleSync, ServerOf
  <2>2. CASE q = r
    BY <1>4, <2>2
  <2> QED BY <2>1, <2>2
<1>10. ConnInv'
  BY <1>2, ConnFrame DEF Good
<1>11. BookInv'
  BY <1>2 DEF Good, BookInv, NamesOwn, NamesApart, HeldNames, NamesHeld, Resting, Taken,
              HasTool, Left, Live, Own, Plain, Hashed
<1>12. RegInv'
  <2>1. \A q \in Syncs : sync'[q].removed = sync[q].removed /\ sync'[q].tools = sync[q].tools
    BY <1>3, <1>4, <1>5
  <2>2. \A q : Own(q)' = Own(q)
    BY DEF Own, Plain, Hashed
  <2>3. \A q \in Servers, t \in Tools : (HasTool(q, t)' <=> HasTool(q, t)) /\ DefOf(q, t)' = DefOf(q, t)
    BY <1>2 DEF HasTool, DefOf
  <2>4. Stems'
    BY <1>2, <2>1, <2>2 DEF Good, RegInv, Stems, Lasting, ServerOf
  <2>5. Served'
    BY <1>2, <2>1, <2>3 DEF Good, RegInv, Served
  <2>6. Pending'
    <3> SUFFICES ASSUME NEW q \in Syncs, NEW d \in sync'[q].tools
                 PROVE  /\ \E s \in sync'[q].all \ sync'[q].left, t \in Tools :
                             HasTool(s, t)' /\ d = DefOf(s, t)' /\ conn[s] # sync'[q].at
                        /\ registry[d.name] = None \/ d.name \in sync'[q].removed
      BY <1>2 DEF Pending
    <3>1. q # r /\ sync'[q] = sync[q] /\ sync[q].all \subseteq Servers
      BY <1>3, <1>4 DEF Types, Refreshes
    <3> QED BY <2>3, <3>1 DEF Good, RegInv, Pending
  <2>7. Removing'
    BY <1>3, <1>4, <2>2 DEF Good, RegInv, Removing
  <2> QED BY <2>4, <2>5, <2>6, <2>7 DEF RegInv
<1>13. FreshInv'
  <2> SUFFICES ASSUME NEW s \in Servers, conn[s] # None,
                      \A q \in Syncs : s \notin sync'[q].left /\ sync'[q].at # conn[s], NEW t \in Tools
               PROVE  held[conn[s]][t].v = offered[s][t]
    BY <1>2 DEF FreshInv
  <2>1. s \notin dirty
    BY <1>4
  <2>2. \A q \in Syncs : s \notin sync[q].left /\ sync[q].at # conn[s]
    BY <1>3, <1>5
  <2> QED BY <2>1, <2>2 DEF Good, FreshInv
<1> QED BY <1>7, <1>8, <1>9, <1>10, <1>11, <1>12, <1>13 DEF Good

(* A refresh that only goes on: the next server, or one that fails.        *)
LEMMA GoesOnGood ==
  ASSUME Types, Types', Good, Stays, NEW r \in Syncs,
         UNCHANGED <<offered, conn, open, held, statuses, names, taken, registry, act>>,
         \A q \in Syncs : q # r => sync'[q] = sync[q],
         /\ sync'[r].all = sync[r].all /\ sync'[r].left \subseteq sync[r].left
         /\ sync'[r].removed = sync[r].removed /\ sync'[r].tools = sync[r].tools
         /\ sync'[r].phase = sync[r].phase /\ sync[r] # IdleSync,
         \/ sync'[r].at = None
         \/ \E s \in sync[r].left \ sync'[r].left : sync'[r].at = conn[s],
         FreshInv'
  PROVE  Good'
<1>1. \A q \in Syncs : /\ sync'[q].removed = sync[q].removed /\ sync'[q].tools = sync[q].tools
                       /\ sync'[q].all = sync[q].all /\ sync[q].all \subseteq Servers
                       /\ sync'[q].left \subseteq sync[q].left
  BY DEF Types, Refreshes
<1>2. ActInv'
  BY DEF Good, ActInv, Live
<1>3. SepInv'
  BY <1>1 DEF Good, SepInv, Live, Apart
<1>4. SyncInv'
  <2> SUFFICES ASSUME NEW q \in Syncs
               PROVE (/\ sync[q].phase = "idle" => sync[q] = IdleSync
                      /\ sync[q].left \subseteq sync[q].all
                      /\ sync[q].at # None => /\ ServerOf(sync[q].at) \in sync[q].all \ sync[q].left
                                              /\ conn[ServerOf(sync[q].at)] = sync[q].at)'
    BY DEF SyncInv
  <2>1. CASE q # r
    BY <2>1 DEF Good, SyncInv, IdleSync, ServerOf
  <2>2. CASE q = r
    <3>1. sync'[r].phase # "idle"
      BY DEF Good, SyncInv
    <3>2. sync'[r].left \subseteq sync'[r].all
      BY <1>1 DEF Good, SyncInv
    <3>3. ASSUME sync'[r].at # None
          PROVE  (/\ ServerOf(sync[r].at) \in sync[r].all \ sync[r].left
                  /\ conn[ServerOf(sync[r].at)] = sync[r].at)'
      <4>1. PICK s \in sync[r].left \ sync'[r].left : sync'[r].at = conn[s]
        BY <3>3
      <4>2. s \in sync'[r].all /\ s \in Servers
        BY <1>1, <4>1 DEF Good, SyncInv
      <4>3. ServerOf(conn[s])' = s
        BY <3>3, <4>1, <4>2 DEF Good, ConnInv, ServerOf
      <4>4. ServerOf(sync[r].at)' = s
        BY <4>1, <4>3 DEF ServerOf
      <4> QED BY <4>1, <4>2, <4>4
    <3> QED BY <2>2, <3>1, <3>2, <3>3
  <2> QED BY <2>1, <2>2
<1>5. ConnInv'
  BY ConnFrame DEF Good
<1>6. BookInv'
  BY DEF Good, BookInv, NamesOwn, NamesApart, HeldNames, NamesHeld, Resting, Taken,
         HasTool, Left, Live, Own, Plain, Hashed
<1>7. RegInv'
  <2>2. \A q : Own(q)' = Own(q)
    BY DEF Own, Plain, Hashed
  <2>3. \A q \in Servers, t \in Tools : (HasTool(q, t)' <=> HasTool(q, t)) /\ DefOf(q, t)' = DefOf(q, t)
    BY DEF HasTool, DefOf
  <2>4. Stems'
    BY <1>1, <2>2 DEF Good, RegInv, Stems, Lasting, ServerOf
  <2>5. Served'
    BY <1>1, <2>3 DEF Good, RegInv, Served
  <2>6. Pending'
    <3> SUFFICES ASSUME NEW q \in Syncs, NEW d \in sync[q].tools
                 PROVE  /\ \E s \in sync'[q].all \ sync'[q].left, t \in Tools :
                             HasTool(s, t)' /\ d = DefOf(s, t)' /\ conn[s] # sync'[q].at
                        /\ registry[d.name] = None \/ d.name \in sync[q].removed
      BY <1>1 DEF Pending
    <3>1. PICK s \in sync[q].all \ sync[q].left, t \in Tools :
             HasTool(s, t) /\ d = DefOf(s, t) /\ conn[s] # sync[q].at
      BY DEF Good, RegInv, Pending
    <3>2. s \in Servers /\ s \in sync'[q].all \ sync'[q].left
      BY <1>1, <3>1
    <3>3. conn[s] # sync'[q].at
      <4>1. CASE q # r
        BY <3>1, <4>1
      <4>2. CASE q = r
        <5>1. conn[s] # None
          BY <3>1 DEF HasTool
        <5>2. \A u \in sync[r].left \ sync'[r].left : u # s /\ u \in Servers
          BY <1>1, <3>1, <4>2 DEF Good, SyncInv
        <5>3. \A u \in Servers : u # s => conn[u] # conn[s]
          BY <3>2, <5>1 DEF Good, ConnInv
        <5> QED BY <4>2, <5>1, <5>2, <5>3
      <4> QED BY <4>1, <4>2
    <3>4. registry[d.name] = None \/ d.name \in sync[q].removed
      BY DEF Good, RegInv, Pending
    <3> QED BY <2>3, <3>1, <3>2, <3>3, <3>4
  <2>7. Removing'
    BY <1>1, <2>2 DEF Good, RegInv, Removing
  <2> QED BY <2>4, <2>5, <2>6, <2>7 DEF RegInv
<1> QED BY <1>2, <1>3, <1>4, <1>5, <1>6, <1>7 DEF Good

(* The next server, and a list that fails and marks its server again.      *)
LEMMA NextServerGood ==
  ASSUME Types, Types', Good, Stays, NEW r \in Syncs, NextServer(r)
  PROVE  Good'
<1>1. PICK s \in sync[r].left : sync' = [sync EXCEPT ![r].left = @ \ {s}, ![r].at = conn[s]]
  BY DEF NextServer
<1>2. sync'[r] = [sync[r] EXCEPT !.left = @ \ {s}, !.at = conn[s]] /\ sync[r] \in Refreshes
      /\ \A q \in Syncs : q # r => sync'[q] = sync[q]
  BY <1>1 DEF Types
<1>3. /\ sync'[r].all = sync[r].all /\ sync'[r].left = sync[r].left \ {s}
      /\ sync'[r].removed = sync[r].removed /\ sync'[r].tools = sync[r].tools
      /\ sync'[r].phase = sync[r].phase /\ sync'[r].at = conn[s]
  BY <1>2 DEF Refreshes
<1>4. UNCHANGED <<offered, conn, open, held, statuses, names, taken, registry, act, dirty>>
  BY DEF NextServer, server, books
<1>5. sync[r] # IdleSync /\ sync[r].at = None
  BY <1>1 DEF IdleSync, NextServer
<1>6. FreshInv'
  <2> SUFFICES ASSUME NEW q \in Servers, conn[q] # None, q \notin dirty,
                      \A p \in Syncs : q \notin sync'[p].left /\ sync'[p].at # conn[q], NEW t \in Tools
               PROVE  held[conn[q]][t].v = offered[q][t]
    BY <1>4 DEF FreshInv
  <2>1. q # s
    BY <1>3
  <2>2. \A p \in Syncs : q \notin sync[p].left /\ sync[p].at # conn[q]
    BY <1>2, <1>3, <1>5, <2>1
  <2> QED BY <2>2 DEF Good, FreshInv
<1> QED BY <1>1, <1>2, <1>3, <1>4, <1>5, <1>6, GoesOnGood

LEMMA ListFailsGood ==
  ASSUME Types, Types', Good, Stays, NEW r \in Syncs, ListFails(r)
  PROVE  Good'
<1>1. sync' = [sync EXCEPT ![r].at = None] /\ dirty' = dirty \cup {ServerOf(sync[r].at)} /\ sync[r].at # None
  BY DEF ListFails, ListFailsThen
<1>2. sync'[r] = [sync[r] EXCEPT !.at = None] /\ sync[r] \in Refreshes
      /\ \A q \in Syncs : q # r => sync'[q] = sync[q]
  BY <1>1 DEF Types
<1>3. /\ sync'[r].all = sync[r].all /\ sync'[r].left = sync[r].left
      /\ sync'[r].removed = sync[r].removed /\ sync'[r].tools = sync[r].tools
      /\ sync'[r].phase = sync[r].phase /\ sync'[r].at = None
  BY <1>2 DEF Refreshes
<1>4. UNCHANGED <<offered, conn, open, held, statuses, names, taken, registry, act>>
  BY DEF ListFails, ListFailsThen, server, books
<1>5. sync[r] # IdleSync
  BY <1>1 DEF IdleSync
<1>6. FreshInv'
  <2> SUFFICES ASSUME NEW q \in Servers, conn[q] # None, q \notin dirty',
                      \A p \in Syncs : q \notin sync'[p].left /\ sync'[p].at # conn[q], NEW t \in Tools
               PROVE  held[conn[q]][t].v = offered[q][t]
    BY <1>4 DEF FreshInv
  <2>1. q \notin dirty /\ q # ServerOf(sync[r].at)
    BY <1>1
  <2>2. ServerOf(conn[q]) = q
    BY DEF Good, ConnInv
  <2>3. \A p \in Syncs : q \notin sync[p].left /\ sync[p].at # conn[q]
    BY <1>2, <1>3, <2>1, <2>2
  <2> QED BY <2>1, <2>3 DEF Good, FreshInv
<1> QED BY <1>2, <1>3, <1>4, <1>5, <1>6, GoesOnGood

-----------------------------------------------------------------------------
(* A server's list, asked for by refresh r over its connection c.          *)
LEMMA ListsGoodAt ==
  ASSUME Types, Types', Good, Stays, NEW r \in Syncs, Lists(r),
         NEW c, c = sync[r].at, NEW s, s = ServerOf(c),
         NEW lost, lost = {t \in Tools : held[c][t].v # 0 /\ held[c][t].v # offered[s][t]},
         NEW T, T = {t \in Tools : offered[s][t] # 0 /\ held[c][t].v # offered[s][t]},
         NEW gone, gone = {held[c][t].name : t \in lost},
         NEW seen, seen = taken \ gone
  PROVE  Good'
<1> DEFINE F(t) == Free(s, t, seen)
           list == offered[s]
           dropped == [held EXCEPT ![c] = [t \in Tools |->
                         IF t \in lost THEN NoTool ELSE held[c][t]]]
           D == Defs(s, c, T, list, seen)
           new == NamesOf(s, T, seen)
<1>1. /\ c \in open
      /\ held' = Kept(dropped, conn[s], s, T, list, seen)
      /\ taken' = seen \cup new
      /\ names' = [names EXCEPT ![s] = (@ \ gone) \cup
                     IF statuses[s] = "connected" THEN new ELSE {}]
      /\ sync' = [sync EXCEPT ![r].at = None, ![r].removed = @ \cup gone, ![r].tools = @ \cup D]
      /\ UNCHANGED <<server, conn, open, known, statuses, dirty, registry, act, crossed>>
  <2> DEFINE c0 == sync[r].at
             s0 == ServerOf(c0)
             list0 == offered[s0]
             lost0 == {t \in Tools : held[c0][t].v # 0 /\ held[c0][t].v # list0[t]}
             T0 == {t \in Tools : list0[t] # 0 /\ held[c0][t].v # list0[t]}
             gone0 == {held[c0][t].name : t \in lost0}
             seen0 == taken \ gone0
             dropped0 == [held EXCEPT ![c0] = [t \in Tools |->
                            IF t \in lost0 THEN NoTool ELSE held[c0][t]]]
             D0 == Defs(s0, c0, T0, list0, seen0)
             new0 == NamesOf(s0, T0, seen0)
  <2>1. /\ c0 \in open
        /\ held' = Kept(dropped0, conn[s0], s0, T0, list0, seen0)
        /\ taken' = seen0 \cup new0
        /\ names' = [names EXCEPT ![s0] = (@ \ gone0) \cup
                       IF statuses[s0] = "connected" THEN new0 ELSE {}]
        /\ sync' = [sync EXCEPT ![r].at = None, ![r].removed = @ \cup gone0, ![r].tools = @ \cup D0]
        /\ UNCHANGED <<server, conn, open, known, statuses, dirty, registry, act, crossed>>
    BY DEF Lists
  <2>2. c0 = c /\ s0 = s /\ list0 = list
    OBVIOUS
  <2>3. lost0 = lost /\ T0 = T
    BY <2>2
  <2>4. gone0 = gone /\ seen0 = seen
    BY <2>2, <2>3
  <2>5. dropped0 = dropped /\ D0 = D /\ new0 = new
    BY <2>2, <2>3, <2>4
  <2> HIDE DEF c0, s0, list0, lost0, T0, gone0, seen0, dropped0, D0, new0, dropped, D, new, list
  <2> QED BY <2>1, <2>2, <2>3, <2>4, <2>5
<1> HIDE DEF dropped, D, new, list
<1>2. c \in Conns /\ c # None /\ s \in Servers /\ conn[s] = c /\ s \in sync[r].all \ sync[r].left
  <2>1. c \in open /\ c \in Conns /\ c # None
    <3>1. open \subseteq Conns /\ None \notin Conns
      BY NoneOutside DEF Types, McpTypeOK
    <3>2. c \in open
      BY <1>1
    <3> QED BY <3>1, <3>2
  <2>2. sync[r].at # None /\ sync[r].all \subseteq Servers
    BY <2>1 DEF Types, Refreshes
  <2> QED BY <2>1, <2>2 DEF Good, SyncInv
<1>3. T \in SUBSET Tools /\ lost \in SUBSET Tools
  OBVIOUS
<1>4. UNCHANGED <<offered, conn, open, statuses, dirty, registry, act>>
  BY <1>1 DEF server
<1>5. /\ \A q \in Syncs : q # r => sync'[q] = sync[q]
      /\ sync'[r].all = sync[r].all /\ sync'[r].left = sync[r].left /\ sync'[r].phase = sync[r].phase
      /\ sync'[r].at = None /\ sync'[r].removed = sync[r].removed \cup gone /\ sync'[r].tools = sync[r].tools \cup D
  <2>1. sync'[r] = [sync[r] EXCEPT !.at = None, !.removed = @ \cup gone, !.tools = @ \cup D]
        /\ sync[r] \in Refreshes
    BY <1>1 DEF Types
  <2>2. \A q \in Syncs : q # r => sync'[q] = sync[q]
    BY <1>1 DEF Types
  <2> QED BY <2>1, <2>2 DEF Refreshes
<1>6. /\ \A a \in Actions : Live(a) => act[a].server # s /\ Apart(act[a].server, s)
      /\ \A q \in Syncs : q # r => \A u \in sync[q].all : Apart(u, s) /\ u # s
      /\ \A q \in Syncs : sync[q].all \subseteq Servers
  BY <1>2 DEF Good, SepInv, Apart, Types, Refreshes
<1>7. \A t \in Tools : HasTool(s, t) <=> held[c][t].v # 0
  BY <1>2 DEF HasTool
<1>8. \A t \in Tools : HasTool(s, t) => /\ held[c][t].name \in {Plain(s, t), Hashed(s, t)}
                                        /\ held[c][t].name \in names[s]
  BY <1>2, HeldFacts DEF DefOf
<1>9. \A t, u \in Tools : HasTool(s, t) /\ HasTool(s, u) /\ held[c][t].name = held[c][u].name => t = u
  <2>1. ASSUME NEW t \in Tools, HasTool(s, t) PROVE held[c][t].name.tool = t
    <3>1. held[c][t].name \in {Plain(s, t), Hashed(s, t)}
      BY <1>8, <2>1
    <3> QED BY <3>1, ToolOf
  <2> QED BY <2>1
<1>10. \A n : n \in gone <=> \E t \in lost : n = held[c][t].name
  OBVIOUS
<1>11. \A t \in lost : HasTool(s, t)
  BY <1>7
<1>12. gone \subseteq names[s]
  BY <1>3, <1>8, <1>10, <1>11
<1>13. Left(s) /\ statuses[s] = "connected"
  <2>1. Left(s)
    BY <1>6 DEF Left
  <2> QED BY <1>2, <2>1 DEF Good, BookInv, Resting
<1>14. \A n \in names[s] : n \in taken /\ \E t \in Tools : HasTool(s, t) /\ n = held[c][t].name
  BY <1>2 DEF Good, BookInv, Taken, NamesHeld
<1>15. \A t \in T : Hashed(s, t) \notin seen
  <2> SUFFICES ASSUME NEW t \in T, Hashed(s, t) \in taken, Hashed(s, t) \notin gone PROVE FALSE
    OBVIOUS
  <2>1. PICK q \in Servers : conn[q] # None /\ Hashed(s, t) \in names[q]
    BY DEF Good, BookInv, Taken
  <2>2. Hashed(s, t) \in Own(q)
    BY <2>1, HeldFacts
  <2>3. q = s
    BY <1>2, <1>3, <2>2, HashedAlone
  <2>4. PICK u \in Tools : HasTool(s, u) /\ Hashed(s, t) = held[c][u].name
    BY <1>14, <2>1, <2>3
  <2>5. t \in Tools /\ t = u
    <3>1. t \in Tools /\ Hashed(s, t).tool = t
      BY <1>3 DEF Hashed
    <3>2. held[c][u].name.tool = u
      <4>1. held[c][u].name \in {Plain(s, u), Hashed(s, u)}
        BY <1>8, <2>4
      <4> QED BY <4>1, ToolOf
    <3> QED BY <2>4, <3>1, <3>2
  <2>6. t \in lost
    BY <1>7, <2>4, <2>5
  <2> QED BY <1>10, <2>4, <2>5, <2>6
<1>16. /\ Given(s, T, seen) = T
       /\ \A t \in T : /\ F(t) \in {Plain(s, t), Hashed(s, t)} /\ F(t) \notin seen
                       /\ F(t) # None /\ F(t) \in Own(s)
       /\ \A t, u \in T : F(t) = F(u) => t = u
       /\ \A q \in Servers : q # s => \A t \in T : F(t) \notin names[q]
  <2>1. \A q \in Servers : q # s => \A n \in names[q] : n \in taken => n \in seen
    BY <1>2, <1>12, HeldFacts
  <2>2. OpenTo(s, T, seen)
    BY <1>6, <1>15, <2>1 DEF OpenTo
  <2>3. NamedAnew(s, T, seen)
    BY <1>2, <1>3, <2>2, GivenFresh
  <2> QED BY <2>3 DEF NamedAnew
<1> HIDE DEF F
<1>17. \A n : n \in new <=> \E t \in T : n = F(t)
  BY <1>16 DEF NamesOf, F, new
<1>18. /\ \A e \in Conns : e # c => held'[e] = held[e]
       /\ \A t \in Tools : held'[c][t] = IF t \in T THEN [v |-> offered[s][t], name |-> F(t)]
                                         ELSE IF t \in lost THEN NoTool ELSE held[c][t]
  <2>1. DOMAIN dropped = Conns /\ \A e \in Conns : e # c => dropped[e] = held[e]
    BY <1>2 DEF Types, McpTypeOK, dropped
  <2>2. \A t \in Tools : dropped[c][t] = IF t \in lost THEN NoTool ELSE held[c][t]
    BY <1>2 DEF Types, McpTypeOK, dropped
  <2>3. held' = [dropped EXCEPT ![c] = [t \in Tools |->
              IF t \in Given(s, T, seen)
                THEN [v |-> offered[s][t], name |-> Free(s, t, seen)] ELSE dropped[c][t]]]
    BY <1>1, <1>2 DEF Kept, list
  <2>4. \A e \in Conns : e # c => held'[e] = dropped[e]
    BY <2>1, <2>3
  <2>5. held'[c] = [t \in Tools |->
              IF t \in Given(s, T, seen)
                THEN [v |-> offered[s][t], name |-> Free(s, t, seen)] ELSE dropped[c][t]]
    BY <1>2, <2>1, <2>3
  <2> QED BY <1>16, <2>1, <2>2, <2>4, <2>5 DEF F
<1>19. names'[s] = (names[s] \ gone) \cup new /\ \A q \in Servers : q # s => names'[q] = names[q]
  BY <1>1, <1>2, <1>13 DEF Types, McpTypeOK
<1>20. /\ \A t \in T : held'[c][t].v = offered[s][t] /\ held'[c][t].name = F(t)
       /\ \A t \in Tools : t \notin T /\ t \in lost => held'[c][t].v = 0
       /\ \A t \in Tools : t \notin T /\ t \notin lost => held'[c][t] = held[c][t]
  <2>1. NoTool.v = 0
    BY DEF NoTool
  <2>2. ASSUME NEW t \in T PROVE held'[c][t].v = offered[s][t] /\ held'[c][t].name = F(t)
    <3>1. held'[c][t] = [v |-> offered[s][t], name |-> F(t)]
      BY <1>3, <1>18
    <3> QED BY <3>1
  <2> QED BY <1>18, <2>1, <2>2
<1>21. \A t \in Tools : held'[c][t].v = offered[s][t]
  <2> SUFFICES ASSUME NEW t \in Tools PROVE held'[c][t].v = offered[s][t]
    OBVIOUS
  <2>1. CASE t \in T
    BY <1>20, <2>1
  <2>2. CASE t \notin T /\ t \in lost
    <3>1. offered[s][t] = 0
      BY <2>2
    <3> QED BY <1>20, <2>2, <3>1
  <2>3. CASE t \notin T /\ t \notin lost
    <3>1. held[c][t].v = offered[s][t]
      BY <2>3
    <3> QED BY <1>20, <2>3, <3>1
  <2> QED BY <2>1, <2>2, <2>3
<1>22. /\ \A t \in T : HasTool(s, t)' /\ DefOf(s, t)' = [name |-> F(t), conn |-> c, tool |-> t, v |-> offered[s][t]]
       /\ \A t \in T : DefOf(s, t)'.name = F(t)
       /\ \A t \in Tools : t \notin T => (HasTool(s, t)' <=> HasTool(s, t) /\ t \notin lost)
       /\ \A t \in Tools : t \notin T /\ t \notin lost => DefOf(s, t)' = DefOf(s, t)
  <2>1. \A t \in T : t \in Tools /\ offered[s][t] # 0
    OBVIOUS
  <2>2. \A t \in Tools : HasTool(s, t)' <=> held'[c][t].v # 0
    BY <1>2, <1>4 DEF HasTool
  <2>3. \A t \in T : HasTool(s, t)'
    BY <1>20, <2>1, <2>2
  <2>4. \A t \in T : DefOf(s, t)' = [name |-> F(t), conn |-> c, tool |-> t, v |-> offered[s][t]]
    BY <1>2, <1>4, <1>20 DEF DefOf
  <2>5. \A t \in Tools : t \notin T => (HasTool(s, t)' <=> HasTool(s, t) /\ t \notin lost)
    BY <1>7, <1>20, <2>2
  <2>6. \A t \in Tools : t \notin T /\ t \notin lost => DefOf(s, t)' = DefOf(s, t)
    <3> SUFFICES ASSUME NEW t \in Tools, t \notin T, t \notin lost
                 PROVE  DefOf(s, t)' = DefOf(s, t)
      OBVIOUS
    <3>1. held'[c][t] = held[c][t]
      BY <1>20
    <3>2. conn[s] = c /\ conn'[s] = c
      BY <1>2, <1>4
    <3> QED BY <3>1, <3>2 DEF DefOf
  <2>7. \A t \in T : DefOf(s, t)'.name = F(t)
    BY <1>2, <1>4, <1>20 DEF DefOf
  <2> QED BY <2>3, <2>4, <2>5, <2>6, <2>7
<1>23. /\ \A q \in Servers : q # s /\ conn[q] # None => conn[q] # c /\ held'[conn[q]] = held[conn[q]]
       /\ \A q \in Servers, t \in Tools : q # s => (HasTool(q, t)' <=> HasTool(q, t))
       /\ \A q \in Servers, t \in Tools : q # s /\ HasTool(q, t) => DefOf(q, t)' = DefOf(q, t)
  <2>1. \A q \in Servers : q # s /\ conn[q] # None => conn[q] # c /\ conn[q] \in Conns
    BY <1>2 DEF Good, ConnInv, Types, McpTypeOK
  <2>2. \A q \in Servers : q # s /\ conn[q] # None => conn[q] # c /\ held'[conn[q]] = held[conn[q]]
    BY <1>18, <2>1
  <2>3. \A q \in Servers, t \in Tools : q # s => (HasTool(q, t)' <=> HasTool(q, t))
    BY <1>4, <2>2 DEF HasTool
  <2>4. \A q \in Servers, t \in Tools : q # s /\ HasTool(q, t) => DefOf(q, t)' = DefOf(q, t)
    BY <1>4, <2>2 DEF HasTool, DefOf
  <2> QED BY <2>2, <2>3, <2>4
<1>24. \A q : Own(q)' = Own(q)
  BY DEF Own, Plain, Hashed
<1>25. ActInv'
  <2>1. \A a \in Actions : act[a].phase # "done" => a # c
    BY <1>2, McpAssumption DEF Good, ConnInv, Types, Lasting
  <2>2. \A a \in Actions, t \in Tools : act[a].phase # "done" => held'[a][t] = NoTool
    BY <1>18, <2>1 DEF Good, ActInv, Conns
  <2>3. \A a \in Actions : Live(a) => act[a].before = names'[act[a].server]
    BY <1>6, <1>19 DEF Good, ActInv, Types
  <2> QED BY <1>4, <2>2, <2>3 DEF Good, ActInv, Live, NoTool
<1>26. SepInv'
  <2>1. \A q \in Syncs : sync'[q].all = sync[q].all
    BY <1>5
  <2> QED BY <1>4, <2>1 DEF Good, SepInv, Live, Apart
<1>27. SyncInv'
  <2> SUFFICES ASSUME NEW q \in Syncs
               PROVE (/\ sync[q].phase = "idle" => sync[q] = IdleSync
                      /\ sync[q].left \subseteq sync[q].all
                      /\ sync[q].at # None => /\ ServerOf(sync[q].at) \in sync[q].all \ sync[q].left
                                              /\ conn[ServerOf(sync[q].at)] = sync[q].at)'
    BY DEF SyncInv
  <2>1. CASE q # r
    <3>1. sync'[q] = sync[q] /\ UNCHANGED <<conn, IdleSync>>
      BY <1>4, <1>5, <2>1 DEF IdleSync
    <3>2. \A e : ServerOf(e)' = ServerOf(e)
      BY <1>4 DEF ServerOf
    <3> QED BY <3>1, <3>2 DEF Good, SyncInv
  <2>2. CASE q = r
    <3>1. sync[r].phase # "idle"
      BY <1>2 DEF Good, SyncInv, IdleSync
    <3> QED BY <1>5, <2>2, <3>1 DEF Good, SyncInv
  <2> QED BY <2>1, <2>2
<1>28. ConnInv'
  BY <1>4, ConnFrame DEF Good
<1>29. NamesOwn' /\ NamesApart'
  <2>1. \A n \in names'[s] : n \in names[s] \/ n \in new
    BY <1>19
  <2>2. \A n \in new : n \in Own(s) /\ \A q \in Servers : q # s => n \notin names[q]
    BY <1>16, <1>17
  <2>3. \A n \in names'[s] : n \in Own(s) /\ \A q \in Servers : q # s => n \notin names[q]
    BY <1>2, <2>1, <2>2, HeldFacts
  <2>4. NamesOwn'
    BY <1>19, <1>24, <2>3 DEF Good, BookInv, NamesOwn
  <2>5. NamesApart'
    BY <1>19, <2>3 DEF Good, BookInv, NamesApart
  <2> QED BY <2>4, <2>5
<1>30. HeldNames' /\ NamesHeld'
  <2>1. \A q \in Servers, t \in Tools : DefOf(q, t)'.name = held'[conn'[q]][t].name
    BY DEF DefOf
  <2>2. \A t \in Tools : HasTool(s, t)' => DefOf(s, t)'.name \in {Plain(s, t), Hashed(s, t)}
    <3> SUFFICES ASSUME NEW t \in Tools, HasTool(s, t)'
                 PROVE  DefOf(s, t)'.name \in {Plain(s, t), Hashed(s, t)}
      OBVIOUS
    <3>1. CASE t \in T
      <4>1. DefOf(s, t)'.name = F(t)
        BY <1>22, <3>1
      <4> QED BY <1>16, <3>1, <4>1
    <3>2. CASE t \notin T
      <4>1. HasTool(s, t) /\ DefOf(s, t)' = DefOf(s, t)
        BY <1>22, <3>2
      <4> QED BY <1>2, <4>1, HeldFacts
    <3> QED BY <3>1, <3>2
  <2>3. \A q \in Servers, t \in Tools : q # s /\ HasTool(q, t)' => DefOf(q, t)'.name \in {Plain(q, t), Hashed(q, t)}
    BY <1>23, HeldFacts
  <2>4. HeldNames'
    BY <2>1, <2>2, <2>3 DEF HeldNames, Plain, Hashed
  <2>5. \A n : n \in names'[s] => \E t \in Tools : HasTool(s, t)' /\ n = DefOf(s, t)'.name
    <3> SUFFICES ASSUME NEW n, n \in names'[s] PROVE \E t \in Tools : HasTool(s, t)' /\ n = DefOf(s, t)'.name
      OBVIOUS
    <3>1. CASE n \in new
      <4>1. PICK t \in T : n = F(t)
        BY <1>17, <3>1
      <4>2. DefOf(s, t)'.name = F(t) /\ HasTool(s, t)' /\ t \in Tools
        BY <1>3, <1>22
      <4> QED BY <4>1, <4>2
    <3>2. CASE n \in names[s] \ gone
      <4>1. PICK t \in Tools : HasTool(s, t) /\ n = held[c][t].name
        BY <1>14, <3>2
      <4>2. t \notin lost
        BY <1>10, <3>2, <4>1
      <4>3. t \notin T
        BY <1>7, <4>1, <4>2
      <4>4. HasTool(s, t)' /\ DefOf(s, t)' = DefOf(s, t) /\ DefOf(s, t).name = held[c][t].name
        BY <1>2, <1>22, <4>1, <4>2, <4>3 DEF DefOf
      <4> QED BY <4>1, <4>4
    <3> QED BY <1>19, <3>1, <3>2
  <2>6. \A t \in Tools : HasTool(s, t)' => DefOf(s, t)'.name \in names'[s]
    <3> SUFFICES ASSUME NEW t \in Tools, HasTool(s, t)' PROVE DefOf(s, t)'.name \in names'[s]
      OBVIOUS
    <3>1. CASE t \in T
      <4>1. DefOf(s, t)'.name = F(t)
        BY <1>22, <3>1
      <4> QED BY <1>17, <1>19, <3>1, <4>1
    <3>2. CASE t \notin T
      <4>1. HasTool(s, t) /\ t \notin lost /\ DefOf(s, t)' = DefOf(s, t) /\ DefOf(s, t).name = held[c][t].name
        BY <1>2, <1>22, <3>2 DEF DefOf
      <4>2. held[c][t].name \in names[s] /\ held[c][t].name \notin gone
        BY <1>3, <1>8, <1>9, <1>10, <1>11, <4>1
      <4> QED BY <1>19, <4>1, <4>2
    <3> QED BY <3>1, <3>2
  <2>7. ASSUME NEW q \in Servers, q # s, conn'[q] # None, NEW n
        PROVE  n \in names'[q] <=> \E t \in Tools : HasTool(q, t)' /\ n = DefOf(q, t)'.name
    <3>1. n \in names[q] <=> \E t \in Tools : HasTool(q, t) /\ n = DefOf(q, t).name
      BY <1>4, <2>7 DEF Good, BookInv, NamesHeld, DefOf
    <3> QED BY <1>19, <1>23, <2>7, <3>1
  <2>8. NamesHeld'
    BY <2>1, <2>5, <2>6, <2>7 DEF NamesHeld
  <2> QED BY <2>4, <2>8
<1>31. Resting'
  BY <1>2, <1>4, <1>19 DEF Good, BookInv, Resting, Left, Live
<1>32. Taken'
  <2>1. \A n : n \in taken' <=> n \in taken \ gone \/ n \in new
    BY <1>1
  <2>2. \A n \in gone : \A q \in Servers : q # s => n \notin names[q]
    BY <1>2, <1>12, HeldFacts
  <2> QED BY <1>2, <1>4, <1>14, <1>19, <2>1, <2>2 DEF Good, BookInv, Taken
<1>33. BookInv'
  BY <1>29, <1>30, <1>31, <1>32 DEF BookInv
<1>34. FreshInv'
  <2> SUFFICES ASSUME NEW q \in Servers, conn[q] # None, q \notin dirty,
                      \A p \in Syncs : q \notin sync'[p].left /\ sync'[p].at # conn[q], NEW t \in Tools
               PROVE  held'[conn[q]][t].v = offered[q][t]
    BY <1>4 DEF FreshInv
  <2>1. CASE q = s
    BY <1>2, <1>21, <2>1
  <2>2. CASE q # s
    <3>1. held'[conn[q]] = held[conn[q]] /\ conn[q] # c
      BY <1>23, <2>2
    <3>2. \A p \in Syncs : q \notin sync[p].left /\ sync[p].at # conn[q]
      BY <1>5, <3>1
    <3> QED BY <3>1, <3>2 DEF Good, FreshInv
  <2> QED BY <2>1, <2>2
<1>35. \A d : d \in D <=> \E t \in T : d = [name |-> F(t), conn |-> c, tool |-> t, v |-> offered[s][t]]
  BY <1>16 DEF D, Defs, F, list
<1>36. \A q \in Syncs : q # r => \A n \in sync[q].removed : n \notin Own(s)
  <2> SUFFICES ASSUME NEW q \in Syncs, q # r, NEW n \in sync[q].removed, n \in Own(s) PROVE FALSE
    OBVIOUS
  <2>1. PICK u \in sync[q].all : n \in Own(u)
    BY DEF Good, RegInv, Removing
  <2> QED BY <1>2, <1>6, <2>1, OwnApart
<1>37. \A q \in Syncs : /\ sync[q].removed \subseteq sync'[q].removed /\ sync[q].tools \subseteq sync'[q].tools
                        /\ sync'[q].all = sync[q].all /\ sync'[q].left = sync[q].left
  BY <1>5
<1>38. Stems'
  <2> SUFFICES ASSUME NEW n \in FunctionNames, registry'[n] # None
               PROVE  (/\ Lasting(registry[n].conn) /\ n \in Own(ServerOf(registry[n].conn))
                       /\ \/ \E q \in Syncs : n \in sync[q].removed
                          \/ n \in names[ServerOf(registry[n].conn)])'
    BY DEF Stems
  <2> DEFINE u == ServerOf(registry[n].conn)
  <2>1. Lasting(registry[n].conn) /\ n \in Own(u) /\ u \in Servers
    BY <1>4 DEF Good, RegInv, Stems, Lasting, ServerOf
  <2>2. Lasting(registry[n].conn)' /\ ServerOf(registry[n].conn)' = u
    BY <1>4, <2>1 DEF Stays
  <2>3. (\E q \in Syncs : n \in sync[q].removed) \/ n \in names[u]
    BY <1>4 DEF Good, RegInv, Stems
  <2>4. (\E q \in Syncs : n \in sync'[q].removed) \/ n \in names'[u]
    BY <1>5, <1>19, <1>37, <2>1, <2>3
  <2> QED BY <1>24, <2>1, <2>2, <2>4
<1>39. Served'
  <2> SUFFICES ASSUME NEW q \in Servers, NEW t \in Tools, HasTool(q, t)'
               PROVE  \/ \E p \in Syncs : DefOf(q, t)' \in sync'[p].tools
                      \/ /\ registry[DefOf(q, t)'.name] = DefOf(q, t)'
                         /\ \A p \in Syncs : DefOf(q, t)'.name \notin sync'[p].removed
    BY <1>4 DEF Served
  <2>1. CASE q = s /\ t \in T
    <3>1. DefOf(s, t)' \in D
      BY <1>22, <1>35, <2>1
    <3> QED BY <1>5, <2>1, <3>1
  <2>2. CASE ~(q = s /\ t \in T)
    <3>1. HasTool(q, t) /\ DefOf(q, t)' = DefOf(q, t) /\ (q = s => t \notin lost)
      BY <1>22, <1>23, <2>2
    <3>2. DefOf(q, t).name \in names[q]
      BY <3>1, HeldFacts
    <3>3. DefOf(q, t).name \notin gone
      <4>1. CASE q = s
        <5>1. DefOf(s, t).name = held[c][t].name
          BY <1>2 DEF DefOf
        <5>2. ASSUME NEW u \in lost, held[c][t].name = held[c][u].name PROVE FALSE
          BY <1>3, <1>9, <1>11, <3>1, <4>1, <5>2
        <5> QED BY <1>10, <4>1, <5>1, <5>2
      <4>2. CASE q # s
        BY <1>2, <1>12, <3>2, <4>2, HeldFacts
      <4> QED BY <4>1, <4>2
    <3>4. \/ \E p \in Syncs : DefOf(q, t) \in sync[p].tools
          \/ registry[DefOf(q, t).name] = DefOf(q, t) /\ \A p \in Syncs : DefOf(q, t).name \notin sync[p].removed
      BY <3>1 DEF Good, RegInv, Served
    <3>5. \A p \in Syncs : DefOf(q, t).name \notin sync[p].removed => DefOf(q, t).name \notin sync'[p].removed
      BY <1>5, <3>3
    <3> QED BY <1>37, <3>1, <3>4, <3>5
  <2> QED BY <2>1, <2>2
<1>40. Pending'
  <2> SUFFICES ASSUME NEW p \in Syncs, NEW d \in sync'[p].tools
               PROVE  /\ \E q \in sync[p].all \ sync[p].left, t \in Tools :
                           HasTool(q, t)' /\ d = DefOf(q, t)' /\ conn[q] # sync'[p].at
                      /\ registry[d.name] = None \/ d.name \in sync'[p].removed
    BY <1>4, <1>37 DEF Pending
  <2>1. CASE d \in sync[p].tools
    <3>1. PICK q \in sync[p].all \ sync[p].left, t \in Tools :
             HasTool(q, t) /\ d = DefOf(q, t) /\ conn[q] # sync[p].at
      BY <2>1 DEF Good, RegInv, Pending
    <3>2. q \in Servers /\ q # s
      BY <1>2, <1>6, <3>1
    <3>3. HasTool(q, t)' /\ d = DefOf(q, t)'
      BY <1>23, <3>1, <3>2
    <3>4. conn[q] # sync'[p].at
      BY <1>5, <3>1 DEF HasTool
    <3>5. registry[d.name] = None \/ d.name \in sync[p].removed
      BY <2>1 DEF Good, RegInv, Pending
    <3> QED BY <1>37, <3>1, <3>3, <3>4, <3>5
  <2>2. CASE d \notin sync[p].tools
    <3>1. p = r /\ d \in D
      BY <1>5, <2>2
    <3>2. PICK t \in T : d = [name |-> F(t), conn |-> c, tool |-> t, v |-> offered[s][t]]
      BY <1>35, <3>1
    <3>3. d.name = F(t) /\ t \in Tools
      BY <1>3, <3>2
    <3>4. HasTool(s, t)' /\ d = DefOf(s, t)' /\ conn[s] # sync'[r].at
      BY <1>2, <1>5, <1>22, <3>2
    <3>5. ASSUME registry[F(t)] # None, F(t) \notin sync'[r].removed PROVE FALSE
      <4> DEFINE u == ServerOf(registry[F(t)].conn)
      <4>1. F(t) \in FunctionNames /\ F(t) \in Own(s)
        BY <1>2, <1>16, OwnNames
      <4>2. u \in Servers
        BY <3>5, <4>1 DEF Good, RegInv, Stems, Lasting, ServerOf
      <4>3. F(t) \in names[u]
        <5>1. \A q \in Syncs : F(t) \notin sync[q].removed
          BY <1>36, <1>37, <3>5, <4>1
        <5> QED BY <3>5, <4>1, <5>1 DEF Good, RegInv, Stems
      <4>4. u = s
        BY <1>16, <4>2, <4>3
      <4>5. F(t) \in taken /\ F(t) \notin seen
        BY <1>14, <1>16, <4>3, <4>4
      <4>6. F(t) \in gone
        BY <4>5
      <4> QED BY <1>5, <3>5, <4>6
    <3> QED BY <1>2, <3>1, <3>3, <3>4, <3>5
  <2> QED BY <2>1, <2>2
<1>41. Removing'
  <2>1. \A n \in gone : n \in Own(s)
    BY <1>2, <1>12, HeldFacts
  <2> QED BY <1>2, <1>5, <1>24, <2>1 DEF Good, RegInv, Removing
<1>42. RegInv'
  BY <1>38, <1>39, <1>40, <1>41 DEF RegInv
<1> QED BY <1>25, <1>26, <1>27, <1>28, <1>33, <1>34, <1>42 DEF Good

LEMMA ListsGood ==
  ASSUME Types, Types', Good, Stays, NEW r \in Syncs, Lists(r)
  PROVE  Good'
BY ListsGoodAt

-----------------------------------------------------------------------------
(* A refresh is applied: what it removes goes first, so that every name it *)
(* registers is free.                                                      *)
LEMMA AppliesGood ==
  ASSUME Types, Types', Good, Stays, NEW r \in Syncs, Applies(r)
  PROVE  Good'
<1> DEFINE reg == Without(registry, sync[r].removed)
           D == sync[r].tools
<1>1. /\ sync[r].phase = "running" /\ sync[r].left = {} /\ sync[r].at = None
      /\ Registers(reg, D)
      /\ sync' = [sync EXCEPT ![r] = IdleSync]
  BY DEF Applies, AppliesTo
<1>2. UNCHANGED <<offered, conn, open, held, statuses, names, taken, dirty, act>>
  BY DEF Applies, AppliesTo, server, books
<1>3. sync'[r] = IdleSync /\ \A q \in Syncs : q # r => sync'[q] = sync[q]
  BY <1>1 DEF Types
<1>4. /\ IdleSync.all = {} /\ IdleSync.left = {} /\ IdleSync.at = None /\ IdleSync.removed = {}
      /\ IdleSync.tools = {}
  BY DEF IdleSync
<1>5. /\ \A q \in Syncs : sync[q].all \subseteq Servers
      /\ \A q \in Syncs : q # r => \A u \in sync[q].all, s \in sync[r].all : Apart(u, s) /\ u # s
  BY DEF Good, SepInv, Apart, Types, Refreshes
<1>6. \A q \in Servers, t \in Tools : (HasTool(q, t)' <=> HasTool(q, t)) /\ DefOf(q, t)' = DefOf(q, t)
  BY <1>2 DEF HasTool, DefOf
<1>7. \A q : Own(q)' = Own(q)
  BY DEF Own, Plain, Hashed
<1>8. \A n \in FunctionNames : reg[n] = IF n \in sync[r].removed THEN None ELSE registry[n]
  BY DEF Without
<1> HIDE DEF reg
<1>9. \A d \in D : \E s \in sync[r].all, t \in Tools :
         /\ s \in Servers /\ HasTool(s, t) /\ d = DefOf(s, t) /\ d.name \in names[s]
         /\ d.name \in FunctionNames /\ d.conn = conn[s]
  <2> SUFFICES ASSUME NEW d \in D
               PROVE  \E s \in sync[r].all, t \in Tools :
         /\ s \in Servers /\ HasTool(s, t) /\ d = DefOf(s, t) /\ d.name \in names[s]
         /\ d.name \in FunctionNames /\ d.conn = conn[s]
    OBVIOUS
  <2>1. PICK s \in sync[r].all, t \in Tools : HasTool(s, t) /\ d = DefOf(s, t)
    BY DEF Good, RegInv, Pending
  <2>2. s \in Servers
    BY <1>5
  <2>3. d.conn = conn[s]
    BY <2>1 DEF DefOf
  <2> QED BY <2>1, <2>2, <2>3, HeldFacts
<1>10. \A s, q \in Servers, t, u \in Tools :
         HasTool(s, t) /\ HasTool(q, u) /\ DefOf(s, t).name = DefOf(q, u).name => s = q /\ t = u
  <2> SUFFICES ASSUME NEW s \in Servers, NEW q \in Servers, NEW t \in Tools, NEW u \in Tools,
                      HasTool(s, t), HasTool(q, u), DefOf(s, t).name = DefOf(q, u).name
               PROVE  s = q /\ t = u
    OBVIOUS
  <2>1. DefOf(s, t).name \in names[s] /\ DefOf(q, u).name \in names[q]
    BY HeldFacts
  <2>2. s = q
    BY <2>1, HeldFacts
  <2>3. DefOf(s, t).name \in {Plain(s, t), Hashed(s, t)} /\ DefOf(q, u).name \in {Plain(q, u), Hashed(q, u)}
    BY HeldFacts
  <2>4. DefOf(s, t).name.tool = t /\ DefOf(q, u).name.tool = u
    BY <2>3, ToolOf
  <2> QED BY <2>2, <2>4
<1>11. \A d, e \in D : d.name = e.name => d = e
  BY <1>9, <1>10
<1>12. \A d \in D : reg[d.name] = None
  BY <1>8, <1>9 DEF Good, RegInv, Pending
<1>13. /\ \A d \in D : d.name \in FunctionNames => registry'[d.name] = d
       /\ \A n \in FunctionNames : \/ registry'[n] \in D /\ registry'[n].name = n
                                   \/ (\A d \in D : d.name # n) /\ registry'[n] = reg[n]
  BY <1>1, <1>11, <1>12, RegistersAll
<1>14. ActInv' /\ ConnInv' /\ BookInv'
  <2>1. ActInv'
    BY <1>2 DEF Good, ActInv, Live
  <2>2. ConnInv'
    BY <1>2, ConnFrame DEF Good
  <2>3. BookInv'
    BY <1>2 DEF Good, BookInv, NamesOwn, NamesApart, HeldNames, NamesHeld, Resting, Taken,
                HasTool, Left, Live, Own, Plain, Hashed
  <2> QED BY <2>1, <2>2, <2>3
<1>15. SepInv'
  <2>1. \A q \in Syncs : sync'[q].all \subseteq sync[q].all
    BY <1>3, <1>4
  <2> QED BY <1>2, <2>1 DEF Good, SepInv, Live, Apart
<1>16. SyncInv'
  <2> SUFFICES ASSUME NEW q \in Syncs
               PROVE (/\ sync[q].phase = "idle" => sync[q] = IdleSync
                      /\ sync[q].left \subseteq sync[q].all
                      /\ sync[q].at # None => /\ ServerOf(sync[q].at) \in sync[q].all \ sync[q].left
                                              /\ conn[ServerOf(sync[q].at)] = sync[q].at)'
    BY DEF SyncInv
  <2>1. CASE q # r
    BY <1>2, <1>3, <2>1 DEF Good, SyncInv, IdleSync, ServerOf
  <2>2. CASE q = r
    BY <1>3, <1>4, <2>2 DEF IdleSync
  <2> QED BY <2>1, <2>2
<1>17. Stems'
  <2> SUFFICES ASSUME NEW n \in FunctionNames, registry'[n] # None
               PROVE  (/\ Lasting(registry[n].conn) /\ n \in Own(ServerOf(registry[n].conn))
                       /\ \/ \E q \in Syncs : n \in sync[q].removed
                          \/ n \in names[ServerOf(registry[n].conn)])'
    BY DEF Stems
  <2>1. CASE registry'[n] \in D /\ registry'[n].name = n
    <3>1. PICK s \in Servers : n \in names[s] /\ registry'[n].conn = conn[s] /\ conn[s] # None
      BY <1>9, <2>1 DEF HasTool
    <3>2. Lasting(conn[s]) /\ ServerOf(conn[s]) = s
      BY <3>1 DEF Good, ConnInv, Types
    <3>3. Lasting(registry[n].conn)' /\ ServerOf(registry[n].conn)' = s
      BY <1>2, <3>1, <3>2 DEF Lasting, ServerOf
    <3>4. n \in Own(s)
      BY <3>1, HeldFacts
    <3> QED BY <1>2, <1>7, <3>1, <3>3, <3>4
  <2>2. CASE registry'[n] = reg[n]
    <3>1. registry'[n] = registry[n] /\ n \notin sync[r].removed
      BY <1>8, <2>2
    <3>2. Lasting(registry[n].conn) /\ n \in Own(ServerOf(registry[n].conn))
          /\ \/ \E q \in Syncs : n \in sync[q].removed
             \/ n \in names[ServerOf(registry[n].conn)]
      BY <3>1 DEF Good, RegInv, Stems
    <3>3. Lasting(registry[n].conn)' /\ ServerOf(registry[n].conn)' = ServerOf(registry[n].conn)
      BY <1>2, <3>1, <3>2 DEF Lasting, ServerOf
    <3>4. (\E q \in Syncs : n \in sync[q].removed) => \E q \in Syncs : n \in sync'[q].removed
      BY <1>3, <3>1
    <3> QED BY <1>2, <1>7, <3>2, <3>3, <3>4
  <2> QED BY <1>13, <2>1, <2>2
<1>18. Served'
  <2> SUFFICES ASSUME NEW s \in Servers, NEW t \in Tools, HasTool(s, t)
               PROVE  \/ \E q \in Syncs : DefOf(s, t) \in sync'[q].tools
                      \/ /\ registry'[DefOf(s, t).name] = DefOf(s, t)
                         /\ \A q \in Syncs : DefOf(s, t).name \notin sync'[q].removed
    BY <1>6 DEF Served
  <2> DEFINE d == DefOf(s, t)
  <2>1. d.name \in FunctionNames /\ d.name \in names[s] /\ d.name \in Own(s)
    BY HeldFacts
  <2>2. CASE d \in D
    <3>1. registry'[d.name] = d
      BY <1>13, <2>1, <2>2
    <3>2. s \in sync[r].all
      BY <1>9, <1>10, <2>2
    <3>3. \A q \in Syncs : q # r => d.name \notin sync[q].removed
      <4> SUFFICES ASSUME NEW q \in Syncs, q # r, d.name \in sync[q].removed PROVE FALSE
        OBVIOUS
      <4>1. PICK u \in sync[q].all : d.name \in Own(u)
        BY DEF Good, RegInv, Removing
      <4> QED BY <1>5, <2>1, <3>2, <4>1, OwnApart
    <3> QED BY <1>3, <1>4, <3>1, <3>3
  <2>3. CASE \E q \in Syncs : q # r /\ d \in sync[q].tools
    BY <1>3, <2>3
  <2>4. CASE registry[d.name] = d /\ \A q \in Syncs : d.name \notin sync[q].removed
    <3>1. registry'[d.name] = d
      <4>1. CASE registry'[d.name] \in D /\ registry'[d.name].name = d.name
        <5>1. PICK q \in Servers, u \in Tools : HasTool(q, u) /\ registry'[d.name] = DefOf(q, u)
          BY <1>9, <4>1
        <5> QED BY <1>10, <4>1, <5>1
      <4>2. CASE registry'[d.name] = reg[d.name]
        BY <1>8, <2>1, <2>4, <4>2
      <4> QED BY <1>13, <2>1, <4>1, <4>2
    <3> QED BY <1>3, <1>4, <2>4, <3>1
  <2>5. \/ \E q \in Syncs : d \in sync[q].tools
        \/ registry[d.name] = d /\ \A q \in Syncs : d.name \notin sync[q].removed
    BY DEF Good, RegInv, Served
  <2> QED BY <2>2, <2>3, <2>4, <2>5
<1>19. Pending'
  <2> SUFFICES ASSUME NEW q \in Syncs, NEW d \in sync'[q].tools
               PROVE  /\ \E s \in sync'[q].all \ sync'[q].left, t \in Tools :
                           HasTool(s, t)' /\ d = DefOf(s, t)' /\ conn[s] # sync'[q].at
                      /\ registry'[d.name] = None \/ d.name \in sync'[q].removed
    BY <1>2 DEF Pending
  <2>1. q # r /\ sync'[q] = sync[q]
    BY <1>3, <1>4
  <2>2. PICK s \in sync[q].all \ sync[q].left, t \in Tools :
           HasTool(s, t) /\ d = DefOf(s, t) /\ conn[s] # sync[q].at
    BY <2>1 DEF Good, RegInv, Pending
  <2>3. s \in Servers /\ HasTool(s, t)' /\ d = DefOf(s, t)'
    BY <1>5, <1>6, <2>2
  <2>4. d.name \in FunctionNames
    BY <2>2, <2>3, HeldFacts
  <2>5. registry[d.name] = None \/ d.name \in sync[q].removed
    BY <2>1 DEF Good, RegInv, Pending
  <2>6. ASSUME registry'[d.name] # None, d.name \notin sync[q].removed PROVE FALSE
    <3>1. CASE registry'[d.name] \in D /\ registry'[d.name].name = d.name
      <4>1. PICK u \in sync[r].all, x \in Tools :
              u \in Servers /\ HasTool(u, x) /\ registry'[d.name] = DefOf(u, x)
        BY <1>9, <3>1
      <4>2. u = s
        BY <1>10, <2>2, <2>3, <3>1, <4>1
      <4> QED BY <1>5, <2>1, <2>2, <4>1, <4>2
    <3>2. CASE registry'[d.name] = reg[d.name]
      BY <1>8, <2>4, <2>5, <2>6, <3>2
    <3> QED BY <1>13, <2>4, <3>1, <3>2
  <2> QED BY <2>1, <2>2, <2>3, <2>6
<1>20. Removing'
  BY <1>3, <1>4, <1>7 DEF Good, RegInv, Removing
<1>21. RegInv'
  BY <1>17, <1>18, <1>19, <1>20 DEF RegInv
<1>22. FreshInv'
  <2> SUFFICES ASSUME NEW q \in Servers, conn[q] # None, q \notin dirty,
                      \A p \in Syncs : q \notin sync'[p].left /\ sync'[p].at # conn[q], NEW t \in Tools
               PROVE  held[conn[q]][t].v = offered[q][t]
    BY <1>2 DEF FreshInv
  <2>1. \A p \in Syncs : q \notin sync[p].left /\ sync[p].at # conn[q]
    BY <1>1, <1>3
  <2> QED BY <2>1 DEF Good, FreshInv
<1> QED BY <1>14, <1>15, <1>16, <1>21, <1>22 DEF Good

-----------------------------------------------------------------------------
(* Every step keeps the invariant; two activities that meet stay recorded. *)
LEMMA McpStep ==
  ASSUME McpInv, [McpNext]_mcpVars
  PROVE  McpInv'
<1>1. Types /\ Types' /\ Stays
  BY TypesStep, LastingStays DEF McpInv, Stays
<1>2. SUFFICES ASSUME ~crossed' PROVE Good'
  BY <1>1 DEF McpInv
<1>3. ~crossed
  <2>1. ASSUME NEW S, Enters(S) PROVE ~crossed
    BY <1>2, <2>1, <1>1 DEF Enters, Types
  <2> QED BY <1>2, <2>1 DEF McpNext, mcpVars, Change, Add, AddDisabled, Authenticate, Mutate, Closed,
          Connected, ConnectedThen, ConnectFails, StartSync, NextServer, Lists, ListFails, ListFailsThen,
          Applies, AppliesTo
<1>4. Good
  BY <1>3 DEF McpInv
<1>5. CASE UNCHANGED mcpVars
  <2>1. UNCHANGED <<offered, conn, open, held, statuses, names, taken, dirty, registry, act, sync>>
    BY <1>5 DEF mcpVars, server, books
  <2>2. RegInv' /\ ConnInv' /\ SyncInv'
    BY <1>1, <1>4, <2>1, RegFrame, ConnFrame, SyncFrame DEF Good
  <2>3. ActInv' /\ SepInv' /\ FreshInv'
    BY <1>4, <2>1 DEF Good, ActInv, SepInv, FreshInv, Live, Apart
  <2>4. BookInv'
    BY <1>4, <2>1 DEF Good, BookInv, NamesOwn, NamesApart, HeldNames, NamesHeld, Resting, Taken,
                      HasTool, Left, Live, Own, Plain, Hashed
  <2> QED BY <2>2, <2>3, <2>4 DEF Good
<1>6. ASSUME NEW s \in Servers, NEW t \in Tools, Change(s, t) PROVE Good'
  BY <1>1, <1>4, <1>6, ChangeGood
<1>7. ASSUME NEW a \in Actions, NEW s \in Servers,
             Add(a, s) \/ AddDisabled(a, s) \/ Authenticate(a, s)
               \/ Mutate(a, s, "disable") \/ Mutate(a, s, "remove")
      PROVE  Good'
  BY <1>1, <1>2, <1>4, <1>7, AddGood, AddDisabledGood, AuthenticateGood, MutateGood
<1>8. ASSUME NEW a \in Actions, Closed(a) \/ Connected(a) \/ ConnectFails(a) PROVE Good'
  BY <1>1, <1>4, <1>8, ClosedGood, ConnectedGood, ConnectFailsGood
<1>9. ASSUME NEW r \in Syncs, StartSync(r) \/ NextServer(r) \/ Lists(r) \/ ListFails(r) \/ Applies(r)
      PROVE  Good'
  BY <1>1, <1>2, <1>4, <1>9, StartSyncGood, NextServerGood, ListsGood, ListFailsGood, AppliesGood
<1> QED BY <1>5, <1>6, <1>7, <1>8, <1>9 DEF McpNext

(* The invariant of the MCP clients, for any number of servers, tools,     *)
(* server actions and refreshes.                                           *)
THEOREM McpInvariant == McpSpec => []McpInv
<1> QED BY InitHolds, McpStep, PTL DEF McpSpec

(* Every variable keeps its type: what connections hold and servers list   *)
(* are function names, whatever the activities do to each other.           *)
THEOREM McpTypes == McpSpec => []McpTypeOK
<1>1. McpInv => McpTypeOK
  BY DEF McpInv, Types
<1> QED BY <1>1, McpInvariant, PTL

(* What is registered of a quiet server is what its connection holds.      *)
LEMMA QuietServer ==
  ASSUME Types, Good, NEW s \in Servers, Quiet(s)
  PROVE  /\ Left(s) /\ \A r \in Syncs : s \notin sync[r].all
         /\ Callable(s) \subseteq names[s]
         /\ \A t \in Tools : HasTool(s, t) =>
              registry[DefOf(s, t).name] = DefOf(s, t) /\ DefOf(s, t).name \in Callable(s)
         /\ \A n \in Callable(s) : \E t \in Tools :
              HasTool(s, t) /\ n = DefOf(s, t).name /\ registry[n] = DefOf(s, t)
<1>1. /\ \A a \in Actions : Live(a) => Apart(act[a].server, s)
      /\ \A r \in Syncs : \A q \in sync[r].all : Apart(q, s) /\ q \in Servers
  <2>1. \A q \in Servers : Apart(q, s) \/ q \notin Busy
    BY DEF Quiet, Related, Apart
  <2>2. \A a \in Actions : Live(a) => act[a].server \in Busy /\ act[a].server \in Servers
    BY DEF Busy, Live, Types
  <2>3. \A r \in Syncs : \A q \in sync[r].all : q \in Busy /\ q \in Servers
    BY DEF Busy, Types, Refreshes
  <2> QED BY <2>1, <2>2, <2>3
<1>2. Left(s) /\ \A r \in Syncs : s \notin sync[r].all
  BY <1>1 DEF Left, Apart
<1>3. \A r \in Syncs : \A n \in sync[r].removed : n \notin Own(s)
  <2> SUFFICES ASSUME NEW r \in Syncs, NEW n \in sync[r].removed, n \in Own(s) PROVE FALSE
    OBVIOUS
  <2>1. PICK q \in sync[r].all : n \in Own(q)
    BY DEF Good, RegInv, Removing
  <2> QED BY <1>1, <2>1, OwnApart
<1>4. Callable(s) \subseteq names[s]
  <2> SUFFICES ASSUME NEW n \in Callable(s) PROVE n \in names[s]
    OBVIOUS
  <2>1. n \in FunctionNames /\ registry[n] # None /\ ServerOf(registry[n].conn) = s
    BY DEF Callable
  <2> QED BY <1>3, <2>1 DEF Good, RegInv, Stems
<1>5. \A t \in Tools : HasTool(s, t) =>
        registry[DefOf(s, t).name] = DefOf(s, t) /\ DefOf(s, t).name \in Callable(s)
  <2> SUFFICES ASSUME NEW t \in Tools, HasTool(s, t)
               PROVE  registry[DefOf(s, t).name] = DefOf(s, t) /\ DefOf(s, t).name \in Callable(s)
    OBVIOUS
  <2> DEFINE d == DefOf(s, t)
  <2>1. d.conn = conn[s] /\ conn[s] # None /\ ServerOf(conn[s]) = s
    BY DEF DefOf, HasTool, Good, ConnInv
  <2>2. d.name \in FunctionNames
    BY HeldFacts
  <2>3. \A r \in Syncs : d \notin sync[r].tools
    <3> SUFFICES ASSUME NEW r \in Syncs, d \in sync[r].tools PROVE FALSE
      OBVIOUS
    <3>1. PICK q \in sync[r].all, u \in Tools : HasTool(q, u) /\ d = DefOf(q, u)
      BY DEF Good, RegInv, Pending
    <3>2. q \in Servers /\ q # s
      BY <1>1, <1>2, <3>1
    <3>3. d.name \in names[q] /\ d.name \in names[s]
      BY <3>1, <3>2, HeldFacts
    <3> QED BY <3>2, <3>3, HeldFacts
  <2>4. registry[d.name] = d
    BY <2>3 DEF Good, RegInv, Served
  <2>5. d # None
    <3>1. d.name \in FunctionNames /\ registry[d.name] \in Definitions \cup {None}
      BY <2>2 DEF Types
    <3>2. d \in Definitions
      <4>1. held[conn[s]][t] \in [v : Versions, name : FunctionNames \cup {None}] /\ conn[s] \in Conns
        BY <2>1 DEF Types, McpTypeOK
      <4> QED BY <2>2, <4>1 DEF DefOf, Definitions
    <3> QED BY <3>2, NoneOutside
  <2> QED BY <2>1, <2>2, <2>4, <2>5 DEF Callable
<1>6. \A n \in Callable(s) : \E t \in Tools :
        HasTool(s, t) /\ n = DefOf(s, t).name /\ registry[n] = DefOf(s, t)
  <2> SUFFICES ASSUME NEW n \in Callable(s)
               PROVE  \E t \in Tools : HasTool(s, t) /\ n = DefOf(s, t).name /\ registry[n] = DefOf(s, t)
    OBVIOUS
  <2>1. n \in names[s]
    BY <1>4
  <2>2. conn[s] # None
    BY <1>2, <2>1 DEF Good, BookInv, Resting
  <2>3. PICK t \in Tools : HasTool(s, t) /\ n = held[conn[s]][t].name
    BY <2>1, <2>2 DEF Good, BookInv, NamesHeld
  <2>4. n = DefOf(s, t).name
    BY <2>3 DEF DefOf
  <2> QED BY <1>5, <2>3, <2>4
<1> QED BY <1>2, <1>4, <1>5, <1>6

(* For any number of activities: at a server that none is at, nor at a     *)
(* namesake, the model can call what it lists, each tool once, in its      *)
(* current version and over its current connection, unless the list has    *)
(* changed since and is marked.                                            *)
THEOREM Followed == McpSpec => []RegistryFollows
<1>1. McpInv => RegistryFollows
  <2> SUFFICES ASSUME McpInv, NEW s \in Servers, ~crossed, Quiet(s)
               PROVE  /\ \A m, n \in Callable(s) : registry[m].tool = registry[n].tool => m = n
                      /\ \A d \in Calls(s) : d.conn = conn[s]
                      /\ s \notin dirty => Calls(s) = Should(s)
                      /\ (conn[s] # None) <=> (statuses[s] = "connected")
    BY DEF RegistryFollows
  <2>1. Types /\ Good
    BY DEF McpInv
  <2>2. \A n \in Callable(s) : \E t \in Tools :
           /\ HasTool(s, t) /\ n = DefOf(s, t).name
           /\ registry[n].tool = t /\ registry[n].conn = conn[s] /\ registry[n].v = held[conn[s]][t].v
    <3> SUFFICES ASSUME NEW n \in Callable(s)
                 PROVE  \E t \in Tools :
                          /\ HasTool(s, t) /\ n = DefOf(s, t).name
                          /\ registry[n].tool = t /\ registry[n].conn = conn[s]
                          /\ registry[n].v = held[conn[s]][t].v
      OBVIOUS
    <3>1. PICK t \in Tools : HasTool(s, t) /\ n = DefOf(s, t).name /\ registry[n] = DefOf(s, t)
      BY <2>1, QuietServer
    <3>2. DefOf(s, t).tool = t /\ DefOf(s, t).conn = conn[s] /\ DefOf(s, t).v = held[conn[s]][t].v
      BY DEF DefOf
    <3> QED BY <3>1, <3>2
  <2>3. \A m, n \in Callable(s) : registry[m].tool = registry[n].tool => m = n
    BY <2>2
  <2>4. \A d \in Calls(s) : d.conn = conn[s]
    BY <2>2 DEF Calls
  <2>5. (conn[s] # None) <=> (statuses[s] = "connected")
    BY <2>1, QuietServer DEF Good, BookInv, Resting
  <2>6. ASSUME s \notin dirty PROVE Calls(s) = Should(s)
    <3>1. CASE conn[s] = None
      BY <2>2, <3>1 DEF HasTool, Calls, Should
    <3>2. CASE conn[s] # None
      <4>1. \A r \in Syncs : s \notin sync[r].left /\ sync[r].at # conn[s]
        <5>1. \A r \in Syncs : s \notin sync[r].all
          BY <2>1, QuietServer
        <5>2. ServerOf(conn[s]) = s
          BY <2>1, <3>2 DEF Good, ConnInv
        <5> QED BY <2>1, <3>2, <5>1, <5>2 DEF Good, SyncInv
      <4>2. \A t \in Tools : held[conn[s]][t].v = offered[s][t]
        BY <2>1, <2>6, <3>2, <4>1 DEF Good, FreshInv
      <4>3. \A t \in Tools : HasTool(s, t) <=> t \in IsListed(offered[s])
        BY <3>2, <4>2 DEF HasTool, IsListed
      <4>4. \A d \in Calls(s) : \E t \in IsListed(offered[s]) :
               d = [tool |-> t, conn |-> conn[s], v |-> offered[s][t]]
        BY <2>2, <4>2, <4>3 DEF Calls
      <4>5. \A t \in IsListed(offered[s]) : [tool |-> t, conn |-> conn[s], v |-> offered[s][t]] \in Calls(s)
        <5> SUFFICES ASSUME NEW t \in IsListed(offered[s])
                     PROVE  [tool |-> t, conn |-> conn[s], v |-> offered[s][t]] \in Calls(s)
          OBVIOUS
        <5>1. t \in Tools /\ HasTool(s, t)
          BY <4>3 DEF IsListed
        <5> DEFINE n == DefOf(s, t).name
        <5>2. n \in Callable(s) /\ registry[n] = DefOf(s, t)
          BY <2>1, <5>1, QuietServer
        <5>3. registry[n].tool = t /\ registry[n].conn = conn[s] /\ registry[n].v = offered[s][t]
          BY <4>2, <5>1, <5>2 DEF DefOf
        <5> QED BY <5>2, <5>3 DEF Calls
      <4> QED BY <3>2, <4>4, <4>5 DEF Should
    <3> QED BY <3>1, <3>2
  <2> QED BY <2>3, <2>4, <2>5, <2>6
<1> QED BY <1>1, McpInvariant, PTL

(* For any number of connects, closes and refreshes: when all are done,    *)
(* the names taken are those of the registry, and every server's status    *)
(* tells its own.                                                          *)
THEOREM NamesKept == McpSpec => []NamesInUse
<1>1. McpInv => NamesInUse
  <2> SUFFICES ASSUME McpInv, ~crossed, Busy = {}
               PROVE  /\ taken = {n \in FunctionNames : registry[n] # None}
                      /\ \A s \in Servers : names[s] = Callable(s)
    BY DEF NamesInUse
  <2>1. Types /\ Good
    BY DEF McpInv
  <2>2. \A s \in Servers : Quiet(s)
    BY DEF Quiet
  <2>3. \A s \in Servers : names[s] = Callable(s)
    <3> SUFFICES ASSUME NEW s \in Servers, NEW n \in names[s] PROVE n \in Callable(s)
      BY <2>1, <2>2, QuietServer
    <3>1. Left(s)
      BY <2>1, <2>2, QuietServer
    <3>2. conn[s] # None
      BY <2>1, <3>1 DEF Good, BookInv, Resting
    <3>3. PICK t \in Tools : HasTool(s, t) /\ n = held[conn[s]][t].name
      BY <2>1, <3>2 DEF Good, BookInv, NamesHeld
    <3>4. n = DefOf(s, t).name
      BY <3>3 DEF DefOf
    <3> QED BY <2>1, <2>2, <3>3, <3>4, QuietServer
  <2>4. \A n \in taken : n \in FunctionNames /\ registry[n] # None
    BY <2>1, <2>3 DEF Good, BookInv, Taken, Callable
  <2>5. ASSUME NEW n \in FunctionNames, registry[n] # None PROVE n \in taken
    <3> DEFINE s == ServerOf(registry[n].conn)
    <3>1. s \in Servers
      BY <2>1, <2>5 DEF Good, RegInv, Stems, Lasting, ServerOf
    <3>2. n \in names[s]
      BY <2>3, <2>5, <3>1 DEF Callable
    <3>3. Left(s)
      BY <2>1, <2>2, <3>1, QuietServer
    <3>4. conn[s] # None
      BY <2>1, <3>1, <3>2, <3>3 DEF Good, BookInv, Resting
    <3> QED BY <2>1, <3>1, <3>2, <3>4 DEF Good, BookInv, Taken
  <2> QED BY <2>3, <2>4, <2>5
<1> QED BY <1>1, McpInvariant, PTL
=============================================================================
