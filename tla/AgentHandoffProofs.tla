------------------------- MODULE AgentHandoffProofs -------------------------
(***************************************************************************)
(* What AgentHandoff guarantees for any number of runs, callers and        *)
(* permits: who owns a run, what becomes of its outcome, whose prompt is   *)
(* on screen, and what a run in the background is granted or loses.        *)
(*                                                                         *)
(* A run is seen by five parties: its own stage, the call that waits for   *)
(* it, the supervisor, the semaphore and the prompt line.  Each has a      *)
(* part of the inductive invariant that says what the others know of it.   *)
(***************************************************************************)
EXTENDS AgentHandoff, FiniteSetTheorems, TLAPS

Background == {"launched", "backgrounded"}
AtPrompt   == Asking \ {"queued"}
Entries    == [who : Callers, released : BOOLEAN]

(* A run and its call: a call is open, or in the background, as long as its *)
(* run lives; a run asks only while it runs; a nested run that is waited    *)
(* for keeps the run above it running; and when the turn is over nobody     *)
(* waits any more.                                                         *)
RunInv ==
  /\ \A r \in Runs :
       /\ call[r] = "none" <=> stage[r] = "idle"
       /\ stage[r] = "waiting" => r \in Top /\ call[r] = "open"
       /\ stage[r] \in Live => call[r] \in {"open"} \cup Background
       /\ perm[r] # "none" => stage[r] \in {"running", "summarizing", "ended"}
       /\ perm[r] \in Asking => stage[r] = "running"
       /\ call[r] = "launched" => r \in Launched
       /\ call[r] = "backgrounded" <=> r \in handedOff
       /\ r \in Launched => call[r] \in {"none", "launched"}
       /\ r \in Nested /\ call[r] = "open" => stage[Parent[r]] = "running"
  /\ handedOff \subseteq expired
  /\ turn = "over" => /\ \A r \in Spawned : call[r] # "open"
                      /\ \A c \in Main : perm[c] \notin Asking

(* The supervisor: it tracks and reports runs in the background only, each  *)
(* of them until it has ended, and then reports it or has stopped it.      *)
TrackInv ==
  \A r \in Spawned :
    /\ r \in registry \cup reported => call[r] \in Background
    /\ r \in registry => r \notin reported
    /\ call[r] \in Background /\ r \notin registry =>
         stage[r] = "ended" /\ (r \in reported <=> r \notin stopped)

(* The semaphore: who waits is in its queue, once, no permit is free then,  *)
(* and every other one is held by an open call.                            *)
Holders == {t \in Top : call[t] = "open" /\ stage[t] # "waiting"}
PermitInv ==
  LET w == permits.waiting IN
  /\ \A i, j \in DOMAIN w : w[i] = w[j] => i = j
  /\ \A t \in Top : stage[t] = "waiting" <=> \E i \in DOMAIN w : w[i] = t
  /\ w # <<>> => permits.free = 0
  /\ IsFiniteSet(Holders) /\ permits.free + Cardinality(Holders) = Permits

(* The prompt line: whoever asks stands in it once, and for whoever has     *)
(* come to the prompt all before it have left.                             *)
LineOK(l, p) ==
  /\ \A i, j \in DOMAIN l : l[i].who = l[j].who => i = j
  /\ \A c \in Callers : p[c] \in Asking =>
       \E i \in DOMAIN l : l[i].who = c /\ ~l[i].released
  /\ \A i \in DOMAIN l :
       /\ p[l[i].who] # "none"
       /\ ~l[i].released => p[l[i].who] \in Asking
       /\ p[l[i].who] \in AtPrompt => \A j \in 1..(i - 1) : l[j].released
LineInv == LineOK(line, perm)

PromptInv ==
  \A c \in Callers : perm[c] = "prompting" =>
    ~SignalAborted(c) /\ (c \in Runs => ~InBackground(c))

IInv == TypeOK /\ RunInv /\ TrackInv /\ PermitInv /\ LineInv /\ PromptInv

USE HandoffAssumption

----------------------------------------------------------------------------
(* The prompt line.                                                        *)

LEMMA EntryReleased ==
  ASSUME NEW e \in Entries
  PROVE  /\ [e EXCEPT !.released = TRUE] \in Entries
         /\ [e EXCEPT !.released = TRUE].who = e.who /\ e.who \in Callers
         /\ [e EXCEPT !.released = TRUE].released = TRUE /\ e.released \in BOOLEAN
BY DEF Entries

LEMMA TrimDropsReleased ==
  ASSUME NEW l \in Seq(Entries)
  PROVE  \E k \in 0..Len(l) : /\ Trim(l) = SubSeq(l, k + 1, Len(l))
                              /\ \A i \in 1..k : l[i].released
<1> DEFINE n == Len(l)
           kept == {i \in DOMAIN l : \E j \in 1..i : ~l[j].released}
           k == n - Cardinality(kept)
<1>1. n \in Nat /\ DOMAIN l = 1..n
  OBVIOUS
<1>2. IsFiniteSet(1..n) /\ Cardinality(1..n) = n
  <2>1. 1 \in Int /\ n \in Int
    BY <1>1
  <2>2. IsFiniteSet(1..n) /\ Cardinality(1..n) = IF 1 > n THEN 0 ELSE n - 1 + 1
    BY ONLY <2>1, FS_Interval
  <2> QED
    BY <1>1, <2>2
<1>3. IsFiniteSet(kept) /\ Cardinality(kept) <= n /\ Cardinality(kept) \in Nat
  BY <1>1, <1>2, FS_Subset, FS_CardinalityType
<1>4. ASSUME NEW i \in 1..k, ~l[i].released PROVE FALSE
  <2>1. i \in 1..n /\ i..n \subseteq kept
    BY <1>1, <1>3, <1>4
  <2>2. Cardinality(i..n) = n - i + 1
    BY <1>1, <2>1, FS_Interval
  <2>3. Cardinality(i..n) <= Cardinality(kept)
    BY <1>3, <2>1, FS_Subset
  <2> QED
    BY <1>1, <1>3, <2>1, <2>2, <2>3
<1>5. k \in 0..n /\ Trim(l) = SubSeq(l, k + 1, n)
  BY <1>1, <1>3 DEF Trim
<1> QED
  BY <1>4, <1>5

(* What a prompt does as it closes: it is still asking, at its prompt.     *)
LEMMA ClosedStillAsks ==
  ASSUME perm \in [Callers -> Asking \cup {"none", "granted", "refused"}], NEW S,
         perm' = ClosePrompts(S)
  PROVE  /\ perm' \in [Callers -> Asking \cup {"none", "granted", "refused"}]
         /\ \A c \in Callers :
              /\ perm'[c] = "none" <=> perm[c] = "none"
              /\ perm'[c] \in Asking <=> perm[c] \in Asking
              /\ perm'[c] \in AtPrompt <=> perm[c] \in AtPrompt
              /\ perm'[c] = "granted" <=> perm[c] = "granted"
              /\ perm'[c] = "prompting" => perm[c] = "prompting" /\ c \notin S
BY DEF ClosePrompts, Asking, AtPrompt

(* Who leaves the line takes nobody else out of it, and nobody ahead.      *)
LEMMA LeavesLine ==
  ASSUME line \in Seq(Entries), NEW p \in [Callers -> Asking \cup {"none", "granted", "refused"}],
         LineOK(line, p), NEW c \in Callers, p[c] \in Asking, LeaveLine(c),
         NEW q, q = [p EXCEPT ![c] = "granted"] \/ q = [p EXCEPT ![c] = "refused"]
  PROVE  line' \in Seq(Entries) /\ LineOK(line', q)
<1> DEFINE i == Place(c)
           l == [line EXCEPT ![i].released = TRUE]
<1>1. i \in DOMAIN line /\ line[i].who = c
  BY DEF LineOK, Place
<1>2. /\ l \in Seq(Entries) /\ Len(l) = Len(line) /\ Len(line) \in Nat
      /\ DOMAIN l = 1..Len(line) /\ DOMAIN line = 1..Len(line)
      /\ \A j \in DOMAIN line : /\ l[j].who = line[j].who /\ l[j].who \in Callers
                                /\ l[j].released <=> (j = i \/ line[j].released)
  <2>1. DOMAIN line = 1..Len(line) /\ Len(line) \in Nat
        /\ \A j \in DOMAIN line : line[j] \in Entries
    OBVIOUS
  <2>2. \A j \in DOMAIN line : l[j] = IF j = i THEN [line[j] EXCEPT !.released = TRUE] ELSE line[j]
    BY <1>1
  <2>3. ASSUME NEW j \in DOMAIN line
        PROVE  /\ l[j] \in Entries /\ l[j].who = line[j].who /\ l[j].who \in Callers
               /\ l[j].released <=> (j = i \/ line[j].released)
    BY <2>1, <2>2, EntryReleased
  <2>4. DOMAIN l = DOMAIN line
    OBVIOUS
  <2>5. l = [j \in 1..Len(line) |-> l[j]]
    BY <2>1, <2>4
  <2>6. l \in [1..Len(line) -> Entries]
    BY <2>1, <2>3, <2>5
  <2> QED
    BY <2>1, <2>3, <2>4, <2>6
<1>3. PICK k \in 0..Len(l) : /\ line' = SubSeq(l, k + 1, Len(l))
                             /\ \A j \in 1..k : l[j].released
  BY <1>2, TrimDropsReleased DEF LeaveLine
<1> HIDE DEF i, l
<1>4. /\ line' \in Seq(Entries) /\ DOMAIN line' = 1..(Len(line) - k)
      /\ \A j \in DOMAIN line' : j + k \in DOMAIN line /\ line'[j] = l[j + k]
  BY <1>2, <1>3
<1>5. \A j \in DOMAIN line : ~l[j].released => j > k /\ j - k \in DOMAIN line' /\ line'[j - k] = l[j]
  <2> SUFFICES ASSUME NEW j \in DOMAIN line, ~l[j].released
               PROVE  j > k /\ j - k \in DOMAIN line' /\ line'[j - k] = l[j]
    OBVIOUS
  <2>1. j > k /\ j - k \in 1..(Len(line) - k) /\ (j - k) + k = j
    BY <1>2, <1>3
  <2> QED
    BY <1>4, <2>1
<1>6. /\ \A d \in Callers : d # c => q[d] = p[d]
      /\ q[c] \in {"granted", "refused"}
  OBVIOUS
<1>7. \A j \in DOMAIN line : line[j].who = c => j = i
  BY <1>1 DEF LineOK
<1>8. ASSUME NEW x \in DOMAIN line', NEW y \in DOMAIN line', line'[x].who = line'[y].who
      PROVE  x = y
  <2>1. x + k = y + k
    BY <1>2, <1>4, <1>8 DEF LineOK
  <2> QED
    BY <1>3, <1>4, <2>1
<1>9. ASSUME NEW d \in Callers, q[d] \in Asking
      PROVE  \E x \in DOMAIN line' : line'[x].who = d /\ ~line'[x].released
  <2>1. d # c /\ p[d] \in Asking
    BY <1>6, <1>9 DEF Asking
  <2>2. PICK j \in DOMAIN line : line[j].who = d /\ ~line[j].released
    BY <2>1 DEF LineOK
  <2>3. ~l[j].released /\ l[j].who = d
    BY <1>1, <1>2, <2>1, <2>2
  <2> QED
    BY <1>5, <2>3
<1>10. ASSUME NEW x \in DOMAIN line'
       PROVE  /\ q[line'[x].who] # "none"
              /\ ~line'[x].released => q[line'[x].who] \in Asking
              /\ q[line'[x].who] \in AtPrompt => \A y \in 1..(x - 1) : line'[y].released
  <2> DEFINE j == x + k
             d == line[j].who
  <2>1. j \in DOMAIN line /\ line'[x] = l[j] /\ line'[x].who = d /\ d \in Callers
    BY <1>2, <1>4
  <2>2. CASE d = c
    BY <1>2, <1>6, <1>7, <2>1, <2>2 DEF AtPrompt, Asking
  <2>3. CASE d # c
    <3>1. q[d] = p[d] /\ j # i
      BY <1>1, <1>6, <2>1, <2>3
    <3>2. p[d] # "none" /\ (~line[j].released => p[d] \in Asking)
      BY <2>1 DEF LineOK
    <3>3. ASSUME p[d] \in AtPrompt, NEW y \in 1..(x - 1) PROVE line'[y].released
      <4>1. \A z \in 1..(j - 1) : line[z].released
        BY <2>1, <3>3 DEF LineOK
      <4>2. y + k \in 1..(j - 1) /\ y \in DOMAIN line' /\ y + k \in DOMAIN line
        BY <1>2, <1>3, <1>4, <3>3, SMTT(30)
      <4> QED
        BY <1>2, <1>4, <4>1, <4>2
    <3> QED
      BY <1>2, <2>1, <3>1, <3>2, <3>3
  <2> QED
    BY <2>2, <2>3
<1> QED
  BY <1>4, <1>8, <1>9, <1>10 DEF LineOK

----------------------------------------------------------------------------
(* The semaphore.                                                          *)

LEMMA PermitGoesOn ==
  ASSUME TypeOK, RunInv, PermitInv, NEW t \in Top, call[t] = "open", stage[t] # "waiting",
         NEW x \in {"report", "backgrounded"}, call' = [call EXCEPT ![t] = x], PermitPassed
  PROVE  /\ PermitInv' /\ permits' \in [free : 0..Permits, waiting : Seq(Top)]
         /\ stage' \in [Runs -> Live \cup {"idle", "waiting", "ended"}]
         /\ \A r \in Runs : \/ stage'[r] = stage[r]
                           \/ /\ r \in Top /\ r # t /\ call[r] = "open"
                              /\ stage[r] = "waiting" /\ stage'[r] = "preflight"
<1> DEFINE w == permits.waiting
           free == permits.free
<1>1. /\ w \in Seq(Top) /\ free \in 0..Permits /\ Permits \in Nat /\ free \in Nat
      /\ permits = [free |-> free, waiting |-> w]
      /\ Top \subseteq Runs /\ t \in Holders /\ Holders \subseteq Top
  BY DEF TypeOK, Runs, Spawned, Holders
<1>2. IsFiniteSet(Holders) /\ free + Cardinality(Holders) = Permits
  BY DEF PermitInv
<1>3. /\ IsFiniteSet(Holders \ {t})
      /\ Cardinality(Holders) \in Nat /\ Cardinality(Holders \ {t}) \in Nat
      /\ Cardinality(Holders \ {t}) = Cardinality(Holders) - 1
  BY <1>1, <1>2, FS_RemoveElement, FS_CardinalityType
<1>4. CASE w = <<>>
  <2>1. permits' = [free |-> free + 1, waiting |-> <<>>] /\ stage' = [r \in Runs |-> stage[r]]
    BY <1>1, <1>4 DEF PermitPassed, Release, NextHolder
  <2>2. \A r \in Runs : stage'[r] = stage[r]
    BY <2>1
  <2>3. Holders' = Holders \ {t}
    BY <1>1, <2>2 DEF Holders, TypeOK
  <2>4. free + 1 \in 0..Permits /\ free + 1 + Cardinality(Holders') = Permits
    <3> HIDE DEF free
    <3> QED
      BY <1>1, <1>2, <1>3, <2>3
  <2>5. stage' \in [Runs -> Live \cup {"idle", "waiting", "ended"}]
    BY <2>1 DEF TypeOK
  <2> QED
    BY <1>1, <1>3, <1>4, <2>1, <2>2, <2>3, <2>4, <2>5 DEF PermitInv
<1>5. CASE w # <<>>
  <2> DEFINE h == w[1]
  <2>1. /\ Head(w) = h /\ h \in Top /\ Tail(w) \in Seq(Top) /\ Len(w) \in Nat \ {0}
        /\ DOMAIN w = 1..Len(w) /\ DOMAIN Tail(w) = 1..(Len(w) - 1)
        /\ \A i \in 1..(Len(w) - 1) : Tail(w)[i] = w[i + 1]
    BY <1>1, <1>5
  <2>2. /\ permits' = [free |-> free, waiting |-> Tail(w)]
        /\ stage' = [r \in Runs |-> IF r = h THEN "preflight" ELSE stage[r]]
    BY <1>1, <1>5, <2>1 DEF PermitPassed, Release, NextHolder
  <2> HIDE DEF w, free
  <2>3. stage[h] = "waiting" /\ call[h] = "open" /\ h # t /\ h \notin Holders
    <3>1. 1 \in DOMAIN permits.waiting /\ permits.waiting[1] = h /\ h \in Top
      BY <2>1 DEF w
    <3> QED
      BY <1>1, <3>1 DEF PermitInv, RunInv, Holders
  <2>4. Holders' = (Holders \ {t}) \cup {h}
    BY <1>1, <2>2, <2>1, <2>3 DEF Holders, TypeOK
  <2>5. IsFiniteSet(Holders') /\ Cardinality(Holders') = Cardinality(Holders)
    <3>1. h \notin Holders \ {t}
      BY <2>3
    <3>2. /\ IsFiniteSet((Holders \ {t}) \cup {h})
          /\ Cardinality((Holders \ {t}) \cup {h}) = Cardinality(Holders \ {t}) + 1
      BY ONLY <1>3, <3>1, FS_AddElement
    <3> QED
      BY <1>3, <2>4, <3>2
  <2>6. \A i, j \in DOMAIN Tail(w) : Tail(w)[i] = Tail(w)[j] => i = j
    <3> SUFFICES ASSUME NEW i \in 1..(Len(w) - 1), NEW j \in 1..(Len(w) - 1), w[i + 1] = w[j + 1]
                 PROVE  i = j
      BY <2>1
    <3>1. i + 1 \in DOMAIN w /\ j + 1 \in DOMAIN w
      BY <2>1
    <3>2. i + 1 = j + 1
      BY <3>1 DEF PermitInv, w
    <3> QED
      BY <3>2
  <2>7. ASSUME NEW r \in Top
        PROVE  stage'[r] = "waiting" <=> \E i \in DOMAIN Tail(w) : Tail(w)[i] = r
    <3>1. stage[r] = "waiting" <=> \E i \in DOMAIN w : w[i] = r
      BY DEF PermitInv, w
    <3>2. ASSUME NEW i \in 1..Len(w), w[i] = r, r # h
          PROVE  \E j \in DOMAIN Tail(w) : Tail(w)[j] = r
      <4>1. i - 1 \in 1..(Len(w) - 1) /\ (i - 1) + 1 = i
        BY <2>1, <3>2
      <4> QED
        BY <2>1, <3>2, <4>1
    <3>3. ASSUME NEW j \in 1..(Len(w) - 1)
          PROVE  Tail(w)[j] # h /\ j + 1 \in DOMAIN w /\ Tail(w)[j] = w[j + 1]
      <4>1. j + 1 \in DOMAIN w /\ 1 \in DOMAIN w /\ j + 1 # 1
        BY <2>1
      <4> QED
        BY <2>1, <4>1 DEF PermitInv, w
    <3>4. r \in Runs /\ (stage'[r] = "waiting" <=> r # h /\ stage[r] = "waiting")
      BY <1>1, <2>2
    <3> QED
      BY <2>1, <3>1, <3>2, <3>3, <3>4
  <2>8. stage' \in [Runs -> Live \cup {"idle", "waiting", "ended"}]
    BY <2>2 DEF TypeOK, Live
  <2>9. free = 0 /\ free + Cardinality(Holders) = Permits
    BY <1>5 DEF PermitInv, w, free
  <2>10. PermitInv'
    <3>1. permits'.waiting = Tail(w) /\ permits'.free = free
      BY <2>2
    <3> QED
      BY <2>5, <2>6, <2>7, <2>9, <3>1 DEF PermitInv
  <2> QED
    BY <1>1, <2>1, <2>2, <2>3, <2>8, <2>10
<1> QED
  BY <1>4, <1>5

LEMMA ClosedLine ==
  ASSUME LineInv, UNCHANGED line, line \in Seq(Entries),
         \A c \in Callers :
           /\ perm'[c] = "none" <=> perm[c] = "none"
           /\ perm'[c] \in Asking <=> perm[c] \in Asking
           /\ perm'[c] \in AtPrompt <=> perm[c] \in AtPrompt
  PROVE  LineInv'
<1>1. \A i \in DOMAIN line : line[i] \in Entries
  OBVIOUS
<1>2. \A i \in DOMAIN line : line[i].who \in Callers
  BY <1>1 DEF Entries
<1> QED
  BY <1>2 DEF LineInv, LineOK

LEMMA SameHolders ==
  ASSUME PermitInv, UNCHANGED permits,
         \A t \in Top : /\ stage'[t] = "waiting" <=> stage[t] = "waiting"
                        /\ call'[t] = "open" <=> call[t] = "open"
  PROVE  PermitInv'
<1>1. Holders' = Holders
  BY DEF Holders
<1> QED
  BY <1>1 DEF PermitInv

(* Runs that go on or are spawned leave prompts and their line alone.      *)
LEMMA SamePrompts ==
  ASSUME LineInv, PromptInv, UNCHANGED <<turn, line, perm, handedOff>>,
         \A r \in aborted' \ aborted : perm[r] # "prompting"
  PROVE  LineInv' /\ PromptInv'
BY DEF LineInv, PromptInv, SignalAborted, InBackground, Root

----------------------------------------------------------------------------
(* Steps of the runs.                                                      *)

LEMMA SpawnStep == ASSUME IInv, NEW t \in Top, Spawn(t) PROVE IInv'
<1> USE DEF IInv, bgVars, askVars
<1>1. /\ t \in Runs /\ t \in Spawned /\ t \notin Nested /\ t \notin Launched
      /\ stage[t] = "idle" /\ call[t] = "none" /\ turn = "running"
      /\ permits.waiting \in Seq(Top) /\ permits.free \in Nat /\ permits.free <= Permits
      /\ permits = [free |-> permits.free, waiting |-> permits.waiting]
  BY DEF Spawn, RunInv, TypeOK, Runs, Spawned
<1> DEFINE w == permits.waiting
           free == permits.free
<1>2. /\ \A r \in Runs : r # t => stage'[r] = stage[r] /\ call'[r] = call[r]
      /\ call'[t] = "open" /\ stage'[t] = IF free > 0 THEN "preflight" ELSE "waiting"
      /\ stage' \in [Runs -> Live \cup {"idle", "waiting", "ended"}]
      /\ call' \in [Runs -> {"none", "open", "launched", "report", "backgrounded", "rejected"}]
  BY <1>1 DEF Spawn, TypeOK, Live
<1>3. /\ w \in Seq(Top) /\ Len(w) \in Nat /\ DOMAIN w = 1..Len(w) /\ free \in Nat
      /\ Append(w, t) \in Seq(Top) /\ DOMAIN Append(w, t) = 1..(Len(w) + 1)
      /\ Append(w, t)[Len(w) + 1] = t /\ \A i \in 1..Len(w) : Append(w, t)[i] = w[i]
      /\ \A i \in DOMAIN w : w[i] # t
  BY <1>1 DEF PermitInv
<1>4. permits' \in [free : 0..Permits, waiting : Seq(Top)] /\ PermitInv'
  <2>1. CASE free > 0
    <3>1. permits' = [free |-> free - 1, waiting |-> w] /\ w = <<>>
      BY <1>1, <2>1 DEF Spawn, Acquire, PermitInv
    <3>2. Holders' = Holders \cup {t} /\ t \notin Holders
      BY <1>1, <1>2, <2>1 DEF Holders, Runs, Spawned
    <3>3. IsFiniteSet(Holders) /\ free + Cardinality(Holders) = Permits
      BY DEF PermitInv
    <3>4. IsFiniteSet(Holders') /\ Cardinality(Holders') = Cardinality(Holders) + 1
      BY <3>2, <3>3, FS_AddElement
    <3>5. Cardinality(Holders) \in Nat
      BY <3>3, FS_CardinalityType
    <3> HIDE DEF w, free
    <3>6. free - 1 \in 0..Permits /\ (free - 1) + Cardinality(Holders') = Permits
      BY <1>1, <1>3, <2>1, <3>3, <3>4, <3>5, SMTT(30) DEF free
    <3>7. \A r \in Top : stage'[r] # "waiting"
      BY <1>2, <2>1, <3>1 DEF PermitInv, w, Runs, Spawned
    <3> QED
      BY <1>3, <3>1, <3>4, <3>6, <3>7 DEF PermitInv
  <2>2. CASE ~(free > 0)
    <3>1. permits' = [free |-> free, waiting |-> Append(w, t)] /\ free = 0
      <4>1. permits' = [permits EXCEPT !.waiting = Append(w, t)]
        BY <2>2 DEF Spawn, Acquire
      <4>2. free = 0
        BY <1>1, <2>2
      <4> QED
        BY ONLY <1>1, <4>1, <4>2
    <3>2. Holders' = Holders
      BY <1>1, <1>2, <2>2 DEF Holders, Runs, Spawned
    <3> HIDE DEF w, free
    <3>3. \A i, j \in 1..(Len(w) + 1) : Append(w, t)[i] = Append(w, t)[j] => i = j
      <4>1. \A i, j \in DOMAIN w : w[i] = w[j] => i = j
        BY DEF PermitInv, w
      <4>2. \A i \in 1..(Len(w) + 1) : i \in DOMAIN w \/ i = Len(w) + 1
        BY <1>3
      <4> QED
        BY <1>3, <4>1, <4>2
    <3>4. ASSUME NEW r \in Top
          PROVE  stage'[r] = "waiting" <=> \E i \in 1..(Len(w) + 1) : Append(w, t)[i] = r
      <4>1. stage[r] = "waiting" <=> \E i \in DOMAIN w : w[i] = r
        BY DEF PermitInv, w
      <4>2. \A i \in 1..(Len(w) + 1) : i \in 1..Len(w) \/ i = Len(w) + 1
        BY <1>3
      <4>3. Len(w) + 1 \in 1..(Len(w) + 1) /\ 1..Len(w) \subseteq 1..(Len(w) + 1)
        BY <1>3
      <4>4. r \in Runs /\ (r # t => stage'[r] = stage[r])
        BY <1>2 DEF Runs, Spawned
      <4>5. stage'[t] = "waiting"
        BY <1>2, <2>2
      <4> QED
        BY <1>3, <4>1, <4>2, <4>3, <4>4, <4>5
    <3>5. IsFiniteSet(Holders') /\ free + Cardinality(Holders') = Permits
      BY <3>2 DEF PermitInv, free
    <3> QED
      BY <1>1, <1>3, <3>1, <3>3, <3>4, <3>5 DEF PermitInv
  <2> QED
    BY <2>1, <2>2
<1>5. TypeOK'
  BY <1>2, <1>4 DEF Spawn, TypeOK
<1>6. RunInv'
  BY <1>1, <1>2 DEF Spawn, RunInv, TypeOK, Live, Background, Runs
<1>7. TrackInv'
  BY <1>1, <1>2 DEF Spawn, TrackInv, Background, Runs
<1>8. LineInv' /\ PromptInv'
  BY SamePrompts DEF Spawn
<1> QED
  BY <1>4, <1>5, <1>6, <1>7, <1>8

LEMMA LaunchStep == ASSUME IInv, NEW b \in Launched, Launch(b) PROVE IInv'
<1> USE DEF IInv, bgVars, askVars, runVars
<1>1. /\ b \in Runs /\ b \in Spawned /\ b \notin Nested /\ b \notin Top
      /\ stage[b] = "idle" /\ call[b] = "none" /\ turn # "over"
  BY DEF Launch, RunInv, TypeOK, Runs, Spawned
<1>2. /\ \A r \in Runs : r # b => stage'[r] = stage[r] /\ call'[r] = call[r]
      /\ call'[b] = "launched" /\ stage'[b] = "preflight" /\ Top \subseteq Runs
  BY <1>1 DEF Launch, TypeOK, Runs, Spawned
<1>3. TypeOK'
  BY <1>1 DEF Launch, TypeOK, Live
<1>4. RunInv'
  BY <1>1, <1>2 DEF Launch, RunInv, TypeOK, Live, Background, Runs
<1>5. TrackInv'
  BY <1>1, <1>2 DEF Launch, TrackInv, Background, Runs
<1>6. PermitInv'
  BY <1>1, <1>2, SameHolders DEF Launch
<1>7. LineInv' /\ PromptInv'
  BY SamePrompts DEF Launch
<1> QED
  BY <1>3, <1>4, <1>5, <1>6, <1>7

LEMMA SpawnNestedStep == ASSUME IInv, NEW n \in Nested, SpawnNested(n) PROVE IInv'
<1> USE DEF IInv, bgVars, askVars, runVars
<1>1. /\ n \in Runs /\ n \notin Spawned /\ Parent[n] \in Spawned /\ Parent[n] # n
      /\ stage[n] = "idle" /\ call[n] = "none" /\ stage[Parent[n]] = "running"
      /\ perm[n] = "none"
  BY DEF SpawnNested, RunInv, TypeOK, Runs, Spawned
<1>2. /\ \A r \in Runs : r # n => stage'[r] = stage[r] /\ call'[r] = call[r]
      /\ call'[n] = "open" /\ stage'[n] = "preflight" /\ Spawned \subseteq Runs
      /\ Top \subseteq Spawned
  BY <1>1 DEF SpawnNested, TypeOK, Runs, Spawned
<1>3. TypeOK'
  BY <1>1 DEF SpawnNested, TypeOK, Live
<1>4. RunInv'
  BY <1>1, <1>2 DEF SpawnNested, RunInv, TypeOK, Live, Background, Spawned
<1>5. TrackInv'
  BY <1>1, <1>2 DEF SpawnNested, TrackInv
<1>6. PermitInv'
  BY <1>1, <1>2, SameHolders DEF SpawnNested
<1>7. LineInv' /\ PromptInv'
  BY <1>1, SamePrompts DEF SpawnNested
<1> QED
  BY <1>3, <1>4, <1>5, <1>6, <1>7

LEMMA RunStep ==
  ASSUME IInv, NEW r \in Runs, Begin(r) \/ End(r) \/ Summarized(r)
  PROVE  IInv'
<1> USE DEF IInv, bgVars, askVars, runVars
<1>1. PICK to \in {"running", "summarizing", "ended"} :
        /\ stage' = [stage EXCEPT ![r] = to]
        /\ UNCHANGED <<turn, aborted, expired, handedOff, call, bgVars, permits, askVars>>
        /\ to = "running" => stage[r] = "preflight"
  BY DEF Begin, End, Summarized
<1>2. stage[r] \in Live
  BY DEF Begin, End, Summarized, Live
<1>3. perm[r] \notin Asking
  BY DEF Begin, End, Summarized, ToolsDone, RunInv
<1>4. \A n \in Nested : Parent[n] = r => call[n] # "open"
  <2>1. \A n \in Nested : n \in Runs
    BY DEF Runs
  <2> QED
    BY <2>1 DEF Begin, End, Summarized, ToolsDone, RunInv
<1>5. stage' \in [Runs -> Live \cup {"idle", "waiting", "ended"}]
  BY <1>1 DEF TypeOK, Live
<1>6. /\ \A s \in Runs : s # r => stage'[s] = stage[s]
      /\ stage'[r] = to /\ Spawned \subseteq Runs /\ Top \subseteq Spawned
      /\ \A n \in Nested : n \in Runs /\ Parent[n] \in Runs
  BY <1>1 DEF TypeOK, Runs, Spawned
<1>7. RunInv'
  BY <1>1, <1>2, <1>3, <1>4, <1>6 DEF RunInv, Live, Background
<1>8. TrackInv'
  BY <1>1, <1>2, <1>6 DEF TrackInv, Live
<1>9. PermitInv'
  BY <1>1, <1>2, <1>6, SameHolders DEF Live
<1>10. LineInv' /\ PromptInv'
  BY <1>1, SamePrompts
<1> QED
  BY <1>1, <1>5, <1>7, <1>8, <1>9, <1>10 DEF TypeOK

LEMMA ReturnStep == ASSUME IInv, NEW r \in Runs, ReturnReport(r) PROVE IInv'
<1> USE DEF IInv, bgVars, askVars, runVars
<1>1. /\ call[r] = "open" /\ stage[r] = "ended" /\ call' = [call EXCEPT ![r] = "report"]
      /\ UNCHANGED <<turn, aborted, expired, handedOff, bgVars, askVars>>
      /\ Spawned \subseteq Runs /\ Top \subseteq Spawned
      /\ \A n \in Nested : n \in Runs /\ Parent[n] \in Runs
  BY DEF ReturnReport, Runs, Spawned
<1>2. /\ \A s \in Runs : s # r => call'[s] = call[s]
      /\ call'[r] = "report"
      /\ call' \in [Runs -> {"none", "open", "launched", "report", "backgrounded", "rejected"}]
  BY <1>1 DEF TypeOK
<1>3. /\ PermitInv' /\ permits' \in [free : 0..Permits, waiting : Seq(Top)]
      /\ stage' \in [Runs -> Live \cup {"idle", "waiting", "ended"}]
      /\ \A s \in Runs : \/ stage'[s] = stage[s]
                         \/ /\ s \in Top /\ s # r /\ call[s] = "open"
                            /\ stage[s] = "waiting" /\ stage'[s] = "preflight"
  <2>1. CASE r \in Top
    BY <1>1, <2>1, PermitGoesOn DEF ReturnReport
  <2>2. CASE r \notin Top
    <3>1. UNCHANGED <<permits, stage>>
      BY <2>2 DEF ReturnReport
    <3> QED
      BY <1>1, <1>2, <2>2, <3>1, SameHolders DEF TypeOK
  <2> QED
    BY <2>1, <2>2
<1>4. TypeOK'
  BY <1>1, <1>2, <1>3 DEF TypeOK
<1>5. RunInv'
  BY <1>1, <1>2, <1>3 DEF RunInv, Live, Background, Asking
<1>6. TrackInv'
  BY <1>1, <1>2, <1>3 DEF TrackInv, Background
<1>7. LineInv' /\ PromptInv'
  BY <1>1, SamePrompts
<1> QED
  BY <1>3, <1>4, <1>5, <1>6, <1>7

LEMMA ExpireStep == ASSUME IInv, NEW r \in Runs, Expire(r) PROVE IInv'
<1> USE DEF IInv, bgVars, askVars, runVars
<1> DEFINE hit == IF AbortOnExpiry(r) THEN Downward({r}) ELSE {}
<1>1. /\ r \notin Top /\ expired' = expired \cup {r} /\ r \in Budgeted
      /\ aborted' = aborted \cup hit /\ perm' = ClosePrompts(hit)
      /\ UNCHANGED <<turn, stage, handedOff, call, bgVars, permits, line, ruled>>
  BY DEF Expire, TimerFires
<1>2. hit \subseteq Runs
  BY DEF Downward, Runs
<1>3. /\ Runs \subseteq Callers /\ Spawned \subseteq Runs /\ Main \subseteq Callers
      /\ Main \cap Runs = {}
  BY DEF Callers, Runs
<1>4. /\ perm' \in [Callers -> Asking \cup {"none", "granted", "refused"}]
      /\ \A c \in Callers :
           /\ perm'[c] = "none" <=> perm[c] = "none"
           /\ perm'[c] \in Asking <=> perm[c] \in Asking
           /\ perm'[c] \in AtPrompt <=> perm[c] \in AtPrompt
           /\ perm'[c] = "prompting" => perm[c] = "prompting" /\ c \notin hit
  BY <1>1, ClosedStillAsks DEF TypeOK
<1> HIDE DEF hit
<1>5. TypeOK'
  BY <1>1, <1>2, <1>4 DEF TypeOK
<1>6. RunInv'
  BY <1>1, <1>3, <1>4 DEF RunInv
<1>7. TrackInv' /\ PermitInv'
  BY <1>1 DEF TrackInv, PermitInv, Holders
<1>8. LineInv'
  BY <1>1, <1>4, ClosedLine DEF TypeOK, Entries
<1>9. PromptInv'
  BY <1>1, <1>3, <1>4 DEF PromptInv, SignalAborted, InBackground, Root
<1> QED
  BY <1>5, <1>6, <1>7, <1>8, <1>9

LEMMA HandOffStep == ASSUME IInv, NEW t \in Top, HandOff(t) PROVE IInv'
<1> USE DEF IInv, bgVars, askVars, runVars
<1> DEFINE chain == {c \in Runs : Root(c) = t}
<1>1. /\ stage[t] \in Live /\ t \notin expired /\ expired' = expired \cup {t} /\ t \in Budgeted
      /\ registry' = registry \cup {t} /\ handedOff' = handedOff \cup {t}
      /\ perm' = ClosePrompts(chain) /\ call' = [call EXCEPT ![t] = "backgrounded"]
      /\ PermitPassed /\ UNCHANGED <<turn, aborted, stopped, reported, line, ruled>>
  BY DEF HandOff, TimerFires
<1>2. /\ Runs \subseteq Callers /\ Spawned \subseteq Runs /\ Main \subseteq Callers
      /\ Main \cap Runs = {} /\ t \in Spawned /\ t \in Runs /\ t \notin Launched /\ t \notin Nested
      /\ \A n \in Nested : n \in Runs /\ Parent[n] \in Runs
  BY DEF Callers, Runs, Spawned
<1>3. call[t] = "open" /\ t \notin handedOff /\ t \notin registry /\ t \notin reported
  BY <1>1, <1>2 DEF RunInv, TrackInv, Background
<1>4. /\ perm' \in [Callers -> Asking \cup {"none", "granted", "refused"}]
      /\ \A c \in Callers :
           /\ perm'[c] = "none" <=> perm[c] = "none"
           /\ perm'[c] \in Asking <=> perm[c] \in Asking
           /\ perm'[c] \in AtPrompt <=> perm[c] \in AtPrompt
           /\ perm'[c] = "prompting" => perm[c] = "prompting" /\ c \notin chain
  BY <1>1, ClosedStillAsks DEF TypeOK
<1>5. /\ \A s \in Runs : s # t => call'[s] = call[s]
      /\ call'[t] = "backgrounded"
      /\ call' \in [Runs -> {"none", "open", "launched", "report", "backgrounded", "rejected"}]
  BY <1>1, <1>2 DEF TypeOK
<1>6. stage[t] # "waiting"
  BY <1>1 DEF Live
<1>7. /\ PermitInv' /\ permits' \in [free : 0..Permits, waiting : Seq(Top)]
      /\ stage' \in [Runs -> Live \cup {"idle", "waiting", "ended"}]
      /\ \A s \in Runs : \/ stage'[s] = stage[s]
                         \/ /\ s \in Top /\ s # t /\ call[s] = "open"
                            /\ stage[s] = "waiting" /\ stage'[s] = "preflight"
  BY <1>1, <1>3, <1>6, PermitGoesOn
<1>8. TypeOK'
  BY <1>1, <1>2, <1>4, <1>5, <1>7 DEF TypeOK
<1>9. RunInv'
  BY <1>1, <1>2, <1>3, <1>4, <1>5, <1>7, SMTT(30) DEF RunInv, Live, Background
<1>10. TrackInv'
  BY <1>1, <1>2, <1>3, <1>5, <1>7 DEF TrackInv, Background
<1>11. LineInv'
  BY <1>1, <1>4, ClosedLine DEF TypeOK, Entries
<1>12. PromptInv'
  BY <1>1, <1>2, <1>4 DEF PromptInv, SignalAborted, InBackground, Root
<1> QED
  BY <1>7, <1>8, <1>9, <1>10, <1>11, <1>12

LEMMA FinishStep == ASSUME IInv, NEW r \in Runs, FinishBackground(r) PROVE IInv'
<1> USE DEF IInv, bgVars, askVars, runVars, FinishBackground, FinishWith
<1>1. r \in Spawned
  BY DEF TypeOK
<1>2. TypeOK'
  BY <1>1 DEF TypeOK
<1>3. RunInv' /\ PermitInv'
  BY DEF RunInv, PermitInv, Holders
<1>4. TrackInv'
  BY <1>1 DEF TrackInv
<1>5. LineInv' /\ PromptInv'
  BY SamePrompts
<1> QED
  BY <1>2, <1>3, <1>4, <1>5

(* The turn's cancel, and cancelAll.                                       *)
LEMMA InterruptStep ==
  ASSUME IInv, NEW stops \in SUBSET registry, Interrupt(stops)
  PROVE  IInv'
<1> USE DEF IInv, bgVars, askVars, runVars
<1> DEFINE gone == {t \in Top : stage[t] = "waiting"}
           hit  == Downward({t \in Top : Attached(t)}
                              \cup {r \in stops : stage[r] \in Live})
<1>1. /\ turn' = IF turn = "running" THEN "unwinding" ELSE turn
      /\ stopped' = stopped \cup stops /\ aborted' = aborted \cup hit
      /\ perm' = ClosePrompts(hit \cup Main)
      /\ stage' = [r \in Runs |-> IF r \in gone THEN "ended" ELSE stage[r]]
      /\ call' = [r \in Runs |-> IF r \in gone THEN "rejected" ELSE call[r]]
      /\ permits' = [permits EXCEPT !.waiting = <<>>]
      /\ UNCHANGED <<expired, handedOff, registry, reported, line, ruled>>
  BY DEF Interrupt, Forget
<1>2. /\ Runs \subseteq Callers /\ Spawned \subseteq Runs /\ Main \subseteq Callers
      /\ Main \cap Runs = {} /\ Top \subseteq Spawned
      /\ \A n \in Nested : n \in Runs /\ Parent[n] \in Runs
  BY DEF Callers, Runs, Spawned
<1>3. hit \subseteq Runs /\ stops \subseteq Spawned
  BY <1>2 DEF Downward, TypeOK
<1>4. /\ perm' \in [Callers -> Asking \cup {"none", "granted", "refused"}]
      /\ \A c \in Callers :
           /\ perm'[c] = "none" <=> perm[c] = "none"
           /\ perm'[c] \in Asking <=> perm[c] \in Asking
           /\ perm'[c] \in AtPrompt <=> perm[c] \in AtPrompt
           /\ perm'[c] = "prompting" => perm[c] = "prompting" /\ c \notin hit \cup Main
  BY <1>1, ClosedStillAsks DEF TypeOK
<1> HIDE DEF hit
<1>5. \A r \in Runs : \/ r \notin gone /\ stage'[r] = stage[r] /\ call'[r] = call[r]
                      \/ /\ r \in gone /\ r \in Top /\ stage[r] = "waiting" /\ call[r] = "open"
                         /\ stage'[r] = "ended" /\ call'[r] = "rejected"
  BY <1>1 DEF RunInv
<1>6. /\ stage' \in [Runs -> Live \cup {"idle", "waiting", "ended"}]
      /\ call' \in [Runs -> {"none", "open", "launched", "report", "backgrounded", "rejected"}]
  BY <1>1 DEF TypeOK
<1>7. /\ permits.free \in 0..Permits
      /\ permits' = [free |-> permits.free, waiting |-> <<>>]
  BY <1>1 DEF TypeOK
<1>8. TypeOK'
  <2>1. permits' \in [free : 0..Permits, waiting : Seq(Top)]
    BY <1>7
  <2>2. turn' \in {"running", "unwinding", "over"} /\ aborted' \subseteq Runs
        /\ stopped' \subseteq Spawned
    BY <1>1, <1>3 DEF TypeOK
  <2>3. UNCHANGED <<expired, handedOff, registry, reported, line, ruled>> /\ TypeOK
    BY <1>1
  <2> QED
    BY ONLY <1>4, <1>6, <2>1, <2>2, <2>3 DEF TypeOK
<1>9. RunInv'
  BY <1>1, <1>2, <1>4, <1>5 DEF RunInv, Live, Background
<1>10. TrackInv'
  BY <1>1, <1>2, <1>5 DEF TrackInv, Background
<1>11. PermitInv'
  <2>1. Holders' = Holders
    BY <1>2, <1>5 DEF Holders
  <2>2. \A t \in Top : stage'[t] # "waiting"
    BY <1>2, <1>5
  <2> QED
    BY <1>7, <2>1, <2>2 DEF PermitInv
<1>12. LineInv'
  BY <1>1, <1>4, ClosedLine DEF TypeOK, Entries
<1>13. PromptInv'
  BY <1>1, <1>2, <1>4 DEF PromptInv, SignalAborted, InBackground, Root, Callers
<1> QED
  BY <1>8, <1>9, <1>10, <1>11, <1>12, <1>13

LEMMA EndTurnStep == IInv /\ EndTurn => IInv'
<1> SUFFICES ASSUME IInv, EndTurn PROVE IInv'
  OBVIOUS
<1> USE DEF IInv, bgVars, askVars, runVars, EndTurn
<1>1. TypeOK' /\ TrackInv' /\ PermitInv' /\ LineInv'
  BY DEF TypeOK, TrackInv, PermitInv, LineInv, Holders
<1>2. RunInv'
  BY DEF RunInv
<1>3. PromptInv'
  BY DEF PromptInv, SignalAborted, InBackground, Root, Asking
<1> QED
  BY <1>1, <1>2, <1>3

----------------------------------------------------------------------------
(* Steps of a permission request.                                          *)

\* What a request changes of the invariant.
LEMMA RequestStep ==
  ASSUME IInv, UNCHANGED <<turn, runVars, bgVars, permits>>, NEW c \in Callers, NEW x,
         x \in Asking \cup {"granted", "refused"},
         perm' = [perm EXCEPT ![c] = x], ruled' \in BOOLEAN, line' \in Seq(Entries),
         LineOK(line', perm'),
         x \in Asking => \/ perm[c] \in Asking
                         \/ /\ perm[c] = "none"
                            /\ c \in Main => turn = "running"
                            /\ c \in Runs => stage[c] = "running",
         x \notin Asking => \/ perm[c] \in Asking
                            \/ c \in Runs => stage[c] = "running",
         x = "prompting" => ~SignalAborted(c) /\ MayEscalate(c)
  PROVE  IInv'
<1> USE DEF IInv, bgVars, runVars
<1>1. /\ perm' \in [Callers -> Asking \cup {"none", "granted", "refused"}]
      /\ perm'[c] = x /\ \A d \in Callers : d # c => perm'[d] = perm[d]
      /\ Runs \subseteq Callers /\ Main \subseteq Callers /\ Main \cap Runs = {}
  BY DEF TypeOK, Runs, Callers
<1>2. TypeOK'
  <2>1. line' \in Seq([who : Callers, released : BOOLEAN])
    BY DEF Entries
  <2>2. UNCHANGED <<turn, stage, aborted, expired, handedOff, call, registry, stopped,
                    reported, permits>>
    OBVIOUS
  <2>3. perm' \in [Callers -> Asking \cup {"none", "granted", "refused"}] /\ ruled' \in BOOLEAN
    BY <1>1
  <2>4. TypeOK
    OBVIOUS
  <2> QED
    BY ONLY <2>1, <2>2, <2>3, <2>4 DEF TypeOK
<1>3. RunInv'
  <2>1. c \in Runs => stage[c] \in {"running", "summarizing", "ended"}
    BY <1>1 DEF RunInv
  <2>2. c \in Runs /\ x \in Asking => stage[c] = "running"
    BY <1>1 DEF RunInv
  <2>3. turn = "over" /\ c \in Main => x \notin Asking
    BY DEF RunInv
  <2> QED
    BY <1>1, <2>1, <2>2, <2>3 DEF RunInv, Asking
<1>4. TrackInv' /\ PermitInv' /\ LineInv'
  BY DEF TrackInv, PermitInv, LineInv, Holders
<1>5. PromptInv'
  BY <1>1 DEF PromptInv, SignalAborted, InBackground, Root, MayEscalate
<1> QED
  BY <1>2, <1>3, <1>4, <1>5

LEMMA AskStep == ASSUME IInv, NEW c \in Askers, Ask(c) PROVE IInv'
<1> USE DEF IInv
<1>0. c \in Callers /\ perm[c] = "none" /\ ~SignalAborted(c) /\ line \in Seq(Entries)
  BY DEF Ask, TypeOK, Entries
<1>1. PICK x \in {"granted", "queued", "refused"} :
        /\ perm' = [perm EXCEPT ![c] = x]
        /\ line' = IF x = "queued" THEN Append(line, [who |-> c, released |-> FALSE]) ELSE line
  <2>1. perm \in [Callers -> Asking \cup {"none", "granted", "refused"}]
    BY DEF TypeOK
  <2> QED
    BY <1>0, <2>1 DEF Ask, Decide
<1>2. /\ \A d \in Callers : d # c => perm'[d] = perm[d]
      /\ perm'[c] = x
  BY <1>1 DEF TypeOK
<1>3. /\ \A i \in DOMAIN line : line[i].who \in Callers /\ line[i].who # c
      /\ \A i \in DOMAIN line : line[i] \in Entries
  <2>1. \A i \in DOMAIN line : line[i] \in Entries
    BY <1>0
  <2> QED
    BY <1>0, <2>1 DEF Entries, LineInv, LineOK
<1>4. line' \in Seq(Entries) /\ LineOK(line', perm')
  <2>1. CASE x # "queued"
    BY <1>0, <1>1, <1>2, <1>3, <2>1 DEF LineInv, LineOK, Asking, AtPrompt
  <2>2. CASE x = "queued"
    <3> DEFINE e == [who |-> c, released |-> FALSE]
               n == Len(line)
    <3>1. /\ line' = Append(line, e) /\ e \in Entries /\ n \in Nat /\ DOMAIN line = 1..n
          /\ line' \in Seq(Entries) /\ DOMAIN line' = 1..(n + 1) /\ line'[n + 1] = e
          /\ \A i \in 1..n : line'[i] = line[i]
      BY <1>0, <1>1, <2>2 DEF Entries
    <3> HIDE DEF n
    <3>2. \A i \in 1..(n + 1) : i \in 1..n \/ i = n + 1
      BY <3>1
    <3>3. ASSUME NEW i \in 1..(n + 1), NEW j \in 1..(n + 1), line'[i].who = line'[j].who
          PROVE  i = j
      BY <1>3, <3>1, <3>2, <3>3 DEF LineInv, LineOK
    <3>4. ASSUME NEW d \in Callers, perm'[d] \in Asking
          PROVE  \E i \in 1..(n + 1) : line'[i].who = d /\ ~line'[i].released
      <4>1. CASE d = c
        BY <3>1, <4>1
      <4>2. CASE d # c
        <5>1. PICK i \in DOMAIN line : line[i].who = d /\ ~line[i].released
          BY <1>2, <3>4, <4>2 DEF LineInv, LineOK
        <5> QED
          BY <3>1, <5>1
      <4> QED
        BY <4>1, <4>2
    <3>5. ASSUME NEW i \in 1..(n + 1)
          PROVE  /\ perm'[line'[i].who] # "none"
                 /\ ~line'[i].released => perm'[line'[i].who] \in Asking
                 /\ perm'[line'[i].who] \in AtPrompt => \A j \in 1..(i - 1) : line'[j].released
      <4>1. CASE i = n + 1
        BY <1>2, <2>2, <3>1, <4>1 DEF Asking, AtPrompt
      <4>2. CASE i \in 1..n
        <5>1. \A j \in 1..(i - 1) : j \in 1..n
          BY <3>1, <4>2
        <5> QED
          BY <1>2, <1>3, <3>1, <4>2, <5>1, SMTT(30) DEF LineInv, LineOK
      <4> QED
        BY <3>2, <4>1, <4>2
    <3> QED
      BY <3>1, <3>3, <3>4, <3>5 DEF LineOK
  <2> QED
    BY <2>1, <2>2
<1>5. c \in Main => turn = "running"
  BY <1>0 DEF SignalAborted
<1>6. /\ x \in Asking \cup {"granted", "refused"} /\ x # "prompting"
      /\ c \in Runs => stage[c] = "running"
      /\ UNCHANGED <<turn, runVars, bgVars, permits>> /\ ruled' \in BOOLEAN
  BY DEF Ask, Asking, TypeOK
<1> QED
  BY <1>0, <1>1, <1>4, <1>5, <1>6, RequestStep

LEMMA LeaveStep ==
  ASSUME IInv, UNCHANGED <<turn, runVars, bgVars, permits>>, NEW c \in Callers,
         perm[c] \in Asking, LeaveLine(c), ruled' \in BOOLEAN,
         Decide(c, "granted") \/ Decide(c, "refused")
  PROVE  IInv'
<1>1. /\ line \in Seq(Entries) /\ LineOK(line, perm)
      /\ perm \in [Callers -> Asking \cup {"none", "granted", "refused"}]
      /\ perm' = [perm EXCEPT ![c] = "granted"] \/ perm' = [perm EXCEPT ![c] = "refused"]
  BY DEF IInv, TypeOK, Entries, LineInv, Decide
<1>2. line' \in Seq(Entries) /\ LineOK(line', perm')
  BY <1>1, LeavesLine
<1>3. "granted" \notin Asking /\ "refused" \notin Asking
  BY DEF Asking
<1> QED
  BY <1>1, <1>2, <1>3, RequestStep

LEMMA PromptStep ==
  ASSUME IInv, NEW c \in Askers, GiveUp(c) \/ TakeTurn(c) \/ Resume(c)
         \/ \E answer \in {"once", "always", "deny"} : Answer(c, answer)
  PROVE  IInv'
<1>0. /\ c \in Callers /\ line \in Seq(Entries) /\ ruled \in BOOLEAN
      /\ perm \in [Callers -> Asking \cup {"none", "granted", "refused"}]
      /\ \A i \in DOMAIN line : line[i].who \in Callers
  <2>1. c \in Callers /\ line \in Seq(Entries) /\ ruled \in BOOLEAN
        /\ perm \in [Callers -> Asking \cup {"none", "granted", "refused"}]
    BY DEF IInv, TypeOK, Entries
  <2>2. \A i \in DOMAIN line : line[i] \in Entries
    BY <2>1
  <2> QED
    BY <2>1, <2>2 DEF Entries
<1>1. CASE GiveUp(c)
  BY <1>0, <1>1, LeaveStep DEF GiveUp, Asking
<1>2. CASE TakeTurn(c)
  <2>1. CASE Decide(c, "prompting") /\ UNCHANGED line /\ MayEscalate(c)
    <3>1. /\ PromptTurn(c) /\ ~SignalAborted(c) /\ perm[c] = "queued"
          /\ UNCHANGED <<turn, runVars, bgVars, permits, ruled>>
      BY <1>2 DEF TakeTurn
    <3>2. \A d \in Callers : perm'[d] = IF d = c THEN "prompting" ELSE perm[d]
      BY <1>0, <2>1 DEF Decide
    <3>3. PICK i \in DOMAIN line : line[i].who = c /\ ~line[i].released
      BY <1>0, <3>1 DEF IInv, LineInv, LineOK, Asking
    <3>4. Place(c) = i
      BY <3>3 DEF Place, IInv, LineInv, LineOK
    <3>5. \A j \in 1..(i - 1) : line[j].released
      BY <3>1, <3>4 DEF PromptTurn
    <3>6. LineOK(line, perm')
      BY <1>0, <3>2, <3>3, <3>5 DEF IInv, LineInv, LineOK, Asking, AtPrompt
    <3>7. perm' = [perm EXCEPT ![c] = "prompting"] /\ line' = line /\ ruled' = ruled
      BY <2>1, <3>1 DEF Decide
    <3>8. "prompting" \in Asking /\ perm[c] \in Asking
      BY <3>1 DEF Asking
    <3>9. /\ line' \in Seq(Entries) /\ LineOK(line', perm') /\ ruled' \in BOOLEAN
          /\ UNCHANGED <<turn, runVars, bgVars, permits>>
      BY <1>0, <3>1, <3>6, <3>7
    <3> DEFINE x == "prompting"
    <3>10. /\ c \in Callers /\ x \in Asking \cup {"granted", "refused"}
           /\ perm' = [perm EXCEPT ![c] = x] /\ perm[c] \in Asking
           /\ x = "prompting" => ~SignalAborted(c) /\ MayEscalate(c)
      BY <1>0, <2>1, <3>1, <3>7, <3>8
    <3> HIDE DEF x
    <3> QED
      BY <3>9, <3>10, RequestStep
  <2>2. CASE LeaveLine(c) /\ (Decide(c, "granted") \/ Decide(c, "refused"))
    BY <1>0, <1>2, <2>2, LeaveStep DEF TakeTurn, Asking
  <2> QED
    BY <1>2, <2>1, <2>2 DEF TakeTurn
<1>3. CASE Resume(c)
  <2>1. LeaveLine(c) /\ (Decide(c, "granted") \/ Decide(c, "refused")) /\ ruled' \in BOOLEAN
        /\ perm[c] \in Asking /\ UNCHANGED <<turn, runVars, bgVars, permits>>
    BY <1>0, <1>3 DEF Resume, ResumeWith, Asking
  <2> QED
    BY <1>0, <2>1, LeaveStep
<1>4. ASSUME NEW answer \in {"once", "always", "deny"}, Answer(c, answer) PROVE IInv'
  <2>1. /\ perm[c] = "prompting" /\ perm' = [perm EXCEPT ![c] = answer]
        /\ UNCHANGED <<turn, runVars, bgVars, permits, line, ruled>>
    BY <1>4 DEF Answer, Decide
  <2>2. \A d \in Callers : perm'[d] = IF d = c THEN answer ELSE perm[d]
    BY <1>0, <2>1
  <2>3. LineOK(line, perm')
    BY <1>0, <2>1, <2>2 DEF IInv, LineInv, LineOK, Asking, AtPrompt
  <2>4. answer \in Asking /\ answer # "prompting" /\ perm[c] \in Asking
    BY <2>1 DEF Asking
  <2>5. /\ line' \in Seq(Entries) /\ LineOK(line', perm') /\ ruled' \in BOOLEAN
        /\ UNCHANGED <<turn, runVars, bgVars, permits>>
    BY <1>0, <2>1, <2>3
  <2>6. /\ answer \in Asking \cup {"granted", "refused"} /\ c \in Callers /\ IInv
        /\ answer = "prompting" => ~SignalAborted(c) /\ MayEscalate(c)
    BY <1>0, <2>4
  <2>7. perm' = [perm EXCEPT ![c] = answer]
    BY <2>1
  <2> QED
    BY <2>4, <2>5, <2>6, <2>7, RequestStep
<1> QED
  BY <1>1, <1>2, <1>3, <1>4

----------------------------------------------------------------------------
LEMMA InitIInv == Init => IInv
<1> SUFFICES ASSUME Init PROVE IInv
  OBVIOUS
<1> USE DEF Init
<1>1. /\ Top \subseteq Runs
      /\ \A r \in Runs : stage[r] = "idle" /\ call[r] = "none" /\ perm[r] = "none"
      /\ \A c \in Callers : perm[c] = "none"
  BY DEF Runs, Spawned, Callers
<1>2. TypeOK
  <2>1. /\ permits \in [free : 0..Permits, waiting : Seq(Top)]
        /\ line \in Seq([who : Callers, released : BOOLEAN])
    OBVIOUS
  <2> QED
    BY <2>1 DEF TypeOK
<1>3. RunInv /\ TrackInv /\ LineInv /\ PromptInv
  BY <1>1 DEF RunInv, TrackInv, LineInv, LineOK, PromptInv, Background, Asking, AtPrompt,
              Live, Runs
<1>4. PermitInv
  <2>1. Holders = {}
    BY <1>1 DEF Holders
  <2>2. IsFiniteSet(Holders) /\ Cardinality(Holders) = 0
    BY <2>1, FS_EmptySet
  <2>3. permits.free = Permits /\ permits.waiting = <<>> /\ Permits + 0 = Permits
    OBVIOUS
  <2> QED
    BY <1>1, <2>2, <2>3 DEF PermitInv
<1> QED
  BY <1>2, <1>3, <1>4 DEF IInv

LEMMA NextIInv == IInv /\ [Next]_vars => IInv'
<1> SUFFICES ASSUME IInv, [Next]_vars PROVE IInv'
  OBVIOUS
<1>1. CASE UNCHANGED vars
  BY <1>1 DEF vars, runVars, bgVars, askVars, IInv, TypeOK, RunInv, TrackInv, PermitInv,
              Holders, LineInv, PromptInv, SignalAborted, InBackground, Root
<1>2. CASE Next
  <2>1. CASE CancelTurn
    BY <2>1, InterruptStep DEF CancelTurn
  <2>2. CASE ReplaceSession
    BY <2>2, InterruptStep DEF ReplaceSession
  <2>3. ASSUME NEW r \in Runs, Begin(r) \/ End(r) \/ Summarized(r) \/ ReturnReport(r)
                                 \/ Expire(r) \/ FinishBackground(r)
        PROVE  IInv'
    BY <2>3, RunStep, ReturnStep, ExpireStep, FinishStep
  <2>4. ASSUME NEW c \in Askers, Ask(c) \/ GiveUp(c) \/ TakeTurn(c) \/ Resume(c)
                 \/ \E answer \in {"once", "always", "deny"} : Answer(c, answer)
        PROVE  IInv'
    BY <2>4, AskStep, PromptStep
  <2> QED
    BY <1>2, <2>1, <2>2, <2>3, <2>4, SpawnStep, HandOffStep, LaunchStep, SpawnNestedStep,
       EndTurnStep DEF Next
<1> QED
  BY <1>1, <1>2

LEMMA AlwaysIInv == Spec => []IInv
BY InitIInv, NextIInv, PTL DEF Spec

(* Every variable keeps its type; in particular no more permits come back   *)
(* to the semaphore of AgentTool than were taken.                          *)
THEOREM TypeCorrect == Spec => []TypeOK
<1>1. IInv => TypeOK
  BY DEF IInv
<1> QED
  BY <1>1, AlwaysIInv, PTL

(* No more foreground calls are under way than there are permits, and       *)
(* nobody waits for one that is free (utils/semaphore.ts).                 *)
THEOREM PermitsBound ==
  Spec => []( /\ IsFiniteSet(Holders) /\ Cardinality(Holders) <= Permits
              /\ permits.waiting # <<>> => Cardinality(Holders) = Permits )
<1>1. IInv => /\ IsFiniteSet(Holders) /\ Cardinality(Holders) <= Permits
              /\ permits.waiting # <<>> => Cardinality(Holders) = Permits
  <2> SUFFICES ASSUME IInv
               PROVE  /\ IsFiniteSet(Holders) /\ Cardinality(Holders) <= Permits
                      /\ permits.waiting # <<>> => Cardinality(Holders) = Permits
    OBVIOUS
  <2>1. /\ permits.free \in Nat /\ IsFiniteSet(Holders)
        /\ permits.free + Cardinality(Holders) = Permits
        /\ permits.waiting # <<>> => permits.free = 0
    BY DEF IInv, TypeOK, PermitInv
  <2>2. Cardinality(Holders) \in Nat
    BY <2>1, FS_CardinalityType
  <2> QED
    BY <2>1, <2>2
<1> QED
  BY <1>1, AlwaysIInv, PTL

(* One prompt at a time, of a caller in the foreground that nothing has     *)
(* cancelled (resolveToolPermission, escalationAbort).                     *)
THEOREM ForegroundPrompts == Spec => []PromptsAreForeground
<1>1. IInv => PromptsAreForeground
  <2> SUFFICES ASSUME IInv, NEW c \in Callers, NEW d \in Callers,
                      perm[c] = "prompting", perm[d] = "prompting"
               PROVE  d = c
    BY DEF PromptsAreForeground, IInv, PromptInv
  <2>1. PICK i \in DOMAIN line : line[i].who = c /\ ~line[i].released
    BY DEF IInv, LineInv, LineOK, Asking
  <2>2. PICK j \in DOMAIN line : line[j].who = d /\ ~line[j].released
    BY DEF IInv, LineInv, LineOK, Asking
  <2>3. /\ \A k \in 1..(i - 1) : line[k].released
        /\ \A k \in 1..(j - 1) : line[k].released
    BY <2>1, <2>2 DEF IInv, LineInv, LineOK, Asking, AtPrompt
  <2>4. i \in Nat \ {0} /\ j \in Nat \ {0}
    <3>1. line \in Seq(Entries)
      BY DEF IInv, TypeOK, Entries
    <3> QED
      BY <3>1
  <2>5. i = j
    BY <2>1, <2>2, <2>3, <2>4
  <2> QED
    BY <2>1, <2>2, <2>5
<1> QED
  BY <1>1, AlwaysIInv, PTL

(* No sub-agent outlives its turn without an owner: its root is tracked,    *)
(* so cancelAll reaches it.                                                *)
THEOREM RunsHaveOwners == Spec => []NoOrphans
<1>1. IInv => NoOrphans
  <2> SUFFICES ASSUME IInv, turn = "over", NEW r \in Runs, stage[r] \in Live
               PROVE  Root(r) \in registry
    BY DEF NoOrphans
  <2>1. Root(r) \in Spawned /\ Root(r) \in Runs /\ stage[Root(r)] \in Live
    <3>1. CASE r \in Nested
      <4>1. call[r] = "open"
        BY <3>1 DEF IInv, TypeOK, RunInv, Background, Spawned
      <4> QED
        BY <3>1, <4>1 DEF IInv, RunInv, Root, Runs, Live
    <3>2. CASE r \notin Nested
      BY <3>2 DEF Root, Runs
    <3> QED
      BY <3>1, <3>2
  <2>2. call[Root(r)] \in Background /\ stage[Root(r)] # "ended"
    BY <2>1 DEF IInv, RunInv, Live
  <2> QED
    BY <2>1, <2>2 DEF IInv, TrackInv
<1> QED
  BY <1>1, AlwaysIInv, PTL

(* A run's outcome reaches the conversation once: as the result of its      *)
(* call or as a report, and not at all when it was stopped.                *)
THEOREM OutcomesOnce == Spec => []OutcomeOnce
<1>1. IInv => OutcomeOnce
  BY DEF IInv, TrackInv, OutcomeOnce, Background
<1> QED
  BY <1>1, AlwaysIInv, PTL

(* An answer grants nothing to a run that is in the background.            *)
THEOREM BackgroundGrants == Spec => NoGrantInBackground
<1>1. IInv /\ [Next]_vars =>
        [ \A r \in Runs :
            perm'[r] = "granted" /\ perm[r] # "granted" /\ InBackground(r) => ruled ]_vars
  <2> SUFFICES ASSUME IInv, Next, NEW r \in Runs,
                      perm'[r] = "granted", perm[r] # "granted", InBackground(r)
               PROVE  ruled
    OBVIOUS
  <2>0. /\ perm \in [Callers -> Asking \cup {"none", "granted", "refused"}]
        /\ r \in Callers /\ r \notin Main
    BY DEF IInv, TypeOK, Callers
  <2>1. \A S : perm' # ClosePrompts(S)
    BY <2>0 DEF ClosePrompts
  <2>2. perm' # perm
    OBVIOUS
  <2>3. PICK c \in Askers : Ask(c) \/ GiveUp(c) \/ TakeTurn(c) \/ Resume(c)
                              \/ \E answer \in {"once", "always", "deny"} : Answer(c, answer)
    BY <2>1, <2>2 DEF Next, Spawn, HandOff, Launch, SpawnNested, Begin, End, Summarized,
       ReturnReport, Expire, FinishBackground, FinishWith, CancelTurn, ReplaceSession,
       Interrupt, EndTurn, askVars
  <2>4. c = r
    BY <2>0, <2>3 DEF Ask, GiveUp, TakeTurn, Resume, ResumeWith, Answer, Decide
  <2>5. ~MayEscalate(r)
    BY <2>0 DEF MayEscalate
  <2> QED
    BY <2>0, <2>3, <2>4, <2>5 DEF Ask, GiveUp, TakeTurn, Resume, ResumeWith, Answer, Decide
<1> QED
  BY <1>1, AlwaysIInv, PTL DEF Spec, NoGrantInBackground

(* A run in the background is aborted with the run it belongs to, by        *)
(* cancelAll or, when it was launched, by its own deadline.                *)
THEOREM BackgroundGoesOn == Spec => BackgroundRunsOn
<1>1. IInv /\ [Next]_vars =>
        [ \A r \in aborted' \ aborted :
            InBackground(r) => \/ Root(r) \in stopped' \cup aborted
                               \/ Root(r) \in Launched \cap expired' ]_vars
  <2> SUFFICES ASSUME IInv, Next, NEW r \in aborted' \ aborted, InBackground(r)
               PROVE  \/ Root(r) \in stopped' \cup aborted
                      \/ Root(r) \in Launched \cap expired'
    OBVIOUS
  <2>1. handedOff \subseteq Top /\ Top \cap Launched = {} /\ Spawned \cap Nested = {}
    BY DEF IInv, TypeOK
  <2>2. ASSUME NEW n \in Nested, SpawnNested(n)
        PROVE  \/ Root(r) \in stopped' \cup aborted
               \/ Root(r) \in Launched \cap expired'
    <3>1. r = n /\ ParentAborted(n)
      BY <2>2 DEF SpawnNested
    <3>2. n \notin Top /\ n \notin Launched
      BY <2>1 DEF Spawned
    <3>3. Parent[n] \in aborted
      BY <3>1, <3>2 DEF ParentAborted
    <3> QED
      BY <3>1, <3>3 DEF Root
  <2>3. ASSUME NEW s \in Runs, Expire(s)
        PROVE  \/ Root(r) \in stopped' \cup aborted
               \/ Root(r) \in Launched \cap expired'
    <3>1. /\ AbortOnExpiry(s) /\ expired' = expired \cup {s}
          /\ r \in Downward({s})
      BY <2>3 DEF Expire, TimerFires
    <3>2. CASE r = s
      <4>1. CASE s \in Nested
        <5>1. Parent[s] \notin Nested /\ Root(r) = Parent[s]
          BY <2>1, <3>2, <4>1 DEF Root
        <5> QED
          BY <3>1, <3>2, <4>1, <5>1 DEF AbortOnExpiry, InBackground, Root
      <4>2. CASE s \notin Nested
        BY <2>1, <2>3, <3>1, <3>2, <4>2 DEF Expire, InBackground, Root, Runs, Spawned
      <4> QED
        BY <4>1, <4>2
    <3>3. CASE r # s
      <4>1. r \in Nested /\ Parent[r] = s /\ Root(r) = s /\ s \in Spawned
        BY <3>1, <3>3 DEF Downward, Root
      <4> QED
        BY <2>1, <2>3, <3>1, <4>1 DEF Expire, InBackground, Spawned
    <3> QED
      BY <3>2, <3>3
  <2>4. ASSUME NEW stops \in SUBSET registry, Interrupt(stops)
        PROVE  \/ Root(r) \in stopped' \cup aborted
               \/ Root(r) \in Launched \cap expired'
    <3>1. stops \subseteq Spawned
      BY DEF IInv, TypeOK
    <3> QED
      BY <2>1, <2>4, <3>1 DEF Interrupt, Downward, Attached, InBackground, Root, Spawned
  <2>5. CASE CancelTurn \/ ReplaceSession
    BY <2>4, <2>5 DEF CancelTurn, ReplaceSession
  <2>6. \/ \E n \in Nested : SpawnNested(n)
        \/ \E s \in Runs : Expire(s)
        \/ CancelTurn \/ ReplaceSession
    <3>1. aborted' # aborted
      OBVIOUS
    <3> QED
      BY <3>1
      DEF Next, Spawn, HandOff, Launch, Begin, End, Summarized, ReturnReport, FinishBackground,
          FinishWith, EndTurn, Ask, GiveUp, TakeTurn, Resume, ResumeWith, Answer, runVars
  <2> QED
    BY <2>2, <2>3, <2>5, <2>6
<1> QED
  BY <1>1, AlwaysIInv, PTL DEF Spec, BackgroundRunsOn
=============================================================================
