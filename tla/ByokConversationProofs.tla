----------------------- MODULE ByokConversationProofs -----------------------
(***************************************************************************)
(* What ByokConversation guarantees for any number of processes, inputs,   *)
(* retries, failures, crashes and evictions: its types, that a save keeps  *)
(* the turns of the file, that an answer which was shown is not lost, and  *)
(* that what is sent to the vendor is a history it accepts.                *)
(*                                                                         *)
(* None is inductive.  That a save keeps the file's turns rests on the     *)
(* revision: whoever has the file's revision has its whole turns, and as   *)
(* much of a history as outlives a failed attempt (RevInv), and a thread   *)
(* that the file has never had is one process's own (MintInv, PrivateInv). *)
(* The order of a request rests on where each open call and each input may *)
(* stand, in the file and in every memory (OrderInv), for as long as no    *)
(* process took another's open call from the file.                         *)
(*                                                                         *)
(* Each action either works on the history of its process (Works) or       *)
(* lengthens none (Quiet); the invariant is shown once for each of the two *)
(* and once for the save and for the first message of a thread.            *)
(*                                                                         *)
(* At the end: what FileLease guarantees, the lease the save is made under *)
(***************************************************************************)
EXTENDS ByokConversation, FileLease, WellFoundedInduction, TLAPS

Phases   == {"away", "idle", "streaming", "saving", "tools", "retry"}
Requests == [kind : {"message", "tools"}, id : Nat, input : Nat, base : Nat,
             tries : Nat, after : {"idle", "tools"}]

Types ==
  /\ file \in Saved \cup {None}
  /\ live \in [Procs -> [Threads -> Held \cup {None}]]
  /\ cur \in [Procs -> Threads \cup {None}] /\ replaced \in [Procs -> Threads \cup {None}]
  /\ phase \in [Procs -> Phases] /\ req \in [Procs -> Requests]
  /\ aborted \in [Procs -> BOOLEAN]
  /\ ids \in Nat /\ faults \in Nat /\ losses \in Nat /\ minted \subseteq Threads
  /\ kept \in [Procs -> SUBSET Message] /\ dropped \subseteq Procs /\ foreign \in BOOLEAN

First(r)   == Msg(IF r.kind = "tools" THEN "tool" ELSE "user", r.id)
Busy(p)    == phase[p] \notin {"away", "idle"}
Waiting(p) == \/ phase[p] = "tools"
              \/ phase[p] = "saving" /\ req[p].after = "tools"
              \/ phase[p] = "retry" /\ req[p].kind = "tools"

(* A turn holds its conversation while it streams or saves, a stream ends  *)
(* with what it was sent, and no two turns have a number in common.        *)
TurnInv ==
  \A p \in Procs :
    /\ phase[p] \in {"streaming", "saving"} => Alive(p)
    /\ Busy(p) => req[p].id \in 1..ids /\ req[p].input <= ids
    /\ phase[p] # "retry" /\ Waiting(p) => req[p].kind = "tools"
    /\ phase[p] = "streaming" =>
         LET m == Mine(p).msgs IN Len(m) = req[p].base + 1 /\ m[Len(m)] = First(req[p])
    /\ \A q \in Procs : p # q /\ Busy(p) /\ Busy(q) => req[p].id # req[q].id

(* What of a history outlives a failed attempt.                            *)
Settled(p, t) ==
  IF phase[p] = "streaming" /\ t = cur[p]
    THEN SubSeq(live[p][t].msgs, 1, req[p].base) ELSE live[p][t].msgs

(* Nobody is ahead of the file's revision, and who has it has its turns.   *)
RevInv ==
  \A p \in Procs, t \in Threads : live[p][t] # None =>
    /\ live[p][t].rev <= Rev
    /\ Stored(t) /\ live[p][t].rev = file.rev =>
         IsPrefixOf(Repaired(file.msgs), Settled(p, t))

(* Every thread in use was minted.                                         *)
MintInv ==
  /\ file # None => file.thread \in minted
  /\ \A p \in Procs : cur[p] \in minted \cup {None}
  /\ \A p \in Procs, t \in Threads : live[p][t] # None => t \in minted

(* A thread the file has never had is known to the process that minted it. *)
PrivateInv ==
  \A p \in Procs, t \in Threads :
    live[p][t] # None /\ (file = None \/ live[p][t].replaces # None) =>
      /\ ~Stored(t)
      /\ \A q \in Procs \ {p} : cur[q] # t /\ live[q][t] = None

(* What a process is still to have of what it had when it last answered.   *)
Due(p) == IF p \in dropped THEN {} ELSE kept[p]

(* Where an answer that was shown is: before the first open call, and in   *)
(* the file when it would be read back from there.                         *)
KeptInv ==
  \A p \in Procs :
    /\ cur[p] = None => Due(p) = {}
    /\ ~foreign /\ Alive(p) => Due(p) \subseteq Range(Repaired(Settled(p, cur[p])))
    /\ ~foreign /\ phase[p] # "saving" /\ Stored(cur[p]) /\ ~(Alive(p) /\ Mine(p).dirty) =>
         Due(p) \subseteq Range(Repaired(file.msgs))

InFile(m)       == file # None /\ m \in Range(file.msgs)
InLive(q, t, m) == live[q][t] # None /\ m \in Range(live[q][t].msgs)

(* The order of a history: results behind their call, an input once.       *)
Orderly(h, n) ==
  /\ \A i \in DOMAIN h : h[i].id <= n
  /\ \A i \in DOMAIN h : h[i].role = "tool" => i > 1 /\ h[i - 1] = Msg("call", h[i].id)
  /\ \A i, j \in DOMAIN h : h[i] = h[j] /\ h[i].role \in {"user", "tool"} => i = j

(* The history ends with the one call that stands open.                    *)
EndsWith(h, c) == h # <<>> /\ h[Len(h)] = c /\ Cut(h) = {Len(h)}

(* What a turn is going to say is nowhere yet, and its call is where the   *)
(* results will go: at the end of its own history, or of the file.         *)
OrderOf(p) ==
  LET call == Msg("call", req[p].id) IN
  /\ phase[p] = "streaming" => Cut(Mine(p).msgs) = {}
  /\ Waiting(p) \/ phase[p] \in {"retry", "streaming"} =>
       /\ ~InFile(First(req[p]))
       /\ \A q \in Procs, t \in Threads :
            (phase[p] = "streaming" => q # p \/ t # cur[p]) => ~InLive(q, t, First(req[p]))
  /\ Waiting(p) \/ (phase[p] = "streaming" /\ req[p].kind = "tools") =>
       /\ InFile(call) => EndsWith(file.msgs, call)
       /\ \A q \in Procs, t \in Threads : InLive(q, t, call) => q = p /\ t = cur[p]
  /\ Waiting(p) /\ Alive(p) /\ InLive(p, cur[p], call) => EndsWith(Mine(p).msgs, call)

OrderInv ==
  /\ file # None => Orderly(file.msgs, ids)
  /\ \A q \in Procs, t \in Threads : live[q][t] # None => Orderly(live[q][t].msgs, ids)
  /\ \A p \in Procs : OrderOf(p)

IInv ==
  /\ Types /\ TurnInv /\ RevInv /\ MintInv /\ PrivateInv /\ KeptInv
  /\ (~foreign => OrderInv)

----------------------------------------------------------------------------
(* Histories.                                                              *)

(* A non-empty set of naturals has a least element, and Min finds it.      *)
LEMMA Least ==
  ASSUME NEW S \in SUBSET Nat, S # {}
  PROVE  Min(S) \in S /\ \A n \in S : Min(S) <= n
<1>1. PICK m \in S : \A n \in S : ~(<<n, m>> \in OpToRel(<, Nat))
  BY NatLessThanWellFounded, WFMin
<1>2. ASSUME NEW n \in S PROVE m <= n
  <2>0. m \in Nat /\ n \in Nat
    OBVIOUS
  <2>1. n < m => <<n, m>> \in OpToRel(<, Nat)
    BY <2>0 DEF OpToRel
  <2>2. ~(n < m)
    BY <1>1, <2>1
  <2> QED
    BY <2>0, <2>2
<1> QED
  BY <1>2 DEF Min

LEMMA PrefixIs ==
  ASSUME NEW a \in Seq(Message), NEW b \in Seq(Message)
  PROVE  IsPrefixOf(a, b) <=> Len(a) <= Len(b) /\ \A i \in 1..Len(a) : a[i] = b[i]
<1>1. CASE Len(a) <= Len(b)
  <2>1. /\ SubSeq(b, 1, Len(a)) \in Seq(Message) /\ Len(SubSeq(b, 1, Len(a))) = Len(a)
        /\ \A i \in 1..Len(a) : SubSeq(b, 1, Len(a))[i] = b[i]
    BY <1>1
  <2> QED
    BY <2>1 DEF IsPrefixOf
<1> QED
  BY <1>1 DEF IsPrefixOf

LEMMA PrefixTrans ==
  ASSUME NEW a \in Seq(Message), NEW b \in Seq(Message), NEW c \in Seq(Message),
         IsPrefixOf(a, b), IsPrefixOf(b, c)
  PROVE  IsPrefixOf(a, c)
BY PrefixIs

LEMMA PrefixRange ==
  ASSUME NEW a \in Seq(Message), NEW b \in Seq(Message), IsPrefixOf(a, b)
  PROVE  Range(a) \subseteq Range(b)
<1>1. \A i \in DOMAIN a : i \in DOMAIN b /\ a[i] = b[i]
  BY PrefixIs
<1> QED
  BY <1>1 DEF Range

LEMMA PrefixSelf ==
  ASSUME NEW a \in Seq(Message)
  PROVE  IsPrefixOf(a, a)
BY PrefixIs

(* A message and the two shapes in which a turn lengthens a history.       *)
LEMMA Longer ==
  ASSUME NEW h \in Seq(Message), NEW x \in Seq(Message)
  PROVE  /\ h \o x \in Seq(Message) /\ IsPrefixOf(h, h \o x)
         /\ Range(h \o x) = Range(h) \cup Range(x)
<1>1. /\ h \o x \in Seq(Message) /\ Len(h \o x) = Len(h) + Len(x)
      /\ \A i \in 1..Len(h) : (h \o x)[i] = h[i]
      /\ \A i \in 1..Len(x) : (h \o x)[Len(h) + i] = x[i]
      /\ \A i \in Len(h) + 1..Len(h) + Len(x) : (h \o x)[i] = x[i - Len(h)]
  OBVIOUS
<1>2. IsPrefixOf(h, h \o x)
  <2>1. Len(h) \in Nat /\ Len(x) \in Nat /\ Len(h) <= Len(h \o x)
    BY <1>1
  <2> QED
    BY <1>1, <2>1, PrefixIs
<1>3. Range(h \o x) \subseteq Range(h) \cup Range(x)
  <2> SUFFICES ASSUME NEW i \in DOMAIN (h \o x) PROVE (h \o x)[i] \in Range(h) \cup Range(x)
    BY DEF Range
  <2>1. i \in 1..Len(h) \/ (i \in Len(h) + 1..Len(h) + Len(x) /\ i - Len(h) \in 1..Len(x))
    BY <1>1
  <2> QED
    BY <1>1, <2>1 DEF Range
<1>4. Range(x) \subseteq Range(h \o x)
  <2> SUFFICES ASSUME NEW i \in DOMAIN x PROVE x[i] \in Range(h \o x)
    BY DEF Range
  <2>1. Len(h) + i \in DOMAIN (h \o x) /\ (h \o x)[Len(h) + i] = x[i]
    BY <1>1
  <2> QED
    BY <2>1 DEF Range
<1> QED
  BY <1>1, <1>2, <1>3, <1>4, PrefixRange

LEMMA Pushed ==
  ASSUME NEW h \in Seq(Message), NEW m \in Message
  PROVE  /\ Append(h, m) \in Seq(Message) /\ IsPrefixOf(h, Append(h, m))
         /\ Range(Append(h, m)) = Range(h) \cup {m}
         /\ Len(Append(h, m)) = Len(h) + 1 /\ Append(h, m)[Len(h) + 1] = m
         /\ SubSeq(Append(h, m), 1, Len(h)) = h
         /\ \A i \in DOMAIN h : Append(h, m)[i] = h[i]
<1>1. <<m>> \in Seq(Message) /\ Append(h, m) = h \o <<m>> /\ Range(<<m>>) = {m}
  BY DEF Range
<1>2. /\ Append(h, m) \in Seq(Message) /\ Len(Append(h, m)) = Len(h) + 1
      /\ Append(h, m)[Len(h) + 1] = m
      /\ \A i \in DOMAIN h : Append(h, m)[i] = h[i]
  OBVIOUS
<1>3. SubSeq(Append(h, m), 1, Len(h)) = h
  OBVIOUS
<1>4. IsPrefixOf(h, Append(h, m)) /\ Range(Append(h, m)) = Range(h) \cup {m}
  BY <1>1, Longer
<1> QED
  BY <1>2, <1>3, <1>4

LEMMA Front ==
  ASSUME NEW h \in Seq(Message), NEW n \in 0..Len(h)
  PROVE  /\ SubSeq(h, 1, n) \in Seq(Message) /\ Len(SubSeq(h, 1, n)) = n
         /\ \A i \in 1..n : SubSeq(h, 1, n)[i] = h[i]
         /\ IsPrefixOf(SubSeq(h, 1, n), h)
         /\ Range(SubSeq(h, 1, n)) \subseteq Range(h)
<1>1. /\ SubSeq(h, 1, n) \in Seq(Message) /\ Len(SubSeq(h, 1, n)) = n
      /\ \A i \in 1..n : SubSeq(h, 1, n)[i] = h[i]
  OBVIOUS
<1>2. n \in Nat /\ Len(h) \in Nat /\ n <= Len(h)
  OBVIOUS
<1>3. IsPrefixOf(SubSeq(h, 1, n), h)
  BY <1>1, <1>2, PrefixIs
<1> QED
  BY <1>1, <1>3, PrefixRange

(* What repairInterruptedToolTurn leaves: the longest part in front that   *)
(* has every call answered.                                                *)
LEMMA RepairedIs ==
  ASSUME NEW h \in Seq(Message)
  PROVE  /\ Repaired(h) \in Seq(Message) /\ IsPrefixOf(Repaired(h), h)
         /\ Cut(Repaired(h)) = {}
         /\ Cut(h) = {} => Repaired(h) = h
<1>1. CASE Cut(h) = {}
  BY <1>1, PrefixSelf DEF Repaired
<1>2. CASE Cut(h) # {}
  <2> DEFINE k == Min(Cut(h))
             r == SubSeq(h, 1, k - 1)
  <2>1. Cut(h) \in SUBSET Nat
    BY DEF Cut
  <2>2. k \in Cut(h) /\ \A n \in Cut(h) : k <= n
    BY <1>2, <2>1, Least
  <2>3. k \in 1..Len(h) /\ k - 1 \in 0..Len(h) /\ h[k].role = "call"
    BY <2>2 DEF Cut
  <2>4. /\ r \in Seq(Message) /\ Len(r) = k - 1 /\ IsPrefixOf(r, h)
        /\ \A i \in 1..(k - 1) : r[i] = h[i]
    BY <2>3, Front
  <2>5. Cut(r) = {}
    <3> SUFFICES ASSUME NEW i \in Cut(r) PROVE FALSE
      OBVIOUS
    <3>1. /\ i \in 1..(k - 1) /\ r[i] = h[i] /\ h[i].role = "call"
          /\ i = k - 1 \/ r[i + 1] # Msg("tool", h[i].id)
      BY <2>4 DEF Cut
    <3>2. i \in DOMAIN h /\ i + 1 \in DOMAIN h /\ i # Len(h)
      BY <3>1, <2>3
    <3>3. i \notin Cut(h)
      BY <3>1, <2>2, <2>3
    <3>4. h[i + 1] = Msg("tool", h[i].id)
      BY <3>1, <3>2, <3>3 DEF Cut
    <3>5. i + 1 # k
      BY <3>4, <2>3 DEF Msg
    <3>6. i + 1 \in 1..(k - 1)
      BY <3>1, <3>5, <2>3
    <3> QED
      BY <3>1, <3>4, <3>5, <3>6, <2>4, <2>3
  <2> QED
    BY <1>2, <2>4, <2>5 DEF Repaired
<1> QED
  BY <1>1, <1>2

LEMMA RepairedKeeps ==
  ASSUME NEW a \in Seq(Message), NEW h \in Seq(Message), Cut(a) = {}, IsPrefixOf(a, h)
  PROVE  IsPrefixOf(a, Repaired(h))
<1>1. CASE Cut(h) = {}
  BY <1>1 DEF Repaired
<1>2. CASE Cut(h) # {}
  <2> DEFINE k == Min(Cut(h))
  <2>1. Cut(h) \in SUBSET Nat
    BY DEF Cut
  <2>2. k \in Cut(h)
    BY <1>2, <2>1, Least
  <2>3. k \in 1..Len(h) /\ k - 1 \in 0..Len(h)
    BY <2>2 DEF Cut
  <2>4. ASSUME k <= Len(a) PROVE FALSE
    <3>1. k \in DOMAIN a /\ a[k] = h[k] /\ Len(a) <= Len(h)
      BY <2>3, <2>4, PrefixIs
    <3>2. k # Len(a) /\ a[k + 1] = Msg("tool", a[k].id)
      BY <3>1, <2>2 DEF Cut
    <3>3. k + 1 \in 1..Len(a) /\ a[k + 1] = h[k + 1]
      BY <3>1, <3>2, <2>4, PrefixIs
    <3> QED
      BY <3>1, <3>2, <3>3, <2>2, <2>4 DEF Cut
  <2>5. Len(a) <= k - 1
    BY <2>3, <2>4
  <2>6. /\ SubSeq(h, 1, k - 1) \in Seq(Message) /\ Len(SubSeq(h, 1, k - 1)) = k - 1
        /\ \A i \in 1..(k - 1) : SubSeq(h, 1, k - 1)[i] = h[i]
    BY <2>3, Front
  <2>7. Len(a) \in Nat /\ \A i \in 1..Len(a) : a[i] = h[i] /\ i \in 1..(k - 1)
    BY <2>5, <2>3, PrefixIs
  <2> QED
    BY <1>2, <2>5, <2>6, <2>7, PrefixIs DEF Repaired
<1> QED
  BY <1>1, <1>2

(* Calls answered and calls that stand open, in a longer history.          *)
LEMMA CutPushed ==
  ASSUME NEW h \in Seq(Message), NEW m \in Message
  PROVE  /\ m.role # "call" /\ Cut(h) = {} => Cut(Append(h, m)) = {}
         /\ m.role = "call" /\ Cut(h) = {} => EndsWith(Append(h, m), m)
         /\ m.role = "tool" /\ EndsWith(h, Msg("call", m.id)) => Cut(Append(h, m)) = {}
<1> DEFINE g == Append(h, m)
<1>1. /\ g \in Seq(Message) /\ Len(g) = Len(h) + 1 /\ DOMAIN g = 1..(Len(h) + 1)
      /\ g[Len(h) + 1] = m /\ \A i \in 1..Len(h) : g[i] = h[i]
  BY Pushed
<1>2. DOMAIN h = 1..Len(h) /\ Len(h) \in Nat
  OBVIOUS
<1>3. \A i \in Cut(g) : i \in Cut(h) \/ i = Len(h) + 1
  <2> SUFFICES ASSUME NEW i \in Cut(g), i # Len(h) + 1 PROVE i \in Cut(h)
    OBVIOUS
  <2>1. i \in 1..Len(h) /\ g[i] = h[i] /\ h[i].role = "call"
    BY <1>1, <1>2 DEF Cut
  <2>2. CASE i = Len(h)
    BY <2>1, <2>2, <1>2 DEF Cut
  <2>3. CASE i # Len(h)
    <3>0. i + 1 \in 1..Len(h)
      <4>1. \A n \in Nat : \A j \in 1..n : j # n => j + 1 \in 1..n
        OBVIOUS
      <4> QED
        BY <4>1, <2>1, <2>3, <1>2
    <3>1. i + 1 \in 1..Len(h) /\ g[i + 1] = h[i + 1]
      BY <3>0, <1>1
    <3>2. i # Len(g)
      BY <2>1, <1>1, <1>2
    <3> QED
      BY <2>1, <3>1, <3>2 DEF Cut
  <2> QED
    BY <2>2, <2>3
<1>4. Len(h) + 1 \in Cut(g) <=> m.role = "call"
  BY <1>1, <1>2 DEF Cut
<1>5. m.role # "call" /\ Cut(h) = {} => Cut(g) = {}
  BY <1>3, <1>4
<1>6. m.role = "call" /\ Cut(h) = {} => EndsWith(g, m)
  <2>1. m.role = "call" /\ Cut(h) = {} => Cut(g) = {Len(h) + 1}
    BY <1>3, <1>4
  <2>2. g # <<>>
    OBVIOUS
  <2> QED
    BY <1>1, <2>1, <2>2 DEF EndsWith
<1>7. ASSUME m.role = "tool", EndsWith(h, Msg("call", m.id)) PROVE Cut(g) = {}
  <2>1. Len(h) \in 1..Len(h) /\ h[Len(h)] = Msg("call", m.id) /\ Cut(h) = {Len(h)}
    BY <1>7, <1>2 DEF EndsWith
  <2>2. m = Msg("tool", m.id)
    BY <1>7 DEF Message, Msg
  <2>3. Len(h) \notin Cut(g)
    <3>0. Msg("call", m.id).id = m.id
      BY DEF Msg
    <3>1. g[Len(h)] = Msg("call", m.id) /\ g[Len(h)].id = m.id
      BY <2>1, <1>1, <3>0
    <3>3. Len(h) # Len(g)
      <4>1. \A n \in Nat : n # n + 1
        OBVIOUS
      <4> HIDE DEF g
      <4> QED
        BY <4>1, <1>1, <1>2
    <3>2. g[Len(h) + 1] = Msg("tool", g[Len(h)].id)
      BY <3>1, <2>2, <1>1
    <3> QED
      BY <3>1, <3>2, <3>3 DEF Cut
  <2> QED
    BY <1>3, <1>4, <1>7, <2>1, <2>3
<1> QED
  BY <1>5, <1>6, <1>7

(* Without its results, a history whose calls were answered stands open.   *)
LEMMA CutPopped ==
  ASSUME NEW h \in Seq(Message), NEW n0 \in Nat, h # <<>>, Cut(h) = {}, Orderly(h, n0)
  PROVE  LET g == SubSeq(h, 1, Len(h) - 1)
             m == h[Len(h)]
         IN  /\ m.role # "tool" => Cut(g) = {}
             /\ m.role = "tool" => EndsWith(g, Msg("call", m.id))
<1> DEFINE n == Len(h) - 1
           g == SubSeq(h, 1, n)
           m == h[Len(h)]
<1>1. n \in 0..Len(h) /\ Len(h) = n + 1 /\ n \in Nat /\ m = h[n + 1]
  OBVIOUS
<1>2. g \in Seq(Message) /\ Len(g) = n /\ \A i \in 1..n : g[i] = h[i]
  BY <1>1, Front
<1>3. \A i \in Cut(g) : i = n /\ h[n].role = "call" /\ m = Msg("tool", h[n].id) /\ n \in 1..n
  <2> SUFFICES ASSUME NEW i \in Cut(g)
               PROVE  i = n /\ h[n].role = "call" /\ m = Msg("tool", h[n].id) /\ n \in 1..n
    OBVIOUS
  <2>1. i \in 1..n /\ g[i] = h[i] /\ h[i].role = "call" /\ i \in DOMAIN h /\ i # Len(h)
    BY <1>1, <1>2 DEF Cut
  <2>2. h[i + 1] = Msg("tool", h[i].id)
    BY <2>1 DEF Cut
  <2>3. i # n => i + 1 \in 1..n /\ g[i + 1] = h[i + 1]
    <3>1. \A k \in Nat : \A j \in 1..k : j # k => j + 1 \in 1..k
      OBVIOUS
    <3> QED
      BY <3>1, <2>1, <1>2, <1>1
  <2>4. i = n
    BY <2>1, <2>2, <2>3, <1>2 DEF Cut
  <2> QED
    BY <2>1, <2>2, <2>4, <1>1
<1>4. m.role # "tool" => Cut(g) = {}
  BY <1>3 DEF Msg
<1>5. ASSUME m.role = "tool" PROVE EndsWith(g, Msg("call", m.id))
  <2>1. n + 1 > 1 /\ h[n] = Msg("call", m.id)
    <3>1. n + 1 \in DOMAIN h /\ n + 1 - 1 = n
      BY <1>1
    <3> QED
      BY <3>1, <1>5, <1>1 DEF Orderly
  <2>2. n \in 1..n /\ g # <<>>
    <3>1. n \in 1..n
      BY <2>1, <1>1
    <3>2. Len(g) # 0
      BY <3>1, <1>2
    <3>3. g # <<>>
      <4>1. \A x \in Seq(Message) : Len(x) # 0 => x # <<>>
        OBVIOUS
      <4> QED
        BY <4>1, <1>2, <3>2
    <3> QED
      BY <3>1, <3>3
  <2>3. n \in Cut(g)
    BY <2>1, <2>2, <1>2 DEF Cut, Msg
  <2> QED
    BY <2>1, <2>2, <2>3, <1>2, <1>3 DEF EndsWith
<1> QED
  BY <1>4, <1>5

(* What a history that is in order stays when it is cut off or lengthened. *)
LEMMA OrderlyFront ==
  ASSUME NEW a \in Seq(Message), NEW h \in Seq(Message), NEW n \in Nat, NEW k \in Nat,
         n <= k, IsPrefixOf(a, h), Orderly(h, n)
  PROVE  Orderly(a, k)
<1>1. Len(a) <= Len(h) /\ \A i \in DOMAIN a : i \in DOMAIN h /\ a[i] = h[i] /\ a[i].id \in Nat
  <2>1. \A i \in DOMAIN a : i \in DOMAIN h /\ a[i] = h[i]
    BY PrefixIs
  <2>2. \A i \in DOMAIN a : a[i] \in Message
    OBVIOUS
  <2> QED
    BY <2>1, <2>2, PrefixIs DEF Message
<1>2. \A i \in DOMAIN a : a[i].id <= k
  <2>1. ASSUME NEW i \in DOMAIN a PROVE a[i].id <= k
    <3>1. a[i].id \in Nat /\ a[i].id <= n
      BY <1>1 DEF Orderly
    <3> QED
      BY <3>1
  <2> QED
    BY <2>1
<1>3. \A i \in DOMAIN a : a[i].role = "tool" => i > 1 /\ a[i - 1] = Msg("call", a[i].id)
  <2> SUFFICES ASSUME NEW i \in DOMAIN a, a[i].role = "tool"
               PROVE  i > 1 /\ a[i - 1] = Msg("call", a[i].id)
    OBVIOUS
  <2>1. i \in 1..Len(a) /\ i > 1 /\ h[i - 1] = Msg("call", a[i].id)
    BY <1>1 DEF Orderly
  <2>2. i - 1 \in DOMAIN a
    BY <2>1
  <2> QED
    BY <2>1, <2>2, <1>1
<1>4. \A i, j \in DOMAIN a : a[i] = a[j] /\ a[i].role \in {"user", "tool"} => i = j
  BY <1>1 DEF Orderly
<1> QED
  BY <1>2, <1>3, <1>4 DEF Orderly

LEMMA OrderlyPushed ==
  ASSUME NEW h \in Seq(Message), NEW m \in Message, NEW n \in Nat, Orderly(h, n), m.id <= n,
         m.role \in {"user", "tool"} => m \notin Range(h),
         m.role = "tool" => EndsWith(h, Msg("call", m.id))
  PROVE  Orderly(Append(h, m), n)
<1> DEFINE g == Append(h, m)
<1>1. /\ g \in Seq(Message) /\ DOMAIN g = DOMAIN h \cup {Len(h) + 1} /\ g[Len(h) + 1] = m
      /\ \A i \in DOMAIN h : g[i] = h[i]
      /\ DOMAIN h = 1..Len(h) /\ Len(h) \in Nat
  BY Pushed
<1> HIDE DEF g
<1>2. \A i \in DOMAIN g : g[i].id <= n
  BY <1>1 DEF Orderly
<1>3. \A i \in DOMAIN g : g[i].role = "tool" => i > 1 /\ g[i - 1] = Msg("call", g[i].id)
  <2>1. ASSUME NEW i \in DOMAIN h, g[i].role = "tool"
        PROVE  i > 1 /\ g[i - 1] = Msg("call", g[i].id)
    <3>1. i > 1 /\ h[i - 1] = Msg("call", g[i].id) /\ i \in 1..Len(h)
      BY <2>1, <1>1 DEF Orderly
    <3>2. i - 1 \in 1..Len(h)
      BY <3>1, <1>1
    <3> QED
      BY <3>1, <3>2, <1>1
  <2>2. ASSUME m.role = "tool" PROVE Len(h) + 1 > 1 /\ g[Len(h) + 1 - 1] = Msg("call", m.id)
    <3>1. Len(h) \in DOMAIN h /\ h[Len(h)] = Msg("call", m.id)
      BY <2>2, <1>1 DEF EndsWith
    <3>2. Len(h) + 1 > 1 /\ Len(h) + 1 - 1 = Len(h)
      BY <3>1, <1>1
    <3> QED
      BY <3>1, <3>2, <1>1
  <2> SUFFICES ASSUME NEW i \in DOMAIN g, g[i].role = "tool"
               PROVE  i > 1 /\ g[i - 1] = Msg("call", g[i].id)
    OBVIOUS
  <2>3. CASE i \in DOMAIN h
    BY <2>1, <2>3
  <2>4. CASE i = Len(h) + 1
    <3>1. g[i] = m /\ m.role = "tool"
      BY <2>4, <1>1
    <3>2. i > 1 /\ g[i - 1] = Msg("call", m.id)
      BY <3>1, <2>2, <2>4
    <3> QED
      BY <3>1, <3>2
  <2> QED
    BY <2>3, <2>4, <1>1
<1>4. \A i, j \in DOMAIN g : g[i] = g[j] /\ g[i].role \in {"user", "tool"} => i = j
  <2>1. \A i \in DOMAIN h : h[i] \in Range(h)
    BY DEF Range
  <2> QED
    BY <2>1, <1>1 DEF Orderly
<1> QED
  BY <1>2, <1>3, <1>4 DEF Orderly, g

(* The call that stands open is not in what the repair leaves.             *)
LEMMA OpenIsCut ==
  ASSUME NEW h \in Seq(Message), NEW n \in Nat, EndsWith(h, Msg("call", n)),
         Msg("tool", n) \notin Range(h)
  PROVE  Msg("call", n) \notin Range(Repaired(h))
<1> SUFFICES ASSUME NEW i \in DOMAIN Repaired(h), Repaired(h)[i] = Msg("call", n) PROVE FALSE
  BY DEF Range
<1> DEFINE r == Repaired(h)
<1>1. r \in Seq(Message) /\ IsPrefixOf(r, h) /\ Cut(r) = {}
  BY RepairedIs
<1>2. i \in 1..Len(r) /\ Msg("call", n).role = "call" /\ Msg("call", n).id = n
  BY <1>1 DEF Msg
<1>3. i # Len(r) /\ r[i + 1] = Msg("tool", n)
  BY <1>1, <1>2 DEF Cut
<1>4. i + 1 \in 1..Len(r)
  <2>1. \A k \in Nat : \A j \in 1..k : j # k => j + 1 \in 1..k
    OBVIOUS
  <2> QED
    BY <2>1, <1>1, <1>2, <1>3
<1>5. i + 1 \in DOMAIN h /\ h[i + 1] = Msg("tool", n)
  BY <1>1, <1>3, <1>4, PrefixIs
<1> QED
  BY <1>5 DEF Range
----------------------------------------------------------------------------
(* Types, and what a step of one process leaves alone.                     *)

Step(p) ==
  \/ Resume(p) \/ Compact(p) \/ Evict(p) \/ Crash(p)
  \/ Send(p) \/ (\E t \in Threads : SendFirst(p, t)) \/ Refused(p) \/ Abort(p)
  \/ Completed(p) \/ RequiresAction(p) \/ Interrupted(p) \/ Fails(p)
  \/ Retry(p) \/ RetryAborted(p) \/ NotificationCancelled(p) \/ Unknown(p)
  \/ Submits(p) \/ ToolsCancelled(p) \/ ToolsFail(p)
  \/ Save(p) \/ SaveFails(p)

Same(q) == /\ live'[q] = live[q] /\ cur'[q] = cur[q] /\ phase'[q] = phase[q]
           /\ req'[q] = req[q] /\ Due(q)' = Due(q)

LEMMA Writing ==
  ASSUME NEW p \in Procs, NEW t \in Threads, NEW l \in Held \cup {None},
         live \in [Procs -> [Threads -> Held \cup {None}]], Has(p, t, l)
  PROVE  /\ live' \in [Procs -> [Threads -> Held \cup {None}]]
         /\ live'[p][t] = l
         /\ \A u \in Threads \ {t} : live'[p][u] = live[p][u]
         /\ \A q \in Procs \ {p} : live'[q] = live[q]
BY DEF Has

LEMMA Records ==
  ASSUME NEW l \in Held, NEW h \in Seq(Message)
  PROVE  /\ [l EXCEPT !.msgs = h] \in Held /\ [l EXCEPT !.msgs = h].msgs = h
         /\ [l EXCEPT !.msgs = h].rev = l.rev /\ [l EXCEPT !.msgs = h].dirty = l.dirty
         /\ [l EXCEPT !.msgs = h].replaces = l.replaces
         /\ l.rev \in Nat /\ l.msgs \in Seq(Message) /\ l.dirty \in BOOLEAN
         /\ l.replaces \in Threads \cup {None}
BY DEF Held

LEMMA MsgIs ==
  ASSUME NEW n \in Nat, NEW role \in {"user", "text", "call", "tool", "stop"}
  PROVE  Msg(role, n) \in Message /\ Msg(role, n).role = role /\ Msg(role, n).id = n
BY DEF Msg, Message

(* What a process holds of its conversation, or loads.                     *)
LEMMA HoldsIs ==
  ASSUME Types, NEW p \in Procs
  PROVE  /\ Alive(p) => cur[p] \in Threads /\ Mine(p) \in Held
         /\ MayHold(p) => /\ cur[p] \in Threads /\ (~Alive(p) => Stored(cur[p]))
                          /\ \A h \in Seq(Message) : HeldOr(p, h) \in Held
                          /\ \A h \in Seq(Message) : ~Alive(p) => HeldOr(p, h).msgs = h
                          /\ \A h \in Seq(Message) : Alive(p) => HeldOr(p, h) = Mine(p)
         /\ file # None => /\ file \in Saved /\ file.thread \in Threads /\ file.rev \in Nat
                           /\ file.msgs \in Seq(Message) /\ Repaired(file.msgs) \in Seq(Message)
                           /\ \A h \in Seq(Message) : Loaded(h) \in Held
         /\ Rev \in Nat
<1>1. Alive(p) => cur[p] \in Threads /\ Mine(p) \in Held
  BY DEF Types, Alive, Mine
<1>2. ASSUME file # None
      PROVE  /\ file \in Saved /\ file.thread \in Threads /\ file.rev \in Nat
             /\ file.msgs \in Seq(Message)
  BY <1>2 DEF Types, Saved
<1>3. ASSUME file # None, NEW h \in Seq(Message)
      PROVE  Loaded(h) \in Held /\ Loaded(h).msgs = h
  BY <1>2, <1>3 DEF Loaded, Held
<1>4. Rev \in Nat
  BY <1>2 DEF Rev
<1>5. MayHold(p) => /\ cur[p] \in Threads /\ (~Alive(p) => Stored(cur[p]))
                    /\ \A h \in Seq(Message) : HeldOr(p, h) \in Held
                    /\ \A h \in Seq(Message) : ~Alive(p) => HeldOr(p, h).msgs = h
                    /\ \A h \in Seq(Message) : Alive(p) => HeldOr(p, h) = Mine(p)
  BY <1>1, <1>3 DEF MayHold, HeldOr, Stored, Types
<1> QED
  BY <1>1, <1>2, <1>3, <1>4, <1>5, RepairedIs
LEMMA ReqIs ==
  ASSUME NEW r \in Requests, NEW n \in Nat
  PROVE  /\ [r EXCEPT !.base = n] \in Requests /\ [r EXCEPT !.tries = @ + 1] \in Requests
         /\ \A a \in {"idle", "tools"} : [r EXCEPT !.after = a] \in Requests
         /\ [r EXCEPT !.kind = "tools", !.id = n, !.tries = 0, !.after = "tools"] \in Requests
         /\ [NoReq EXCEPT !.id = n, !.input = n] \in Requests /\ NoReq \in Requests
         /\ Msg("user", r.id) \in Message /\ Msg("tool", r.id) \in Message
         /\ Msg("text", r.input) \in Message /\ Msg("stop", r.input) \in Message
         /\ First(r) \in Message
<1>1. [r EXCEPT !.base = n] \in Requests
  BY DEF Requests
<1>2. [r EXCEPT !.tries = @ + 1] \in Requests
  BY DEF Requests
<1>3. \A a \in {"idle", "tools"} : [r EXCEPT !.after = a] \in Requests
  BY DEF Requests
<1>4. [r EXCEPT !.kind = "tools", !.id = n, !.tries = 0, !.after = "tools"] \in Requests
  BY DEF Requests
<1>5. NoReq \in Requests
  BY DEF NoReq, Requests
<1>6. [NoReq EXCEPT !.id = n, !.input = n] \in Requests
  BY <1>5 DEF Requests
<1>7. r.id \in Nat /\ r.input \in Nat
  BY DEF Requests
<1>8. /\ Msg("user", r.id) \in Message /\ Msg("tool", r.id) \in Message
      /\ Msg("text", r.input) \in Message /\ Msg("stop", r.input) \in Message
  BY <1>7, MsgIs
<1> QED
  BY <1>1, <1>2, <1>3, <1>4, <1>5, <1>6, <1>8 DEF First

(* The parts of a step that its actions share.                             *)
LEMMA StreamsTypes ==
  ASSUME Types, NEW p \in Procs, NEW t \in Threads, NEW l \in Held, NEW r \in Requests,
         NEW m \in Message, Streams(p, t, l, r, m)
  PROVE  /\ live' \in [Procs -> [Threads -> Held \cup {None}]]
         /\ phase' \in [Procs -> Phases] /\ req' \in [Procs -> Requests]
         /\ live'[p][t] # None /\ live'[p][t] \in Held
         /\ live'[p][t].msgs = Append(l.msgs, m) /\ live'[p][t].rev = l.rev
         /\ live'[p][t].dirty = l.dirty /\ live'[p][t].replaces = l.replaces
         /\ \A u \in Threads \ {t} : live'[p][u] = live[p][u]
         /\ phase'[p] = "streaming" /\ req'[p].base = Len(l.msgs)
         /\ req'[p].id = r.id /\ req'[p].kind = r.kind /\ req'[p].input = r.input
         /\ \A q \in Procs \ {p} : live'[q] = live[q] /\ phase'[q] = phase[q] /\ req'[q] = req[q]
<1> DEFINE g == Append(l.msgs, m)
           k == [l EXCEPT !.msgs = g]
<1>0. g \in Seq(Message) /\ l.msgs \in Seq(Message)
  <2>1. l.msgs \in Seq(Message)
    BY DEF Held
  <2> QED
    BY <2>1, Pushed
<1>1. /\ g \in Seq(Message) /\ k \in Held /\ k.msgs = g /\ k.rev = l.rev
      /\ k.dirty = l.dirty /\ k.replaces = l.replaces
      /\ [l EXCEPT !.msgs = Append(@, m)] = k /\ l.msgs \in Seq(Message)
  BY <1>0, Records
<1>2. Has(p, t, k)
  BY <1>1 DEF Streams
<1>3. k # None
  BY <1>1, ByokAssumption
<1>4. /\ live' \in [Procs -> [Threads -> Held \cup {None}]] /\ live'[p][t] = k
      /\ \A u \in Threads \ {t} : live'[p][u] = live[p][u]
      /\ \A q \in Procs \ {p} : live'[q] = live[q]
  BY <1>1, <1>2, Writing DEF Types
<1>5. Len(l.msgs) \in Nat /\ [r EXCEPT !.base = Len(l.msgs)] \in Requests
  <2>1. Len(l.msgs) \in Nat
    BY <1>1
  <2> QED
    BY <2>1, ReqIs
<1>6. /\ req' \in [Procs -> Requests] /\ req'[p] = [r EXCEPT !.base = Len(l.msgs)]
      /\ \A q \in Procs \ {p} : req'[q] = req[q]
  BY <1>5 DEF Streams, Types
<1>7. /\ phase' \in [Procs -> Phases] /\ phase'[p] = "streaming"
      /\ \A q \in Procs \ {p} : phase'[q] = phase[q]
  BY DEF Streams, Goes, Types, Phases
<1>8. req'[p].base = Len(l.msgs) /\ req'[p].id = r.id /\ req'[p].kind = r.kind
      /\ req'[p].input = r.input
  BY <1>6 DEF Requests
<1> QED
  BY <1>1, <1>3, <1>4, <1>6, <1>7, <1>8

LEMMA KeepsTypes ==
  ASSUME Types, NEW p \in Procs, cur[p] \in Threads, NEW l \in Held, NEW x \in Seq(Message),
         NEW next \in {"idle", "tools"}, Keeps(p, l, x, next)
  PROVE  /\ live' \in [Procs -> [Threads -> Held \cup {None}]]
         /\ phase' \in [Procs -> Phases] /\ req' \in [Procs -> Requests]
         /\ live'[p][cur[p]] # None /\ live'[p][cur[p]] \in Held
         /\ live'[p][cur[p]].msgs = l.msgs \o x /\ live'[p][cur[p]].rev = l.rev
         /\ live'[p][cur[p]].dirty = l.dirty /\ live'[p][cur[p]].replaces = l.replaces
         /\ \A u \in Threads \ {cur[p]} : live'[p][u] = live[p][u]
         /\ phase'[p] = "saving" /\ req'[p].after = next /\ req'[p].id = req[p].id
         /\ req'[p].kind = req[p].kind /\ req'[p].input = req[p].input
         /\ \A q \in Procs \ {p} : live'[q] = live[q] /\ phase'[q] = phase[q] /\ req'[q] = req[q]
<1> DEFINE g == l.msgs \o x
           k == [l EXCEPT !.msgs = g]
<1>1. /\ g \in Seq(Message) /\ k \in Held /\ k.msgs = g /\ k.rev = l.rev
      /\ k.dirty = l.dirty /\ k.replaces = l.replaces
      /\ [l EXCEPT !.msgs = @ \o x] = k /\ l.msgs \in Seq(Message)
  BY Records, Longer
<1>2. Has(p, cur[p], k)
  BY <1>1 DEF Keeps
<1>3. k # None
  BY <1>1, ByokAssumption
<1>4. /\ live' \in [Procs -> [Threads -> Held \cup {None}]] /\ live'[p][cur[p]] = k
      /\ \A u \in Threads \ {cur[p]} : live'[p][u] = live[p][u]
      /\ \A q \in Procs \ {p} : live'[q] = live[q]
  BY <1>1, <1>2, Writing DEF Types
<1>5. req[p] \in Requests /\ [req[p] EXCEPT !.after = next] \in Requests
  BY ReqIs DEF Types
<1>6. /\ req' \in [Procs -> Requests] /\ req'[p] = [req[p] EXCEPT !.after = next]
      /\ \A q \in Procs \ {p} : req'[q] = req[q]
  BY <1>5 DEF Keeps, Types
<1>7. /\ phase' \in [Procs -> Phases] /\ phase'[p] = "saving"
      /\ \A q \in Procs \ {p} : phase'[q] = phase[q]
  BY DEF Keeps, Goes, Types, Phases
<1>8. req'[p].after = next /\ req'[p].id = req[p].id /\ req'[p].kind = req[p].kind
      /\ req'[p].input = req[p].input
  BY <1>5, <1>6 DEF Requests
<1> QED
  BY <1>1, <1>3, <1>4, <1>6, <1>7, <1>8

LEMMA HasTypes ==
  ASSUME Types, NEW p \in Procs, NEW t \in Threads, NEW l \in Held, NEW ph \in Phases,
         Has(p, t, l), Goes(p, ph)
  PROVE  /\ live' \in [Procs -> [Threads -> Held \cup {None}]]
         /\ phase' \in [Procs -> Phases] /\ phase'[p] = ph
         /\ live'[p][t] = l /\ live'[p][t] # None
         /\ \A u \in Threads \ {t} : live'[p][u] = live[p][u]
         /\ \A q \in Procs \ {p} : live'[q] = live[q] /\ phase'[q] = phase[q]
<1>1. l # None
  BY ByokAssumption
<1>2. /\ live' \in [Procs -> [Threads -> Held \cup {None}]] /\ live'[p][t] = l
      /\ \A u \in Threads \ {t} : live'[p][u] = live[p][u]
      /\ \A q \in Procs \ {p} : live'[q] = live[q]
  BY Writing DEF Types
<1> QED
  BY <1>1, <1>2 DEF Types, Goes
(* The histories that the actions start from.                              *)
LEMMA StartsTypes ==
  ASSUME Types, NEW p \in Procs, MayHold(p)
  PROVE  /\ HeldOr(p, file.msgs) \in Held /\ HeldOr(p, Repaired(file.msgs)) \in Held
         /\ Repair(HeldOr(p, file.msgs)) \in Held
         /\ Repair(HeldOr(p, Repaired(file.msgs))) \in Held
<1>1. ASSUME NEW l \in Held PROVE Repair(l) \in Held
  <2>1. l.msgs \in Seq(Message)
    BY DEF Held
  <2>2. Repaired(l.msgs) \in Seq(Message)
    BY <2>1, RepairedIs
  <2> QED
    BY <2>2, Records DEF Repair
<1>2. CASE Alive(p)
  BY <1>1, <1>2, HoldsIs DEF HeldOr
<1>3. CASE ~Alive(p)
  <2>1. file # None
    BY <1>3 DEF MayHold, Stored
  <2> QED
    BY <1>1, <2>1, HoldsIs
<1> QED
  BY <1>2, <1>3

LEMMA RolledBackTypes ==
  ASSUME Types, TurnInv, NEW p \in Procs, phase[p] = "streaming"
  PROVE  /\ RolledBack(p) \in Held /\ cur[p] \in Threads /\ Mine(p) \in Held
         /\ req[p].base \in Nat /\ Len(Mine(p).msgs) = req[p].base + 1
         /\ RolledBack(p).msgs = SubSeq(Mine(p).msgs, 1, req[p].base)
         /\ RolledBack(p).rev = Mine(p).rev /\ RolledBack(p).dirty = Mine(p).dirty
         /\ RolledBack(p).replaces = Mine(p).replaces
         /\ Mine(p).msgs \in Seq(Message)
<1>1. Alive(p) /\ Len(Mine(p).msgs) = req[p].base + 1
  BY DEF TurnInv
<1>2. cur[p] \in Threads /\ Mine(p) \in Held
  BY <1>1, HoldsIs
<1>3. req[p].base \in Nat
  BY DEF Types, Requests
<1>4. Mine(p).msgs \in Seq(Message)
  BY <1>2 DEF Held
<1>5. req[p].base \in 0..Len(Mine(p).msgs)
  BY <1>1, <1>3, <1>4
<1>6. SubSeq(Mine(p).msgs, 1, req[p].base) \in Seq(Message)
  BY <1>4, <1>5, Front
<1> QED
  BY <1>1, <1>2, <1>3, <1>4, <1>6, Records DEF RolledBack

LEMMA StepTypes ==
  ASSUME Types, TurnInv, NEW p \in Procs, Step(p)
  PROVE  Types' /\ \A q \in Procs \ {p} : Same(q)
<1> DEFINE T == /\ live' \in [Procs -> [Threads -> Held \cup {None}]]
                /\ phase' \in [Procs -> Phases] /\ req' \in [Procs -> Requests]
                /\ \A q \in Procs \ {p} :
                     live'[q] = live[q] /\ phase'[q] = phase[q] /\ req'[q] = req[q]
           A == /\ kept' \in [Procs -> SUBSET Message] /\ dropped' \subseteq Procs
                /\ \A q \in Procs \ {p} :
                     kept'[q] = kept[q] /\ (q \in dropped' <=> q \in dropped)
<1>a. /\ None \notin Threads /\ req[p] \in Requests /\ ids \in Nat /\ ids + 1 \in Nat
      /\ req[p].id \in Nat /\ req[p].input \in Nat /\ NewInput(p) \in Requests
      /\ \A ph \in Phases : Goes(p, ph) => /\ phase' \in [Procs -> Phases]
                                          /\ \A q \in Procs \ {p} : phase'[q] = phase[q]
  <2>1. req[p] \in Requests /\ ids + 1 \in Nat /\ ids \in Nat
    BY DEF Types
  <2>2. req[p].id \in Nat /\ req[p].input \in Nat
    BY <2>1 DEF Requests
  <2>3. NewInput(p) \in Requests
    BY <2>1, ReqIs DEF NewInput
  <2>4. \A ph \in Phases : Goes(p, ph) => /\ phase' \in [Procs -> Phases]
                                          /\ \A q \in Procs \ {p} : phase'[q] = phase[q]
    BY DEF Goes, Types
  <2> QED
    BY <2>1, <2>2, <2>3, <2>4, ByokAssumption
<1>b. ASSUME T,
             file' \in Saved \cup {None}, cur' \in [Procs -> Threads \cup {None}],
             replaced' \in [Procs -> Threads \cup {None}], aborted' \in [Procs -> BOOLEAN],
             ids' \in Nat, faults' \in Nat, losses' \in Nat, minted' \subseteq Threads,
             A, foreign' \in BOOLEAN, \A q \in Procs \ {p} : cur'[q] = cur[q]
      PROVE  Types' /\ \A q \in Procs \ {p} : Same(q)
  BY <1>b DEF Types, Same, Due
<1>g. /\ \A S \in SUBSET Message : Shows(p, S) => A
      /\ \A b : DropsIf(p, b) => A
      /\ UNCHANGED answers => A
  BY DEF Shows, DropsIf, answers, Types
<1> HIDE DEF T, A
<1>1. CASE Resume(p)
  <2>1. file.thread \in Threads /\ Loaded(Repaired(file.msgs)) \in Held
    BY <1>1, HoldsIs, RepairedIs DEF Resume
  <2>2. T
    <3>1. CASE UNCHANGED live
      BY <1>1, <1>a, <3>1 DEF Resume, ResumeUnless, T, Types, Phases
    <3>2. CASE Has(p, file.thread, Loaded(Repaired(file.msgs)))
      BY <1>1, <1>a, <2>1, <3>2, HasTypes DEF Resume, ResumeUnless, T, Types, Phases
    <3> QED
      BY <1>1, <3>1, <3>2 DEF Resume, ResumeUnless
  <2>3. A
    BY <1>1, <1>g DEF Resume, ResumeUnless
  <2> QED
    BY <1>1, <1>b, <1>g, <2>1, <2>2, <2>3 DEF Resume, ResumeUnless, Types, bounds
<1>2. CASE Compact(p)
  <2>1. T
    BY <1>2, <1>a DEF Compact, T, Types, turn
  <2> QED
    BY <1>2, <1>b, <1>g, <2>1 DEF Compact, Types, bounds, turn
<1>3. CASE Evict(p)
  <2>1. cur[p] \in Threads
    BY <1>3, HoldsIs DEF Evict
  <2>2. T
    BY <1>3, <2>1, Writing DEF Evict, T, Types, turn
  <2> QED
    BY <1>3, <1>b, <1>g, <2>2 DEF Evict, Types, turn
<1>4. CASE Crash(p)
  <2>1. T
    BY <1>4, <1>a, ReqIs DEF Crash, T, Types, Phases
  <2> QED
    BY <1>4, <1>b, <1>g, <2>1 DEF Crash, Types
<1>5. CASE Send(p)
  <2>1. Repair(HeldOr(p, file.msgs)) \in Held /\ cur[p] \in Threads
    BY <1>5, StartsTypes, HoldsIs DEF Send
  <2>2. Streams(p, cur[p], Repair(HeldOr(p, file.msgs)), NewInput(p), Msg("user", NewInput(p).id))
    BY <1>5 DEF Send, SendOver, MessageOver
  <2>3. T
    BY <2>1, <2>2, <1>a, ReqIs, StreamsTypes DEF T
  <2> QED
    BY <1>5, <1>a, <1>b, <1>g, <2>3 DEF Send, SendOver, Types, shown
<1>6. ASSUME NEW t \in Threads, SendFirst(p, t) PROVE Types' /\ \A q \in Procs \ {p} : Same(q)
  <2> DEFINE l == [rev |-> ReplacedRevision(p), msgs |-> <<>>, dirty |-> FALSE,
                   replaces |-> replaced[p]]
  <2>1. ReplacedRevision(p) \in Nat
    <3>1. CASE replaced[p] = None
      BY <3>1 DEF ReplacedRevision
    <3>2. CASE replaced[p] # None /\ live[p][replaced[p]] # None
      BY <3>2 DEF ReplacedRevision, Types, Held
    <3>3. CASE replaced[p] # None /\ live[p][replaced[p]] = None
      BY <3>3, <1>6, HoldsIs DEF SendFirst, Stored, ReplacedRevision
    <3> QED
      BY <3>1, <3>2, <3>3
  <2>2. l \in Held
    BY <2>1 DEF Held, Types
  <2>3. Streams(p, t, l, NewInput(p), Msg("user", ids + 1))
    BY <1>6 DEF SendFirst
  <2>4. T
    BY <2>2, <2>3, <1>a, MsgIs, StreamsTypes DEF T
  <2> QED
    BY <1>6, <1>a, <1>b, <1>g, <2>4 DEF SendFirst, Types, shown
<1>7. CASE Refused(p)
  <2> DEFINE l == HeldOr(p, Repaired(file.msgs))
             x == <<Msg("user", ids + 1), Msg("stop", ids + 1)>>
  <2>1. l \in Held /\ cur[p] \in Threads
    BY <1>7, StartsTypes, HoldsIs DEF Refused
  <2>2. x \in Seq(Message)
    BY <1>a, MsgIs
  <2>3. l.msgs \in Seq(Message)
    BY <2>1 DEF Held
  <2>4. l.msgs \o x \in Seq(Message)
    BY <2>2, <2>3
  <2>5. [l EXCEPT !.msgs = @ \o x] \in Held
    BY <2>1, <2>4, Records
  <2>6. Has(p, cur[p], [l EXCEPT !.msgs = @ \o x])
    BY <1>7 DEF Refused
  <2> HIDE DEF l, x
  <2>7. /\ live' \in [Procs -> [Threads -> Held \cup {None}]]
        /\ \A q \in Procs \ {p} : live'[q] = live[q]
    BY <2>1, <2>5, <2>6, Writing DEF Types
  <2>8. req' \in [Procs -> Requests] /\ \A q \in Procs \ {p} : req'[q] = req[q]
    BY <1>7, <1>a DEF Refused, Types
  <2>9. T
    BY <1>7, <1>a, <2>7, <2>8 DEF Refused, T, Phases
  <2> QED
    BY <1>7, <1>a, <1>b, <1>g, <2>9 DEF Refused, Types, shown
<1>8. CASE Abort(p)
  <2>1. T
    BY <1>8 DEF Abort, T, Types
  <2> QED
    BY <1>8, <1>b, <1>g, <2>1 DEF Abort, Types, bounds, shown
<1>9. CASE Completed(p)
  <2>1. PICK text \in {<<>>, <<Msg("text", req[p].input)>>} :
          /\ Keeps(p, Mine(p), text, "idle")
          /\ Shows(p, Range(Mine(p).msgs \o text))
    BY <1>9 DEF Completed
  <2>2. text \in Seq(Message)
    <3>1. Msg("text", req[p].input) \in Message
      BY <1>a, MsgIs
    <3>2. CASE text = <<>>
      BY <3>2
    <3>3. CASE text = <<Msg("text", req[p].input)>>
      BY <3>1, <3>3
    <3> QED
      BY <3>2, <3>3
  <2>3. Mine(p) \in Held /\ cur[p] \in Threads /\ Mine(p).msgs \in Seq(Message)
    BY <1>9, RolledBackTypes DEF Completed
  <2>4. T
    BY <2>1, <2>2, <2>3, KeepsTypes DEF T
  <2>5. Range(Mine(p).msgs \o text) \subseteq Message
    <3>1. Mine(p).msgs \o text \in Seq(Message)
      BY <2>2, <2>3
    <3> QED
      BY <3>1 DEF Range
  <2>6. A
    BY <1>g, <2>1, <2>5
  <2> QED
    BY <1>9, <1>b, <1>g, <2>4, <2>6 DEF Completed, Types, bounds
<1>10. CASE RequiresAction(p)
  <2> DEFINE k == [Mine(p) EXCEPT !.msgs = Append(@, Msg("call", ids + 1))]
  <2>1. Mine(p) \in Held /\ cur[p] \in Threads /\ Mine(p).msgs \in Seq(Message)
    BY <1>10, RolledBackTypes DEF RequiresAction
  <2>2. Append(Mine(p).msgs, Msg("call", ids + 1)) \in Seq(Message)
    BY <2>1, <1>a, MsgIs, Pushed
  <2>3. k \in Held
    BY <2>1, <2>2, Records
  <2>4. Has(p, cur[p], k)
    BY <1>10 DEF RequiresAction
  <2> HIDE DEF k
  <2>5. /\ live' \in [Procs -> [Threads -> Held \cup {None}]]
        /\ \A q \in Procs \ {p} : live'[q] = live[q]
    BY <2>1, <2>3, <2>4, Writing DEF Types
  <2>6. req' \in [Procs -> Requests] /\ \A q \in Procs \ {p} : req'[q] = req[q]
    <3>1. [req[p] EXCEPT !.kind = "tools", !.id = ids + 1, !.tries = 0, !.after = "tools"] \in Requests
      BY <1>a, ReqIs
    <3> QED
      BY <3>1, <1>10 DEF RequiresAction, Types
  <2>7. T
    BY <1>10, <1>a, <2>5, <2>6 DEF RequiresAction, T, Phases
  <2> QED
    BY <1>10, <1>a, <1>b, <1>g, <2>7 DEF RequiresAction, Types, shown
<1>11. CASE Interrupted(p)
  <2>1. Mine(p) \in Held /\ cur[p] \in Threads /\ <<Msg("stop", req[p].input)>> \in Seq(Message)
    BY <1>11, <1>a, MsgIs, RolledBackTypes DEF Interrupted
  <2>2. T
    BY <1>11, <2>1, KeepsTypes DEF Interrupted, T
  <2> QED
    BY <1>11, <1>b, <1>g, <2>2 DEF Interrupted, Types, bounds, shown
<1>c. ASSUME NEW l \in Held, cur[p] \in Threads, Preserves(p, l) PROVE T
  <2>1. Preserved(p) \in Seq(Message)
    BY <1>a, MsgIs DEF Preserved
  <2> QED
    BY <1>a, <1>c, <2>1, KeepsTypes, HasTypes DEF Preserves, T, Types, Phases
<1>d. ASSUME Meets(p) PROVE foreign' \in BOOLEAN
  BY <1>d DEF Meets, Types
<1>12. CASE Fails(p)
  <2>1. RolledBack(p) \in Held /\ cur[p] \in Threads
    BY <1>12, RolledBackTypes DEF Fails
  <2>2. T
    <3>1. CASE Has(p, cur[p], RolledBack(p)) /\ Goes(p, "idle") /\ UNCHANGED req
      BY <2>1, <3>1, HasTypes DEF T, Types, Phases
    <3>2. CASE /\ Has(p, cur[p], RolledBack(p)) /\ Goes(p, "retry")
               /\ req' = [req EXCEPT ![p].tries = @ + 1]
      <4>1. req' \in [Procs -> Requests] /\ \A q \in Procs \ {p} : req'[q] = req[q]
        BY <3>2, <1>a, ReqIs DEF Types
      <4> QED
        BY <2>1, <3>2, <4>1, HasTypes DEF T, Types, Phases
    <3> QED
      BY <1>12, <2>1, <3>1, <3>2, <1>c DEF Fails, FailsOver
  <2> QED
    BY <1>12, <1>b, <1>g, <2>2 DEF Fails, FailsOver, Types, bounds, shown
<1>e. ASSUME NEW l \in Held, cur[p] \in Threads,
             IF Answers(l, req[p])
               THEN Streams(p, cur[p], l, req[p], Msg("tool", req[p].id))
               ELSE Has(p, cur[p], l) /\ Goes(p, "idle") /\ UNCHANGED req
      PROVE  T
  <2>1. CASE Streams(p, cur[p], l, req[p], Msg("tool", req[p].id))
    BY <1>a, <1>e, <2>1, ReqIs, StreamsTypes DEF T
  <2>2. CASE Has(p, cur[p], l) /\ Goes(p, "idle") /\ UNCHANGED req
    BY <1>e, <2>2, HasTypes DEF T, Types, Phases
  <2> QED
    BY <1>e, <2>1, <2>2
<1>13. CASE Retry(p)
  <2> DEFINE h == IF req[p].kind = "tools" THEN file.msgs ELSE Repaired(file.msgs)
  <2>1. HeldOr(p, h) \in Held /\ Repair(HeldOr(p, h)) \in Held /\ cur[p] \in Threads
    BY <1>13, StartsTypes, HoldsIs DEF Retry
  <2>2. T
    <3>1. CASE req[p].kind = "message"
      <4>1. Streams(p, cur[p], Repair(HeldOr(p, h)), req[p], Msg("user", req[p].id))
        BY <1>13, <3>1 DEF Retry, MessageOver
      <4> HIDE DEF h
      <4> QED
        BY <4>1, <2>1, <1>a, ReqIs, StreamsTypes DEF T
    <3>2. CASE req[p].kind # "message"
      <4>1. IF Answers(HeldOr(p, h), req[p])
              THEN Streams(p, cur[p], HeldOr(p, h), req[p], Msg("tool", req[p].id))
              ELSE Has(p, cur[p], HeldOr(p, h)) /\ Goes(p, "idle") /\ UNCHANGED req
        BY <1>13, <3>2 DEF Retry
      <4> HIDE DEF h
      <4> QED
        BY <4>1, <2>1, <1>e
    <3> QED
      BY <3>1, <3>2
  <2> QED
    BY <1>13, <1>b, <1>g, <1>d, <2>2 DEF Retry, Types, bounds
<1>14. CASE RetryAborted(p)
  <2> DEFINE h == IF req[p].kind = "tools" THEN file.msgs ELSE Repaired(file.msgs)
  <2>1. HeldOr(p, h) \in Held /\ cur[p] \in Threads
    BY <1>14, StartsTypes, HoldsIs DEF RetryAborted
  <2>2. Preserves(p, HeldOr(p, h))
    BY <1>14 DEF RetryAborted
  <2> HIDE DEF h
  <2>3. T
    BY <2>1, <2>2, <1>c
  <2> QED
    BY <1>14, <1>b, <1>g, <1>d, <2>3 DEF RetryAborted, Types, bounds
<1>15. CASE Unknown(p)
  <2>1. T
    BY <1>15, <1>a DEF Unknown, T, Types, Phases
  <2> QED
    BY <1>15, <1>b, <1>g, <2>1 DEF Unknown, Types, bounds, shown
<1>21. CASE NotificationCancelled(p)
  <2>1. T
    BY <1>21, <1>a DEF NotificationCancelled, T, Types, Phases
  <2> QED
    BY <1>21, <1>b, <1>g, <2>1 DEF NotificationCancelled, Types, bounds, shown
<1>16. CASE Submits(p)
  <2>1. HeldOr(p, file.msgs) \in Held /\ cur[p] \in Threads
    BY <1>16, StartsTypes, HoldsIs DEF Submits
  <2>2. T
    BY <1>16, <2>1, <1>e DEF Submits, SubmitsOver
  <2> QED
    BY <1>16, <1>b, <1>g, <1>d, <2>2 DEF Submits, SubmitsOver, Types, bounds
<1>17. CASE ToolsCancelled(p)
  <2>1. HeldOr(p, file.msgs) \in Held /\ cur[p] \in Threads
    BY <1>17, StartsTypes, HoldsIs DEF ToolsCancelled
  <2>2. T
    BY <1>17, <2>1, <1>c DEF ToolsCancelled
  <2> QED
    BY <1>17, <1>b, <1>g, <1>d, <2>2 DEF ToolsCancelled, Types, bounds
<1>18. CASE ToolsFail(p)
  <2>1. T
    BY <1>18, <1>a DEF ToolsFail, T, Types, Phases
  <2> QED
    BY <1>18, <1>b, <1>g, <2>1 DEF ToolsFail, Types, bounds, shown
<1>f. phase[p] = "saving" => Mine(p) \in Held /\ cur[p] \in Threads /\ req[p].after \in Phases
  BY <1>a, HoldsIs DEF TurnInv, Requests, Phases
<1>19. CASE Save(p)
  <2> DEFINE k == [Mine(p) EXCEPT !.rev = Rev + 1, !.dirty = FALSE, !.replaces = None]
  <2>1. Mine(p) \in Held /\ cur[p] \in Threads /\ Rev + 1 \in Nat /\ req[p].after \in Phases
    BY <1>19, <1>f, HoldsIs DEF Save
  <2>2. k \in Held /\ Mine(p).msgs \in Seq(Message)
    BY <2>1 DEF Held
  <2>3. Has(p, cur[p], k)
    BY <1>19 DEF Save, SaveIf
  <2> HIDE DEF k
  <2>4. T
    BY <1>19, <2>1, <2>2, <2>3, HasTypes DEF Save, SaveIf, Resumes, T, Types
  <2>5. file' \in Saved
    BY <1>19, <2>1, <2>2 DEF Save, SaveIf, Saved
  <2> QED
    BY <1>19, <1>b, <1>g, <2>4, <2>5 DEF Save, SaveIf, Types, bounds, shown
<1>20. CASE SaveFails(p)
  <2> DEFINE k == [Mine(p) EXCEPT !.dirty = TRUE]
  <2>1. Mine(p) \in Held /\ cur[p] \in Threads /\ req[p].after \in Phases
    BY <1>20, <1>f DEF SaveFails, SaveFailsTo
  <2>2. k \in Held
    BY <2>1 DEF Held
  <2>3. Has(p, cur[p], k)
    BY <1>20 DEF SaveFails, SaveFailsTo
  <2> HIDE DEF k
  <2>4. T
    BY <1>20, <2>1, <2>2, <2>3, HasTypes DEF SaveFails, SaveFailsTo, Resumes, T, Types
  <2> QED
    BY <1>20, <1>b, <1>g, <2>4 DEF SaveFails, SaveFailsTo, Types, shown
<1> QED
  BY <1>1, <1>2, <1>3, <1>4, <1>5, <1>6, <1>7, <1>8, <1>9, <1>10, <1>11, <1>12, <1>13, <1>14,
     <1>15, <1>16, <1>17, <1>18, <1>19, <1>20, <1>21 DEF Step
----------------------------------------------------------------------------
(* What the actions that work on a history have in common.  p goes on from *)
(* h, which keeps what of the history outlives a failed attempt, or, if it *)
(* has to look the conversation up, what of the file is whole; l is what it *)
(* holds afterwards.                                                       *)
Base(p) == IF Alive(p) THEN Settled(p, cur[p]) ELSE file.msgs

Takes(p, h) ==
  /\ h \in Seq(Message) /\ IsPrefixOf(Repaired(Base(p)), h)
  /\ Range(h) \subseteq Range(HeldOr(p, file.msgs).msgs)
  /\ \/ Alive(p)
     \/ Range(h) \subseteq Range(Repaired(file.msgs))
     \/ Waiting(p) /\ (~foreign' => Answers(file, req[p]) \/ Cut(file.msgs) = {})

Works(p, h) ==
  /\ MayHold(p) /\ phase[p] # "saving" /\ Takes(p, h)
  /\ live'[p][cur[p]] \in Held
  /\ \A u \in Threads \ {cur[p]} : live'[p][u] = live[p][u]
  /\ LET l == live'[p][cur[p]]
         b == HeldOr(p, file.msgs)
     IN  /\ l.rev = b.rev /\ l.dirty = b.dirty /\ l.replaces = b.replaces
         /\ IsPrefixOf(h, l.msgs)
         /\ phase'[p] = "streaming" => /\ req'[p].base = Len(h) /\ Len(l.msgs) = Len(h) + 1
                                       /\ l.msgs[Len(l.msgs)] = First(req'[p])
         /\ \A m \in Range(l.msgs) :
              \/ m \in Range(h) \/ m.role \in {"text", "stop"}
              \/ phase'[p] \notin {"away", "idle"} /\ m.id = req'[p].id
  /\ UNCHANGED <<file, cur, minted>>
  /\ phase'[p] # "away" /\ (foreign => foreign')
  /\ ids' \in Nat /\ ids <= ids'
  /\ phase'[p] \notin {"away", "idle"} =>
       \/ req'[p].id = req[p].id /\ Busy(p)
       \/ req'[p].id = ids + 1 /\ ids' = ids + 1
  /\ phase'[p] \notin {"away", "idle"} => req'[p].input <= ids'
  /\ phase'[p] # "retry" /\ Waiting(p)' => req'[p].kind = "tools"

(* The order of what p holds then, and its own claims.                     *)
Fits(p) == ~foreign' => Orderly(live'[p][cur[p]].msgs, ids') /\ OrderOf(p)'

(* The histories to go on from.                                            *)
LEMMA TakesOwn ==
  ASSUME Types, TurnInv, NEW p \in Procs, Alive(p)
  PROVE  /\ phase[p] # "streaming" =>
              Takes(p, Mine(p).msgs) /\ Takes(p, Repaired(Mine(p).msgs))
         /\ phase[p] = "streaming" => Takes(p, Mine(p).msgs) /\ Takes(p, RolledBack(p).msgs)
<1> DEFINE m == Mine(p).msgs
<1>1. cur[p] \in Threads /\ Mine(p) \in Held /\ m \in Seq(Message)
  BY HoldsIs DEF Held
<1>2. HeldOr(p, file.msgs).msgs = m
  BY DEF HeldOr
<1>3. Settled(p, cur[p]) = IF phase[p] = "streaming" THEN RolledBack(p).msgs ELSE m
  BY <1>1, RolledBackTypes DEF Settled, Mine
<1>4. ASSUME phase[p] # "streaming" PROVE Takes(p, m) /\ Takes(p, Repaired(m))
  <2>1. Base(p) = m
    BY <1>3, <1>4 DEF Base
  <2>2. Repaired(m) \in Seq(Message) /\ IsPrefixOf(Repaired(m), m)
    BY <1>1, RepairedIs
  <2>3. IsPrefixOf(Repaired(m), Repaired(m)) /\ Range(Repaired(m)) \subseteq Range(m)
    BY <1>1, <2>2, PrefixSelf, PrefixRange
  <2> QED
    BY <1>1, <1>2, <2>1, <2>2, <2>3 DEF Takes
<1>5. ASSUME phase[p] = "streaming" PROVE Takes(p, m) /\ Takes(p, RolledBack(p).msgs)
  <2> DEFINE r == RolledBack(p).msgs
  <2>1. Base(p) = r
    BY <1>3, <1>5 DEF Base
  <2>2. req[p].base \in Nat /\ Len(m) = req[p].base + 1 /\ r = SubSeq(m, 1, req[p].base)
    BY <1>5, RolledBackTypes
  <2>3. req[p].base \in 0..Len(m)
    BY <2>2
  <2> HIDE DEF r, m
  <2>4. r \in Seq(Message) /\ IsPrefixOf(r, m) /\ Range(r) \subseteq Range(m)
    BY <1>1, <2>2, <2>3, Front
  <2>5. Repaired(r) \in Seq(Message) /\ IsPrefixOf(Repaired(r), r)
    BY <2>4, RepairedIs
  <2>6. IsPrefixOf(Repaired(r), m)
    BY <1>1, <2>4, <2>5, PrefixTrans
  <2> QED
    BY <1>1, <1>2, <2>1, <2>4, <2>5, <2>6 DEF Takes, m, r
<1> QED
  BY <1>4, <1>5

LEMMA TakesFile ==
  ASSUME Types, NEW p \in Procs, ~Alive(p), MayHold(p)
  PROVE  /\ Takes(p, Repaired(file.msgs))
         /\ Waiting(p) /\ (~foreign' => Answers(file, req[p]) \/ Cut(file.msgs) = {}) =>
              Takes(p, file.msgs)
<1>1. file # None
  BY DEF MayHold, Stored
<1>2. file.msgs \in Seq(Message) /\ HeldOr(p, file.msgs).msgs = file.msgs
  BY <1>1, HoldsIs
<1>3. Repaired(file.msgs) \in Seq(Message) /\ IsPrefixOf(Repaired(file.msgs), file.msgs)
  BY <1>2, RepairedIs
<1>4. /\ IsPrefixOf(Repaired(file.msgs), Repaired(file.msgs))
      /\ Range(Repaired(file.msgs)) \subseteq Range(file.msgs)
  BY <1>2, <1>3, PrefixSelf, PrefixRange
<1> QED
  BY <1>2, <1>3, <1>4 DEF Takes, Base
(* The order of the histories to go on from.                               *)
LEMMA StartsInOrder ==
  ASSUME Types, OrderInv, NEW p \in Procs, MayHold(p),
         NEW h, h = file.msgs \/ h = Repaired(file.msgs)
  PROVE  LET l == HeldOr(p, h) IN
         /\ l.msgs \in Seq(Message) /\ Orderly(l.msgs, ids)
         /\ Repair(l).msgs \in Seq(Message) /\ Orderly(Repair(l).msgs, ids)
         /\ Cut(Repair(l).msgs) = {} /\ Repair(l).msgs = Repaired(l.msgs)
         /\ \A m \in Range(l.msgs) : m.id <= ids
         /\ \A m \in Range(Repair(l).msgs) : m.id <= ids
         /\ phase[p] \in {"tools", "retry"} => First(req[p]) \notin Range(l.msgs)
         /\ phase[p] \in {"tools", "retry"} => First(req[p]) \notin Range(Repair(l).msgs)
         /\ Waiting(p) /\ req[p].kind = "tools" /\ h = file.msgs /\ Answers(l, req[p]) =>
              EndsWith(l.msgs, Msg("call", req[p].id))
<1> DEFINE l == HeldOr(p, h)
           old == IF Alive(p) THEN Mine(p).msgs ELSE file.msgs
<1>0. /\ cur[p] \in Threads /\ ids \in Nat
      /\ Alive(p) => Mine(p) \in Held /\ Mine(p).msgs \in Seq(Message)
      /\ ~Alive(p) => /\ file # None /\ file.msgs \in Seq(Message)
                      /\ Repaired(file.msgs) \in Seq(Message)
  <2>1. Alive(p) => Mine(p) \in Held /\ Mine(p).msgs \in Seq(Message)
    BY HoldsIs DEF Held
  <2>2. ~Alive(p) => file # None
    BY DEF MayHold, Stored
  <2> QED
    BY <2>1, <2>2, HoldsIs DEF Types
<1>1. old \in Seq(Message) /\ Orderly(old, ids)
  BY <1>0 DEF OrderInv, Alive, Mine
<1>2. l.msgs \in Seq(Message) /\ IsPrefixOf(l.msgs, old) /\ l \in Held
  <2>1. CASE Alive(p)
    BY <1>0, <2>1, PrefixSelf DEF HeldOr
  <2>2. CASE ~Alive(p)
    <3>1. h \in Seq(Message) /\ IsPrefixOf(h, file.msgs)
      BY <1>0, <2>2, RepairedIs, PrefixSelf
    <3>2. l.msgs = h /\ l \in Held
      BY <2>2, <3>1, HoldsIs
    <3> QED
      BY <2>2, <3>1, <3>2
  <2> QED
    BY <2>1, <2>2
<1> HIDE DEF l, old
<1>3. Repair(l).msgs = Repaired(l.msgs)
  <2>1. Repaired(l.msgs) \in Seq(Message)
    BY <1>2, RepairedIs
  <2> QED
    BY <1>2, <2>1, Records DEF Repair
<1>4. /\ Repaired(l.msgs) \in Seq(Message) /\ IsPrefixOf(Repaired(l.msgs), l.msgs)
      /\ Cut(Repaired(l.msgs)) = {}
  BY <1>2, RepairedIs
<1>5. Orderly(l.msgs, ids)
  BY <1>0, <1>1, <1>2, OrderlyFront
<1>6. Orderly(Repaired(l.msgs), ids)
  BY <1>0, <1>2, <1>4, <1>5, OrderlyFront
<1>7. \A m \in Range(l.msgs) : m.id <= ids
  BY <1>5 DEF Orderly, Range
<1>8. Range(Repaired(l.msgs)) \subseteq Range(l.msgs) /\ Range(l.msgs) \subseteq Range(old)
  BY <1>1, <1>2, <1>4, PrefixRange
<1>9. ASSUME phase[p] \in {"tools", "retry"} PROVE First(req[p]) \notin Range(l.msgs)
  <2>1. ~InFile(First(req[p])) /\ ~InLive(p, cur[p], First(req[p]))
    BY <1>0, <1>9 DEF OrderInv, OrderOf, Waiting
  <2>2. First(req[p]) \notin Range(old)
    BY <1>0, <2>1 DEF InFile, InLive, old, Alive, Mine
  <2> QED
    BY <2>2, <1>8
<1>10. ASSUME Waiting(p), req[p].kind = "tools", h = file.msgs, Answers(l, req[p])
       PROVE  EndsWith(l.msgs, Msg("call", req[p].id))
  <2>1. Msg("call", req[p].id) \in Range(l.msgs)
    BY <1>10 DEF Answers
  <2>2. CASE Alive(p)
    <3>1. l.msgs = Mine(p).msgs /\ InLive(p, cur[p], Msg("call", req[p].id))
      BY <2>1, <2>2 DEF l, HeldOr, InLive, Alive, Mine
    <3> QED
      BY <1>10, <2>2, <3>1 DEF OrderInv, OrderOf
  <2>3. CASE ~Alive(p)
    <3>1. l.msgs = file.msgs /\ file # None
      BY <1>0, <1>10, <2>3, HoldsIs DEF l
    <3>2. InFile(Msg("call", req[p].id))
      BY <2>1, <3>1 DEF InFile
    <3> QED
      BY <1>10, <3>1, <3>2 DEF OrderInv, OrderOf
  <2> QED
    BY <2>2, <2>3
<1> QED
  BY <1>2, <1>3, <1>4, <1>5, <1>6, <1>7, <1>8, <1>9, <1>10 DEF l

(* The claims of p itself, from what it holds then.                        *)
LEMMA OwnClaims ==
  ASSUME Types, OrderInv, NEW p \in Procs, NEW h, Works(p, h), Types',
         \A q \in Procs \ {p} : Same(q),
         LET m == live'[p][cur[p]].msgs
             call == Msg("call", req'[p].id)
         IN  /\ \/ req'[p].id = ids + 1
                \/ /\ req'[p].id = req[p].id /\ req'[p].kind = req[p].kind
                   /\ phase[p] \in {"tools", "retry", "streaming"}
                \/ phase'[p] = "idle"
                \/ phase'[p] = "saving" /\ req'[p].after = "idle"
             /\ phase'[p] = "streaming" => Cut(m) = {}
             /\ phase'[p] # "streaming" /\ (Waiting(p)' \/ phase'[p] = "retry") =>
                  First(req'[p]) \notin Range(m)
             /\ Waiting(p)' /\ call \in Range(m) => EndsWith(m, call)
  PROVE  OrderOf(p)'
<1> DEFINE m == live'[p][cur[p]].msgs
<1>0. PICK call, first : call = Msg("call", req'[p].id) /\ first = First(req'[p])
  OBVIOUS
<1>1. /\ cur' = cur /\ file' = file /\ cur[p] \in Threads /\ live'[p][cur[p]] # None
      /\ Alive(p)' /\ Mine(p)' = live'[p][cur[p]]
      /\ \A u \in Threads \ {cur[p]} : live'[p][u] = live[p][u]
      /\ \A q \in Procs \ {p} : live'[q] = live[q]
  <2>1. live'[p][cur[p]] \in Held /\ cur' = cur /\ cur[p] \in Threads
    BY HoldsIs DEF Works
  <2>2. live'[p][cur[p]] # None /\ cur[p] # None
    BY <2>1, ByokAssumption
  <2> QED
    BY <2>1, <2>2 DEF Works, Alive, Mine, Same
<1>2. \A x : \A q \in Procs, t \in Threads : q # p \/ t # cur[p] => (InLive(q, t, x)' <=> InLive(q, t, x))
  BY <1>1 DEF InLive
<1>3. \A x : (InFile(x)' <=> InFile(x)) /\ (InLive(p, cur[p], x)' <=> x \in Range(m))
  BY <1>1 DEF InLive, InFile
<1>4. phase'[p] = "streaming" => Cut(Mine(p)'.msgs) = {}
  BY <1>1
<1>5. Waiting(p)' => req'[p].kind = "tools"
  BY DEF Works, Waiting
<1>6. ASSUME req'[p].id = ids + 1 PROVE OrderOf(p)'
  <2>1. /\ req'[p].id \in Nat /\ ids \in Nat /\ first.id = req'[p].id /\ call.id = req'[p].id
    BY <1>0 DEF Types, Requests, First, Msg
  <2>2. \A x : x.id = req'[p].id => ~InFile(x)
    BY <1>6, <2>1 DEF OrderInv, Orderly, InFile, Range
  <2>3. \A x : \A q \in Procs, t \in Threads : x.id = req'[p].id => ~InLive(q, t, x)
    BY <1>6, <2>1 DEF OrderInv, Orderly, InLive, Range
  <2> QED
    BY <1>0, <1>1, <1>2, <1>3, <1>4, <2>1, <2>2, <2>3 DEF OrderOf
<1>7. ASSUME req'[p].id = req[p].id, req'[p].kind = req[p].kind,
             phase[p] \in {"tools", "retry", "streaming"}
      PROVE  OrderOf(p)'
  <2>1. first = First(req[p]) /\ call = Msg("call", req[p].id)
    BY <1>0, <1>7 DEF First
  <2>2. /\ ~InFile(first)
        /\ \A q \in Procs, t \in Threads : q # p \/ t # cur[p] => ~InLive(q, t, first)
    BY <1>7, <2>1 DEF OrderInv, OrderOf, Waiting
  <2>3. ASSUME req'[p].kind = "tools"
        PROVE  /\ InFile(call) => EndsWith(file.msgs, call)
               /\ \A q \in Procs, t \in Threads : InLive(q, t, call) => q = p /\ t = cur[p]
    <3>1. Waiting(p) \/ (phase[p] = "streaming" /\ req[p].kind = "tools")
      BY <1>7, <2>3 DEF Waiting
    <3> QED
      BY <2>1, <3>1 DEF OrderInv, OrderOf
  <2> HIDE DEF m
  <2>4. EndsWith(file.msgs, call) => EndsWith(file'.msgs, call)
    BY <1>1
  <2>5. phase'[p] # "streaming" /\ (Waiting(p)' \/ phase'[p] = "retry") => first \notin Range(m)
    BY <1>0 DEF m
  <2>6. Waiting(p)' /\ call \in Range(m) => EndsWith(Mine(p)'.msgs, call)
    BY <1>0, <1>1 DEF m
  <2>7. ASSUME Waiting(p)' \/ phase'[p] \in {"retry", "streaming"}
        PROVE  /\ ~InFile(first)'
               /\ \A q \in Procs, t \in Threads :
                    (phase'[p] = "streaming" => q # p \/ t # cur'[p]) => ~InLive(q, t, first)'
    BY <2>7, <1>1, <1>2, <1>3, <2>2, <2>5
  <2>8. ASSUME Waiting(p)' \/ (phase'[p] = "streaming" /\ req'[p].kind = "tools")
        PROVE  /\ InFile(call)' => EndsWith(file'.msgs, call)
               /\ \A q \in Procs, t \in Threads : InLive(q, t, call)' => q = p /\ t = cur'[p]
    BY <2>8, <1>1, <1>2, <1>3, <1>5, <2>3, <2>4
  <2> QED
    BY <1>0, <1>1, <1>3, <1>4, <2>6, <2>7, <2>8 DEF OrderOf
<1>8. ASSUME phase'[p] = "idle" \/ (phase'[p] = "saving" /\ req'[p].after = "idle") PROVE OrderOf(p)'
  BY <1>8 DEF OrderOf, Waiting
<1> QED
  BY <1>6, <1>7, <1>8
(* The three ways in which such an action ends.                            *)
From(p, l) ==
  LET b == HeldOr(p, file.msgs) IN
  /\ MayHold(p) /\ phase[p] # "saving" /\ l \in Held /\ Takes(p, l.msgs)
  /\ l.rev = b.rev /\ l.dirty = b.dirty /\ l.replaces = b.replaces
  /\ UNCHANGED <<file, cur, minted>> /\ (foreign => foreign')
  /\ ids' \in Nat /\ ids <= ids'

LEMMA StreamsWorks ==
  ASSUME Types, NEW p \in Procs, NEW l, From(p, l), NEW r \in Requests, r.input <= ids',
         Streams(p, cur[p], l, r, First(r)),
         (r.id = req[p].id /\ Busy(p)) \/ (r.id = ids + 1 /\ ids' = ids + 1)
  PROVE  /\ Works(p, l.msgs) /\ live'[p][cur[p]].msgs = Append(l.msgs, First(r))
         /\ phase'[p] = "streaming" /\ req'[p].id = r.id /\ req'[p].kind = r.kind
<1> DEFINE g == Append(l.msgs, First(r))
<1>1. /\ l \in Held /\ l.msgs \in Seq(Message) /\ cur[p] \in Threads /\ First(r) \in Message
      /\ Len(l.msgs) \in Nat
  <2>1. l \in Held /\ l.msgs \in Seq(Message) /\ cur[p] \in Threads
    BY HoldsIs DEF From, Held
  <2>2. First(r) \in Message
    BY DEF First, Msg, Message, Requests
  <2>3. Len(l.msgs) \in Nat
    BY <2>1
  <2> QED
    BY <2>1, <2>2, <2>3
<1>2. /\ live'[p][cur[p]] \in Held
      /\ live'[p][cur[p]].msgs = g /\ live'[p][cur[p]].rev = l.rev
      /\ live'[p][cur[p]].dirty = l.dirty /\ live'[p][cur[p]].replaces = l.replaces
      /\ \A u \in Threads \ {cur[p]} : live'[p][u] = live[p][u]
      /\ phase'[p] = "streaming" /\ req'[p].base = Len(l.msgs)
      /\ req'[p].id = r.id /\ req'[p].kind = r.kind /\ req'[p].input = r.input
  BY <1>1, StreamsTypes
<1>3. /\ IsPrefixOf(l.msgs, g) /\ Range(g) = Range(l.msgs) \cup {First(r)}
      /\ Len(g) = Len(l.msgs) + 1 /\ g[Len(g)] = First(r)
  BY <1>1, Pushed
<1>4. First(r) = First(req'[p]) /\ First(r).id = r.id
  BY <1>2 DEF First, Msg
<1> HIDE DEF g
<1> QED
  BY <1>2, <1>3, <1>4 DEF Works, From, Waiting, g

LEMMA KeepsWorks ==
  ASSUME Types, TurnInv, NEW p \in Procs, NEW l, From(p, l), NEW x \in Seq(Message),
         Keeps(p, l, x, "idle"), Busy(p),
         \A m \in Range(x) : m.role \in {"text", "stop"} \/ m.id = req[p].id
  PROVE  /\ Works(p, l.msgs) /\ live'[p][cur[p]].msgs = l.msgs \o x
         /\ phase'[p] = "saving" /\ req'[p].after = "idle"
<1> DEFINE g == l.msgs \o x
<1>1. l \in Held /\ l.msgs \in Seq(Message) /\ cur[p] \in Threads
  BY HoldsIs DEF From, Held
<1>2. /\ live'[p][cur[p]] \in Held
      /\ live'[p][cur[p]].msgs = g /\ live'[p][cur[p]].rev = l.rev
      /\ live'[p][cur[p]].dirty = l.dirty /\ live'[p][cur[p]].replaces = l.replaces
      /\ \A u \in Threads \ {cur[p]} : live'[p][u] = live[p][u]
      /\ phase'[p] = "saving" /\ req'[p].after = "idle" /\ req'[p].id = req[p].id
      /\ req'[p].input = req[p].input
  BY <1>1, KeepsTypes
<1>3. IsPrefixOf(l.msgs, g) /\ Range(g) = Range(l.msgs) \cup Range(x)
  BY <1>1, Longer
<1>4. req'[p].input <= ids'
  <2>1. req'[p].input \in Nat /\ req'[p].input <= ids /\ ids \in Nat /\ ids' \in Nat /\ ids <= ids'
    BY <1>2 DEF From, TurnInv, Types, Requests
  <2> QED
    BY <2>1
<1> HIDE DEF g
<1> QED
  BY <1>2, <1>3, <1>4 DEF Works, From, Waiting, g

LEMMA HasWorks ==
  ASSUME Types, TurnInv, NEW p \in Procs, NEW l, From(p, l), Has(p, cur[p], l),
         \/ Goes(p, "idle")
         \/ /\ Goes(p, "retry") /\ Busy(p)
            /\ req'[p].id = req[p].id /\ req'[p].input = req[p].input
  PROVE  Works(p, l.msgs) /\ live'[p][cur[p]].msgs = l.msgs
<1>1. l \in Held /\ l.msgs \in Seq(Message) /\ cur[p] \in Threads
  BY HoldsIs DEF From, Held
<1>2. PICK ph \in {"idle", "retry"} :
        /\ Goes(p, ph)
        /\ ph = "retry" => req'[p].id = req[p].id /\ req'[p].input = req[p].input /\ Busy(p)
  OBVIOUS
<1>3. /\ live'[p][cur[p]] = l /\ phase'[p] = ph
      /\ \A u \in Threads \ {cur[p]} : live'[p][u] = live[p][u]
  BY <1>1, <1>2, HasTypes DEF Phases
<1>4. IsPrefixOf(l.msgs, l.msgs)
  BY <1>1, PrefixSelf
<1>5. ph = "retry" => req'[p].input <= ids'
  <2>1. /\ req[p].input \in Nat /\ ids \in Nat /\ ids' \in Nat /\ ids <= ids'
        /\ ph = "retry" => req[p].input <= ids
    BY <1>2 DEF From, TurnInv, Types, Requests
  <2> QED
    BY <1>2, <2>1
<1> QED
  BY <1>1, <1>2, <1>3, <1>4, <1>5 DEF Works, From, Waiting
LEMMA FromHeld ==
  ASSUME Types, TurnInv, NEW p \in Procs, MayHold(p), phase[p] \notin {"saving", "streaming"},
         UNCHANGED <<file, cur, minted>>, foreign => foreign', ids' \in Nat, ids <= ids'
  PROVE  /\ From(p, HeldOr(p, Repaired(file.msgs)))
         /\ From(p, Repair(HeldOr(p, file.msgs)))
         /\ From(p, Repair(HeldOr(p, Repaired(file.msgs))))
         /\ Waiting(p) /\ (~foreign' => Answers(file, req[p]) \/ Cut(file.msgs) = {}) =>
              From(p, HeldOr(p, file.msgs))
         /\ Alive(p) => From(p, HeldOr(p, file.msgs))
<1> DEFINE b == HeldOr(p, file.msgs)
           FromTo(l) == /\ l \in Held /\ l.rev = b.rev /\ l.dirty = b.dirty
                        /\ l.replaces = b.replaces /\ Takes(p, l.msgs)
<1>1. ASSUME NEW l, FromTo(l) PROVE From(p, l)
  BY <1>1 DEF From
<1>2. CASE Alive(p)
  <2>1. \A h : HeldOr(p, h) = Mine(p)
    BY <1>2 DEF HeldOr
  <2>2. Mine(p) \in Held /\ Repaired(Mine(p).msgs) \in Seq(Message)
    BY <1>2, HoldsIs, RepairedIs DEF Held
  <2>3. Takes(p, Mine(p).msgs) /\ Takes(p, Repaired(Mine(p).msgs))
    BY <1>2, TakesOwn
  <2>4. FromTo(Mine(p)) /\ FromTo(Repair(Mine(p)))
    BY <2>1, <2>2, <2>3, Records DEF Repair
  <2> HIDE DEF FromTo
  <2> QED
    BY <2>1, <2>4, <1>1
<1>3. CASE ~Alive(p)
  <2>1. /\ file # None /\ file.msgs \in Seq(Message) /\ Repaired(file.msgs) \in Seq(Message)
        /\ \A h \in Seq(Message) : Loaded(h) \in Held
    BY <1>3, HoldsIs DEF MayHold, Stored
  <2>2. \A h : HeldOr(p, h) = Loaded(h)
    BY <1>3 DEF HeldOr
  <2>f. \A h : /\ Loaded(h).rev = file.rev /\ Loaded(h).dirty = FALSE
               /\ Loaded(h).replaces = None /\ Loaded(h).msgs = h
    BY DEF Loaded
  <2>3. ASSUME NEW h \in Seq(Message), Takes(p, h) PROVE FromTo(Loaded(h))
    <3>1. b = Loaded(file.msgs)
      BY <2>2
    <3> HIDE DEF b
    <3> QED
      BY <2>1, <2>f, <2>3, <3>1
  <2>4. /\ Takes(p, Repaired(file.msgs))
        /\ Waiting(p) /\ (~foreign' => Answers(file, req[p]) \/ Cut(file.msgs) = {}) =>
              Takes(p, file.msgs)
    BY <1>3, TakesFile
  <2>5. Repaired(Repaired(file.msgs)) = Repaired(file.msgs)
    BY <2>1, RepairedIs
  <2>6. ASSUME NEW h \in Seq(Message), Repaired(h) = Repaired(file.msgs)
        PROVE  FromTo(Repair(Loaded(h)))
    <3>1. b = Loaded(file.msgs) /\ Loaded(h) \in Held
      BY <2>1, <2>2
    <3>2. Repair(Loaded(h)) = [Loaded(h) EXCEPT !.msgs = Repaired(file.msgs)]
      BY <2>6, <2>f DEF Repair
    <3>3. /\ Repair(Loaded(h)) \in Held /\ Repair(Loaded(h)).msgs = Repaired(file.msgs)
          /\ Repair(Loaded(h)).rev = Loaded(h).rev /\ Repair(Loaded(h)).dirty = Loaded(h).dirty
          /\ Repair(Loaded(h)).replaces = Loaded(h).replaces
      BY <2>1, <3>1, <3>2, Records
    <3> HIDE DEF b
    <3> QED
      BY <2>4, <2>f, <3>1, <3>3
  <2>7. /\ FromTo(Repair(HeldOr(p, file.msgs))) /\ FromTo(Repair(HeldOr(p, Repaired(file.msgs))))
        /\ HeldOr(p, Repaired(file.msgs)) = Loaded(Repaired(file.msgs))
        /\ HeldOr(p, file.msgs) = Loaded(file.msgs)
    BY <2>1, <2>2, <2>5, <2>6
  <2>8. FromTo(Loaded(Repaired(file.msgs)))
    BY <2>1, <2>3, <2>4
  <2>9. Takes(p, file.msgs) => FromTo(Loaded(file.msgs))
    BY <2>1, <2>3
  <2> HIDE DEF FromTo
  <2> QED
    BY <1>1, <1>3, <2>4, <2>7, <2>8, <2>9
<1> QED
  BY <1>2, <1>3

LEMMA TwoPushed ==
  ASSUME NEW h \in Seq(Message), NEW a \in Message, NEW b \in Message
  PROVE  /\ <<a, b>> \in Seq(Message) /\ h \o <<a, b>> = Append(Append(h, a), b)
         /\ Range(<<a, b>>) = {a, b}
<1>1. <<a, b>> \in Seq(Message) /\ h \o <<a, b>> = Append(Append(h, a), b)
  OBVIOUS
<1>2. Range(<<a, b>>) = {a, b}
  <2>1. DOMAIN <<a, b>> = {1, 2} /\ <<a, b>>[1] = a /\ <<a, b>>[2] = b
    OBVIOUS
  <2> QED
    BY <2>1 DEF Range
<1> QED
  BY <1>1, <1>2

(* A request that is answered by results, or refused.                      *)
LEMMA SubmitsDoes ==
  ASSUME Types, TurnInv, ~foreign => OrderInv, NEW p \in Procs, Types',
         \A q \in Procs \ {p} : Same(q),
         phase[p] \in {"tools", "retry"}, Waiting(p), From(p, HeldOr(p, file.msgs)), ids' = ids,
         IF Answers(HeldOr(p, file.msgs), req[p])
           THEN Streams(p, cur[p], HeldOr(p, file.msgs), req[p], Msg("tool", req[p].id))
           ELSE Has(p, cur[p], HeldOr(p, file.msgs)) /\ Goes(p, "idle") /\ UNCHANGED req
  PROVE  Works(p, HeldOr(p, file.msgs).msgs) /\ Fits(p)
<1> DEFINE l == HeldOr(p, file.msgs)
<1>1. /\ req[p].kind = "tools" /\ Busy(p) /\ req[p] \in Requests
      /\ First(req[p]) = Msg("tool", req[p].id) /\ req[p].id <= ids /\ req[p].id \in Nat
      /\ ids \in Nat /\ MayHold(p) /\ l.msgs \in Seq(Message) /\ req[p].input <= ids'
  <2>1. req[p].kind = "tools" /\ Busy(p) /\ req[p] \in Requests /\ ids \in Nat
    BY DEF TurnInv, Waiting, Busy, Types
  <2>2. req[p].id <= ids /\ req[p].id \in Nat /\ req[p].input <= ids'
    BY <2>1 DEF TurnInv
  <2> QED
    BY <2>1, <2>2 DEF First, From, Held
<1>2. CASE Answers(l, req[p])
  <2>1. /\ Works(p, l.msgs) /\ live'[p][cur[p]].msgs = Append(l.msgs, First(req[p]))
        /\ phase'[p] = "streaming" /\ req'[p].id = req[p].id /\ req'[p].kind = req[p].kind
    BY <1>1, <1>2, StreamsWorks
  <2>2. ASSUME ~foreign'
        PROVE  Orderly(live'[p][cur[p]].msgs, ids') /\ OrderOf(p)'
    <3>1. OrderInv
      BY <2>2 DEF From
    <3>2. /\ Orderly(l.msgs, ids) /\ First(req[p]) \notin Range(l.msgs)
          /\ EndsWith(l.msgs, Msg("call", req[p].id))
      BY <3>1, <1>1, <1>2, StartsInOrder
    <3>3. First(req[p]) \in Message /\ First(req[p]).id = req[p].id /\ First(req[p]).role = "tool"
      BY <1>1, MsgIs
    <3> HIDE DEF l
    <3>4. /\ Cut(Append(l.msgs, First(req[p]))) = {}
          /\ Orderly(Append(l.msgs, First(req[p])), ids)
      BY <1>1, <3>2, <3>3, CutPushed, OrderlyPushed
    <3>5. OrderOf(p)'
      BY <2>1, <3>1, <3>4, OwnClaims DEF Waiting
    <3> QED
      BY <2>1, <3>4, <3>5
  <2> QED
    BY <2>1, <2>2 DEF Fits
<1>3. CASE ~Answers(l, req[p])
  <2>1. Works(p, l.msgs) /\ live'[p][cur[p]].msgs = l.msgs
    BY <1>3, HasWorks
  <2>2. phase'[p] = "idle"
    BY <1>3 DEF Goes, Types
  <2>3. ASSUME ~foreign'
        PROVE  Orderly(live'[p][cur[p]].msgs, ids') /\ OrderOf(p)'
    <3>1. OrderInv
      BY <2>3 DEF From
    <3>2. Orderly(l.msgs, ids)
      BY <3>1, <1>1, StartsInOrder
    <3> HIDE DEF l
    <3>3. OrderOf(p)'
      BY <2>1, <2>2, <3>1, OwnClaims DEF Waiting
    <3> QED
      BY <2>1, <3>2, <3>3
  <2> QED
    BY <2>1, <2>3 DEF Fits
<1> QED
  BY <1>2, <1>3

(* A failed turn that is kept.                                             *)
LEMMA PreservesDoes ==
  ASSUME Types, TurnInv, NEW p \in Procs, Types', \A q \in Procs \ {p} : Same(q),
         Busy(p), NEW l, From(p, l), ids' = ids, Preserves(p, l),
         ~foreign => /\ OrderInv /\ Orderly(l.msgs, ids) /\ First(req[p]) \notin Range(l.msgs)
                     /\ req[p].kind = "tools" /\ Answers(l, req[p]) =>
                          EndsWith(l.msgs, Msg("call", req[p].id))
  PROVE  Works(p, l.msgs) /\ Fits(p)
<1> DEFINE a == First(req[p])
           b == Msg("stop", req[p].input)
<1>1. /\ req[p] \in Requests /\ req[p].id <= ids /\ req[p].id \in Nat /\ req[p].input \in Nat
      /\ req[p].input <= ids /\ ids \in Nat /\ l.msgs \in Seq(Message) /\ req[p].kind \in {"tools", "message"}
  <2>1. req[p] \in Requests /\ ids \in Nat /\ req[p].id \in 1..ids /\ req[p].input <= ids
    BY DEF TurnInv, Types
  <2>2. req[p].id <= ids /\ req[p].id \in Nat /\ req[p].input \in Nat
    BY <2>1 DEF Requests
  <2> QED
    BY <2>1, <2>2 DEF From, Held, Requests
<1>2. /\ a \in Message /\ b \in Message /\ a.id = req[p].id /\ b.role = "stop"
      /\ a.role \in {"tool", "user"} /\ (a.role = "tool" => req[p].kind = "tools")
  <2>1. b \in Message /\ b.role = "stop"
    BY <1>1, MsgIs
  <2>2. a \in Message /\ a.id = req[p].id
    BY <1>1, MsgIs DEF First
  <2>3. a.role \in {"tool", "user"} /\ (a.role = "tool" => req[p].kind = "tools")
    BY DEF First, Msg
  <2> QED
    BY <2>1, <2>2, <2>3
<1>3. Preserved(p) = <<a, b>>
  BY DEF Preserved, First
<1>4. CASE Answers(l, req[p])
  <2>0. <<a, b>> \in Seq(Message) /\ Range(<<a, b>>) = {a, b}
    BY <1>1, <1>2, TwoPushed
  <2>1. /\ Works(p, l.msgs) /\ live'[p][cur[p]].msgs = l.msgs \o <<a, b>>
        /\ phase'[p] = "saving" /\ req'[p].after = "idle"
    <3>1. Keeps(p, l, <<a, b>>, "idle")
      BY <1>3, <1>4 DEF Preserves
    <3> HIDE DEF a, b
    <3> QED
      BY <3>1, <2>0, <1>2, KeepsWorks
  <2>2. l.msgs \o <<a, b>> = Append(Append(l.msgs, a), b)
    BY <1>1, <1>2, TwoPushed
  <2>3. ASSUME ~foreign' PROVE Orderly(live'[p][cur[p]].msgs, ids') /\ OrderOf(p)'
    <3>1. ~foreign
      BY <2>3 DEF From
    <3>2. a.role = "tool" => EndsWith(l.msgs, Msg("call", a.id))
      BY <3>1, <1>2, <1>4
    <3> HIDE DEF a, b
    <3>3. Append(l.msgs, a) \in Seq(Message) /\ Orderly(Append(l.msgs, a), ids)
      BY <3>1, <3>2, <1>1, <1>2, OrderlyPushed, Pushed DEF a
    <3>4. b.id <= ids
      BY <1>1 DEF b, Msg
    <3>5. Orderly(Append(Append(l.msgs, a), b), ids)
      BY <3>3, <3>4, <1>1, <1>2, OrderlyPushed
    <3>6. OrderOf(p)'
      BY <2>1, <3>1, OwnClaims DEF Waiting
    <3> QED
      BY <2>1, <2>2, <3>5, <3>6
  <2> QED
    BY <2>1, <2>3 DEF Fits
<1>5. CASE ~Answers(l, req[p])
  <2>0. Has(p, cur[p], l) /\ Goes(p, "idle")
    BY <1>5 DEF Preserves
  <2>1. Works(p, l.msgs) /\ live'[p][cur[p]].msgs = l.msgs
    BY <2>0, HasWorks
  <2>2. phase'[p] = "idle"
    BY <2>0 DEF Goes, Types
  <2>3. ASSUME ~foreign' PROVE Orderly(live'[p][cur[p]].msgs, ids') /\ OrderOf(p)'
    <3>1. ~foreign
      BY <2>3 DEF From
    <3>2. OrderOf(p)'
      BY <2>1, <2>2, <3>1, OwnClaims DEF Waiting
    <3> QED
      BY <2>1, <3>1, <3>2
  <2> QED
    BY <2>1, <2>3 DEF Fits
<1> QED
  BY <1>4, <1>5
(* The actions, one by one.                                                *)
LEMMA NewInputIs ==
  ASSUME Types, NEW p \in Procs
  PROVE  /\ NewInput(p) \in Requests /\ NewInput(p).id = ids + 1 /\ NewInput(p).input = ids + 1
         /\ NewInput(p).kind = "message" /\ NewInput(p).after = "idle"
         /\ First(NewInput(p)) = Msg("user", ids + 1)
         /\ Msg("user", ids + 1) \in Message /\ Msg("user", ids + 1).role = "user"
         /\ Msg("user", ids + 1).id = ids + 1 /\ ids \in Nat /\ ids + 1 \in Nat
<1>1. ids \in Nat /\ ids + 1 \in Nat
  BY DEF Types
<1>2. NewInput(p) \in Requests
  <2>1. NoReq \in Requests
    BY DEF NoReq, Requests
  <2> QED
    BY <1>1, <2>1, ReqIs DEF NewInput
<1>3. /\ NewInput(p).id = ids + 1 /\ NewInput(p).input = ids + 1
      /\ NewInput(p).kind = "message" /\ NewInput(p).after = "idle"
  BY DEF NewInput, NoReq
<1>4. First(NewInput(p)) = Msg("user", ids + 1)
  BY <1>3 DEF First
<1> QED
  BY <1>1, <1>2, <1>3, <1>4, MsgIs

LEMMA SendDoes ==
  ASSUME Types, TurnInv, ~foreign => OrderInv, NEW p \in Procs, Types',
         \A q \in Procs \ {p} : Same(q), Send(p)
  PROVE  (\E h : Works(p, h)) /\ Fits(p) /\ answers' = answers
<1> DEFINE l == Repair(HeldOr(p, file.msgs))
           u == Msg("user", ids + 1)
<1>1. /\ MayHold(p) /\ phase[p] = "idle" /\ ids' = ids + 1 /\ answers' = answers /\ foreign' = foreign
      /\ Streams(p, cur[p], l, NewInput(p), Msg("user", NewInput(p).id))
      /\ UNCHANGED <<file, cur, minted>>
  BY DEF Send, SendOver, MessageOver, shown
<1>2. /\ NewInput(p) \in Requests /\ NewInput(p).id = ids + 1 /\ NewInput(p).input = ids + 1
      /\ NewInput(p).kind = "message" /\ First(NewInput(p)) = u
      /\ u \in Message /\ u.role = "user" /\ u.id = ids + 1 /\ ids \in Nat /\ ids + 1 \in Nat
  BY NewInputIs
<1>3. From(p, l)
  BY <1>1, <1>2, FromHeld
<1>4. /\ Works(p, l.msgs) /\ live'[p][cur[p]].msgs = Append(l.msgs, u)
      /\ phase'[p] = "streaming" /\ req'[p].id = ids + 1 /\ req'[p].kind = "message"
  <2>1. Streams(p, cur[p], l, NewInput(p), First(NewInput(p))) /\ NewInput(p).input <= ids'
    BY <1>1, <1>2
  <2> HIDE DEF l, u
  <2> QED
    BY <1>1, <1>2, <1>3, <2>1, StreamsWorks
<1>5. ASSUME ~foreign' PROVE Orderly(live'[p][cur[p]].msgs, ids') /\ OrderOf(p)'
  <2>1. OrderInv
    BY <1>5, <1>1
  <2>2. /\ l.msgs \in Seq(Message) /\ Orderly(l.msgs, ids) /\ Cut(l.msgs) = {}
        /\ \A m \in Range(l.msgs) : m.id <= ids
    BY <1>1, <2>1, StartsInOrder
  <2> HIDE DEF l, u
  <2>3. u \notin Range(l.msgs)
    BY <1>2, <2>2
  <2>4. Orderly(l.msgs, ids + 1)
    BY <1>2, <2>2, PrefixSelf, OrderlyFront
  <2>5. Orderly(Append(l.msgs, u), ids + 1) /\ Cut(Append(l.msgs, u)) = {}
    BY <1>2, <2>2, <2>3, <2>4, OrderlyPushed, CutPushed
  <2>6. OrderOf(p)'
    BY <1>4, <2>1, <2>5, OwnClaims DEF Waiting
  <2> QED
    BY <1>1, <1>4, <2>5, <2>6
<1> QED
  BY <1>1, <1>4, <1>5 DEF Fits

LEMMA RefusedDoes ==
  ASSUME Types, TurnInv, ~foreign => OrderInv, NEW p \in Procs, Types',
         \A q \in Procs \ {p} : Same(q), Refused(p)
  PROVE  (\E h : Works(p, h)) /\ Fits(p) /\ answers' = answers
<1> DEFINE l == HeldOr(p, Repaired(file.msgs))
           u == Msg("user", ids + 1)
           s == Msg("stop", ids + 1)
           g == l.msgs \o <<u, s>>
<1>1. /\ MayHold(p) /\ phase[p] = "idle" /\ ids' = ids + 1 /\ answers' = answers /\ foreign' = foreign
      /\ Has(p, cur[p], [l EXCEPT !.msgs = g]) /\ req' = [req EXCEPT ![p] = NewInput(p)]
      /\ Goes(p, "saving") /\ UNCHANGED <<file, cur, minted>>
  BY DEF Refused, shown
<1>2. /\ NewInput(p) \in Requests /\ NewInput(p).id = ids + 1 /\ NewInput(p).input = ids + 1
      /\ NewInput(p).after = "idle"
      /\ u \in Message /\ u.role = "user" /\ u.id = ids + 1 /\ ids \in Nat /\ ids + 1 \in Nat
  BY NewInputIs
<1>3. s \in Message /\ s.role = "stop" /\ s.id = ids + 1
  BY <1>2, MsgIs
<1>4. From(p, l)
  BY <1>1, <1>2, FromHeld
<1>5. /\ <<u, s>> \in Seq(Message) /\ g = Append(Append(l.msgs, u), s) /\ Range(<<u, s>>) = {u, s}
      /\ l \in Held /\ l.msgs \in Seq(Message) /\ cur[p] \in Threads
  <2>1. l \in Held /\ l.msgs \in Seq(Message) /\ cur[p] \in Threads
    BY <1>1, <1>4, HoldsIs DEF From, Held
  <2> HIDE DEF l, u, s
  <2> QED
    BY <1>2, <1>3, <2>1, TwoPushed DEF g
<1>6. phase'[p] = "saving" /\ req'[p] = NewInput(p)
  BY <1>1 DEF Goes, Types
<1> HIDE DEF l, u, s
<1>7. g \in Seq(Message) /\ IsPrefixOf(l.msgs, g) /\ Range(g) = Range(l.msgs) \cup {u, s}
  BY <1>5, Longer
<1>8. /\ live'[p][cur[p]] \in Held /\ live'[p][cur[p]].msgs = g
      /\ live'[p][cur[p]].rev = l.rev /\ live'[p][cur[p]].dirty = l.dirty
      /\ live'[p][cur[p]].replaces = l.replaces
      /\ \A t \in Threads \ {cur[p]} : live'[p][t] = live[p][t]
  <2> DEFINE k == [l EXCEPT !.msgs = g]
  <2>1. /\ k \in Held /\ k.msgs = g /\ k.rev = l.rev /\ k.dirty = l.dirty
        /\ k.replaces = l.replaces
    BY <1>5, <1>7, Records
  <2>2. Has(p, cur[p], k)
    BY <1>1
  <2> HIDE DEF k, g
  <2>3. live'[p][cur[p]] = k /\ \A t \in Threads \ {cur[p]} : live'[p][t] = live[p][t]
    BY <1>5, <2>1, <2>2, Writing DEF Types
  <2> QED
    BY <2>1, <2>3
<1> HIDE DEF g
<1>9. Works(p, l.msgs)
  BY <1>1, <1>2, <1>3, <1>4, <1>6, <1>7, <1>8 DEF Works, From, Waiting
<1>10. ASSUME ~foreign' PROVE Orderly(live'[p][cur[p]].msgs, ids') /\ OrderOf(p)'
  <2>1. OrderInv
    BY <1>10, <1>1
  <2>2. Orderly(l.msgs, ids) /\ \A m \in Range(l.msgs) : m.id <= ids
    BY <1>1, <2>1, StartsInOrder DEF l
  <2>3. u \notin Range(l.msgs)
    BY <1>2, <2>2
  <2>4. Orderly(l.msgs, ids + 1)
    BY <1>2, <1>5, <2>2, PrefixSelf, OrderlyFront
  <2>5. Orderly(Append(l.msgs, u), ids + 1) /\ Append(l.msgs, u) \in Seq(Message)
    BY <1>2, <1>5, <2>3, <2>4, OrderlyPushed, Pushed
  <2>6. Orderly(Append(Append(l.msgs, u), s), ids + 1)
    <3>1. s.id <= ids + 1 /\ s.role \notin {"user", "tool"} /\ s.role # "tool"
      BY <1>2, <1>3
    <3> QED
      BY <1>2, <1>3, <2>5, <3>1, OrderlyPushed
  <2>7. OrderOf(p)'
    BY <1>2, <1>6, <1>9, <2>1, OwnClaims DEF Waiting
  <2> QED
    BY <1>1, <1>5, <1>8, <2>6, <2>7
<1> QED
  BY <1>1, <1>9, <1>10 DEF Fits
(* While a request is streamed.                                            *)
LEMMA Streaming ==
  ASSUME Types, TurnInv, NEW p \in Procs, phase[p] = "streaming", UNCHANGED <<file, cur, minted>>,
         foreign => foreign', ids' \in Nat, ids <= ids'
  PROVE  /\ From(p, Mine(p)) /\ From(p, RolledBack(p)) /\ MayHold(p) /\ Busy(p)
         /\ Mine(p) \in Held /\ Mine(p).msgs \in Seq(Message) /\ cur[p] \in Threads
         /\ req[p] \in Requests /\ req[p].id \in Nat /\ req[p].input \in Nat /\ ids \in Nat
         /\ req[p].id <= ids /\ req[p].input <= ids
<1>1. /\ RolledBack(p) \in Held /\ cur[p] \in Threads /\ Mine(p) \in Held
      /\ RolledBack(p).rev = Mine(p).rev /\ RolledBack(p).dirty = Mine(p).dirty
      /\ RolledBack(p).replaces = Mine(p).replaces /\ Mine(p).msgs \in Seq(Message)
  BY RolledBackTypes
<1>2. Alive(p) /\ MayHold(p) /\ Busy(p) /\ HeldOr(p, file.msgs) = Mine(p)
  BY DEF TurnInv, Alive, MayHold, Busy, HeldOr
<1>3. Takes(p, Mine(p).msgs) /\ Takes(p, RolledBack(p).msgs)
  BY <1>2, TakesOwn
<1>4. /\ req[p] \in Requests /\ ids \in Nat /\ req[p].id <= ids /\ req[p].input <= ids
      /\ req[p].id \in Nat /\ req[p].input \in Nat
  <2>1. req[p] \in Requests /\ ids \in Nat /\ req[p].id \in 1..ids /\ req[p].input <= ids
    BY <1>2 DEF Types, TurnInv
  <2>2. req[p].input \in Nat
    BY <2>1 DEF Requests
  <2> QED
    BY <2>1, <2>2
<1> QED
  BY <1>1, <1>2, <1>3, <1>4 DEF From

LEMMA StreamingOrder ==
  ASSUME Types, TurnInv, OrderInv, NEW p \in Procs, phase[p] = "streaming"
  PROVE  /\ Orderly(Mine(p).msgs, ids) /\ Cut(Mine(p).msgs) = {}
         /\ \A m \in Range(Mine(p).msgs) : m.id <= ids
         /\ Orderly(RolledBack(p).msgs, ids) /\ First(req[p]) \notin Range(RolledBack(p).msgs)
         /\ req[p].kind = "tools" => EndsWith(RolledBack(p).msgs, Msg("call", req[p].id))
<1> DEFINE m == Mine(p).msgs
           r == RolledBack(p).msgs
<1>1. /\ m \in Seq(Message) /\ req[p].base \in Nat /\ Len(m) = req[p].base + 1
      /\ r = SubSeq(m, 1, req[p].base) /\ Alive(p) /\ cur[p] \in Threads
  BY RolledBackTypes DEF TurnInv
<1>2. m[Len(m)] = First(req[p])
  BY DEF TurnInv
<1>3. Orderly(m, ids) /\ Cut(m) = {}
  BY <1>1 DEF OrderInv, OrderOf, Alive, Mine
<1> HIDE DEF m, r
<1>4. /\ r \in Seq(Message) /\ Len(r) = req[p].base /\ IsPrefixOf(r, m)
      /\ \A i \in 1..req[p].base : r[i] = m[i]
  <2>1. req[p].base \in 0..Len(m)
    BY <1>1
  <2> QED
    BY <1>1, <2>1, Front
<1>5. Orderly(r, ids)
  <2>1. ids \in Nat /\ ids <= ids
    BY DEF Types
  <2> QED
    BY <1>1, <1>3, <1>4, <2>1, OrderlyFront
<1>6. ASSUME First(req[p]) \in Range(r) PROVE FALSE
  <2>1. PICK i \in DOMAIN r : r[i] = First(req[p])
    BY <1>6 DEF Range
  <2>2. i \in 1..req[p].base /\ m[i] = m[Len(m)]
    BY <1>2, <1>4, <2>1
  <2>3. i \in DOMAIN m /\ Len(m) \in DOMAIN m /\ i # Len(m)
    <3>1. i \in 1..Len(m) /\ Len(m) \in 1..Len(m) /\ i # Len(m)
      BY <1>1, <2>2
    <3> QED
      BY <3>1, <1>1
  <2>4. First(req[p]).role \in {"user", "tool"}
    BY DEF First, Msg
  <2> QED
    BY <1>2, <1>3, <2>2, <2>3, <2>4 DEF Orderly
<1>7. ASSUME req[p].kind = "tools" PROVE EndsWith(r, Msg("call", req[p].id))
  <2>1. m[Len(m)].role = "tool" /\ m[Len(m)].id = req[p].id
    BY <1>2, <1>7 DEF First, Msg
  <2>2. m # <<>> /\ r = SubSeq(m, 1, Len(m) - 1) /\ ids \in Nat
    <3>1. Len(m) # 0 /\ Len(m) - 1 = req[p].base
      BY <1>1
    <3>2. \A x \in Seq(Message) : Len(x) # 0 => x # <<>>
      OBVIOUS
    <3> QED
      BY <1>1, <3>1, <3>2 DEF Types
  <2> QED
    BY <1>1, <1>3, <2>1, <2>2, CutPopped
<1>8. \A x \in Range(m) : x.id <= ids
  BY <1>3 DEF Orderly, Range
<1> QED
  BY <1>3, <1>5, <1>6, <1>7, <1>8 DEF m, r

LEMMA CompletedDoes ==
  ASSUME Types, TurnInv, ~foreign => OrderInv, NEW p \in Procs, Types',
         \A q \in Procs \ {p} : Same(q), Completed(p)
  PROVE  /\ \E h : Works(p, h) /\ Fits(p)
         /\ Due(p)' = Range(live'[p][cur[p]].msgs) /\ phase'[p] = "saving"
         /\ ~foreign => Cut(live'[p][cur[p]].msgs) = {}
<1> DEFINE l == Mine(p)
<1>1. /\ phase[p] = "streaming" /\ ids' = ids /\ foreign' = foreign
      /\ UNCHANGED <<file, cur, minted>>
  BY DEF Completed, bounds
<1>2. /\ From(p, l) /\ Busy(p) /\ l.msgs \in Seq(Message) /\ req[p].input \in Nat
      /\ ids \in Nat /\ req[p].input <= ids
  BY <1>1, Streaming DEF Types
<1>3. Msg("text", req[p].input) \in Message /\ Msg("text", req[p].input).role = "text"
      /\ Msg("text", req[p].input).id = req[p].input
  BY <1>2, MsgIs
<1>4. PICK text \in {<<>>, <<Msg("text", req[p].input)>>} :
        /\ Keeps(p, l, text, "idle")
        /\ Shows(p, Range(l.msgs \o text))
  BY DEF Completed
<1> DEFINE t == Msg("text", req[p].input)
<1> HIDE DEF l, t
<1>5. text \in Seq(Message) /\ \A m \in Range(text) : m.role \in {"text", "stop"}
  <2>1. CASE text = <<>>
    BY <2>1 DEF Range
  <2>2. CASE text = <<t>>
    <3>1. <<t>> \in Seq(Message) /\ Range(<<t>>) = {t}
      BY <1>3 DEF t, Range
    <3> QED
      BY <2>2, <3>1, <1>3 DEF t
  <2> QED
    BY <2>1, <2>2, <1>4 DEF t
<1>6. /\ Works(p, l.msgs) /\ live'[p][cur[p]].msgs = l.msgs \o text
      /\ phase'[p] = "saving" /\ req'[p].after = "idle"
  BY <1>2, <1>4, <1>5, KeepsWorks
<1>7. Due(p)' = Range(live'[p][cur[p]].msgs)
  BY <1>4, <1>6 DEF Types, Shows, Due
<1>8. ASSUME ~foreign
      PROVE  /\ Orderly(live'[p][cur[p]].msgs, ids') /\ OrderOf(p)'
             /\ Cut(live'[p][cur[p]].msgs) = {}
  <2>1. Orderly(l.msgs, ids) /\ Cut(l.msgs) = {}
    BY <1>1, <1>8, StreamingOrder DEF l
  <2>2. Orderly(l.msgs \o text, ids) /\ Cut(l.msgs \o text) = {}
    <3>1. CASE text = <<>>
      <4>1. l.msgs \o <<>> = l.msgs
        BY <1>2
      <4> QED
        BY <2>1, <3>1, <4>1
    <3>2. CASE text = <<t>>
      <4>1. t \in Message /\ t.role = "text" /\ t.role \notin {"user", "tool"} /\ t.id <= ids
        BY <1>2, <1>3 DEF t
      <4>2. l.msgs \o <<t>> = Append(l.msgs, t)
        BY <1>2
      <4>3. Orderly(Append(l.msgs, t), ids)
        BY <1>2, <2>1, <4>1, OrderlyPushed
      <4>4. Cut(Append(l.msgs, t)) = {}
        BY <1>2, <2>1, <4>1, CutPushed
      <4> QED
        BY <3>2, <4>2, <4>3, <4>4
    <3> QED
      BY <3>1, <3>2, <1>4 DEF t
  <2>3. OrderOf(p)'
    BY <1>6, <1>8, OwnClaims DEF Waiting
  <2> QED
    BY <1>1, <1>6, <2>2, <2>3
<1> QED
  BY <1>1, <1>6, <1>7, <1>8 DEF Fits

LEMMA InterruptedDoes ==
  ASSUME Types, TurnInv, ~foreign => OrderInv, NEW p \in Procs, Types',
         \A q \in Procs \ {p} : Same(q), Interrupted(p)
  PROVE  (\E h : Works(p, h)) /\ Fits(p) /\ answers' = answers
<1> DEFINE l == Mine(p)
           s == Msg("stop", req[p].input)
<1>1. /\ phase[p] = "streaming" /\ ids' = ids /\ foreign' = foreign /\ answers' = answers
      /\ UNCHANGED <<file, cur, minted>> /\ Keeps(p, l, <<s>>, "idle")
  BY DEF Interrupted, bounds, shown
<1>2. /\ From(p, l) /\ Busy(p) /\ l.msgs \in Seq(Message) /\ req[p].input \in Nat
      /\ ids \in Nat /\ req[p].input <= ids
  BY <1>1, Streaming DEF Types
<1>3. s \in Message /\ s.role = "stop" /\ s.id = req[p].input
  BY <1>2, MsgIs
<1> HIDE DEF l, s
<1>4. <<s>> \in Seq(Message) /\ Range(<<s>>) = {s} /\ l.msgs \o <<s>> = Append(l.msgs, s)
  BY <1>2, <1>3 DEF Range
<1>5. /\ Works(p, l.msgs) /\ live'[p][cur[p]].msgs = l.msgs \o <<s>>
      /\ phase'[p] = "saving" /\ req'[p].after = "idle"
  BY <1>1, <1>2, <1>3, <1>4, KeepsWorks
<1>6. ASSUME ~foreign' PROVE Orderly(live'[p][cur[p]].msgs, ids') /\ OrderOf(p)'
  <2>1. Orderly(l.msgs, ids) /\ OrderInv
    BY <1>1, <1>6, StreamingOrder DEF l
  <2>2. s.role \notin {"user", "tool"} /\ s.role # "tool" /\ s.id <= ids
    BY <1>2, <1>3
  <2>3. Orderly(Append(l.msgs, s), ids)
    BY <1>2, <1>3, <2>1, <2>2, OrderlyPushed
  <2>4. OrderOf(p)'
    BY <1>5, <2>1, OwnClaims DEF Waiting
  <2> QED
    BY <1>1, <1>4, <1>5, <2>3, <2>4
<1> QED
  BY <1>1, <1>5, <1>6 DEF Fits
LEMMA RequiresActionDoes ==
  ASSUME Types, TurnInv, ~foreign => OrderInv, NEW p \in Procs, Types',
         \A q \in Procs \ {p} : Same(q), RequiresAction(p)
  PROVE  (\E h : Works(p, h)) /\ Fits(p) /\ answers' = answers
<1> DEFINE l == Mine(p)
           c == Msg("call", ids + 1)
           g == Append(l.msgs, c)
           r == [req[p] EXCEPT !.kind = "tools", !.id = ids + 1, !.tries = 0, !.after = "tools"]
<1>1. /\ phase[p] = "streaming" /\ ids' = ids + 1 /\ foreign' = foreign /\ answers' = answers
      /\ UNCHANGED <<file, cur, minted>> /\ Has(p, cur[p], [l EXCEPT !.msgs = g])
      /\ req' = [req EXCEPT ![p] = r] /\ Goes(p, "saving")
  BY DEF RequiresAction, shown
<1>0. ids \in Nat /\ ids + 1 \in Nat
  BY DEF Types
<1>2. /\ From(p, l) /\ l \in Held /\ l.msgs \in Seq(Message) /\ cur[p] \in Threads
      /\ req[p] \in Requests /\ req[p].input \in Nat /\ req[p].input <= ids
  BY <1>0, <1>1, Streaming
<1>3. c \in Message /\ c.role = "call" /\ c.id = ids + 1
  BY <1>0, MsgIs
<1>4. /\ phase'[p] = "saving" /\ req'[p].id = ids + 1 /\ req'[p].kind = "tools"
      /\ req'[p].input = req[p].input
  BY <1>1, <1>2 DEF Goes, Types, Requests
<1> HIDE DEF l, c, r
<1>5. g \in Seq(Message) /\ IsPrefixOf(l.msgs, g) /\ Range(g) = Range(l.msgs) \cup {c}
  BY <1>2, <1>3, Pushed
<1>6. /\ live'[p][cur[p]] \in Held /\ live'[p][cur[p]].msgs = g
      /\ live'[p][cur[p]].rev = l.rev /\ live'[p][cur[p]].dirty = l.dirty
      /\ live'[p][cur[p]].replaces = l.replaces
      /\ \A t \in Threads \ {cur[p]} : live'[p][t] = live[p][t]
  <2> DEFINE k == [l EXCEPT !.msgs = g]
  <2>1. /\ k \in Held /\ k.msgs = g /\ k.rev = l.rev /\ k.dirty = l.dirty
        /\ k.replaces = l.replaces
    BY <1>2, <1>5, Records
  <2>2. Has(p, cur[p], k)
    BY <1>1
  <2> HIDE DEF k, g
  <2>3. live'[p][cur[p]] = k /\ \A t \in Threads \ {cur[p]} : live'[p][t] = live[p][t]
    BY <1>2, <2>1, <2>2, Writing DEF Types
  <2> QED
    BY <2>1, <2>3
<1>7. req'[p].input <= ids'
  BY <1>0, <1>1, <1>2, <1>4
<1> HIDE DEF g
<1>8. Works(p, l.msgs)
  BY <1>0, <1>1, <1>2, <1>3, <1>4, <1>5, <1>6, <1>7 DEF Works, From
<1>9. ASSUME ~foreign' PROVE Orderly(live'[p][cur[p]].msgs, ids') /\ OrderOf(p)'
  <2>1. /\ Orderly(l.msgs, ids) /\ Cut(l.msgs) = {} /\ OrderInv
        /\ \A m \in Range(l.msgs) : m.id <= ids
    BY <1>1, <1>9, StreamingOrder DEF l
  <2>2. Orderly(l.msgs, ids + 1) /\ ids + 1 <= ids + 1
    <3>1. IsPrefixOf(l.msgs, l.msgs) /\ ids <= ids + 1
      BY <1>0, <1>2, PrefixSelf
    <3> QED
      BY <1>0, <1>2, <2>1, <3>1, OrderlyFront
  <2>3. Orderly(g, ids + 1)
    <3>1. c.role \notin {"user", "tool"} /\ c.role # "tool" /\ c.id <= ids + 1
      BY <1>3, <2>2
    <3> QED
      BY <1>0, <1>2, <1>3, <2>2, <3>1, OrderlyPushed DEF g
  <2>4. EndsWith(g, c)
    BY <1>2, <1>3, <2>1, CutPushed DEF g
  <2>5. First(req'[p]) \notin Range(g)
    <3>1. First(req'[p]).id = ids + 1 /\ First(req'[p]).role = "tool"
      BY <1>4 DEF First, Msg
    <3>2. \A m \in Range(l.msgs) : m.id # ids + 1
      <4>0. \A m \in Range(l.msgs) : m \in Message
        BY <1>2 DEF Range
      <4>1. \A m \in Range(l.msgs) : m.id \in Nat
        BY <4>0 DEF Message
      <4> QED
        BY <4>1, <1>0, <2>1
    <3> QED
      BY <1>3, <1>5, <3>1, <3>2
  <2>6. Msg("call", req'[p].id) = c
    BY <1>4 DEF c
  <2>7. OrderOf(p)'
    BY <1>4, <1>6, <1>8, <2>1, <2>4, <2>5, <2>6, OwnClaims
  <2> QED
    BY <1>1, <1>6, <2>3, <2>7
<1> QED
  BY <1>1, <1>8, <1>9 DEF Fits

LEMMA FailsDoes ==
  ASSUME Types, TurnInv, ~foreign => OrderInv, NEW p \in Procs, Types',
         \A q \in Procs \ {p} : Same(q), Fails(p)
  PROVE  (\E h : Works(p, h)) /\ Fits(p) /\ answers' = answers
<1> DEFINE l == RolledBack(p)
<1>1. /\ phase[p] = "streaming" /\ ids' = ids /\ foreign' = foreign /\ answers' = answers
      /\ UNCHANGED <<file, cur, minted>>
  BY DEF Fails, FailsOver, bounds, shown
<1>2. From(p, l) /\ req[p] \in Requests /\ Busy(p)
  BY <1>1, Streaming DEF Types
<1>3. ~foreign => /\ OrderInv /\ Orderly(l.msgs, ids) /\ First(req[p]) \notin Range(l.msgs)
                  /\ req[p].kind = "tools" => EndsWith(l.msgs, Msg("call", req[p].id))
  BY <1>1, StreamingOrder
<1> HIDE DEF l
<1>4. CASE Preserves(p, l)
  BY <1>1, <1>2, <1>3, <1>4, PreservesDoes
<1>5. CASE Has(p, cur[p], l) /\ Goes(p, "idle")
  <2>1. Works(p, l.msgs) /\ live'[p][cur[p]].msgs = l.msgs
    BY <1>2, <1>5, HasWorks
  <2>2. phase'[p] = "idle"
    BY <1>5 DEF Goes, Types
  <2>3. ASSUME ~foreign' PROVE Orderly(live'[p][cur[p]].msgs, ids') /\ OrderOf(p)'
    <3>1. OrderOf(p)'
      BY <1>1, <1>3, <2>1, <2>2, <2>3, OwnClaims DEF Waiting
    <3> QED
      BY <1>1, <1>3, <2>1, <2>3, <3>1
  <2> QED
    BY <1>1, <2>1, <2>3 DEF Fits
<1>6. CASE /\ Has(p, cur[p], l) /\ Goes(p, "retry")
           /\ req' = [req EXCEPT ![p].tries = @ + 1]
  <2>1. req'[p].id = req[p].id /\ req'[p].input = req[p].input /\ req'[p].kind = req[p].kind
    BY <1>2, <1>6 DEF Types, Requests
  <2>2. Works(p, l.msgs) /\ live'[p][cur[p]].msgs = l.msgs
    BY <1>2, <1>6, <2>1, HasWorks
  <2>3. phase'[p] = "retry"
    BY <1>6 DEF Goes, Types
  <2>4. ASSUME ~foreign' PROVE Orderly(live'[p][cur[p]].msgs, ids') /\ OrderOf(p)'
    <3>1. First(req'[p]) = First(req[p])
      BY <2>1 DEF First
    <3>2. Waiting(p)' => req[p].kind = "tools"
      BY <2>1, <2>3 DEF Waiting
    <3>3. OrderOf(p)'
      BY <1>1, <1>3, <2>1, <2>2, <2>3, <2>4, <3>1, <3>2, OwnClaims
    <3> QED
      BY <1>1, <1>3, <2>2, <2>4, <3>3
  <2> QED
    BY <1>1, <2>2, <2>4 DEF Fits
<1> QED
  BY <1>4, <1>5, <1>6 DEF Fails, FailsOver, l

(* A conversation that is looked up again in a round of tools.             *)
LEMMA LookedUp ==
  ASSUME Types, TurnInv, NEW p \in Procs, MayHold(p), phase[p] \in {"tools", "retry"},
         req[p].kind = "tools", UNCHANGED <<file, cur, bounds>>, Meets(p)
  PROVE  /\ From(p, HeldOr(p, file.msgs)) /\ Waiting(p) /\ Busy(p) /\ ids' = ids
         /\ (foreign => foreign') /\ UNCHANGED <<file, cur, minted>>
<1>1. ids' = ids /\ ids \in Nat /\ ids <= ids' /\ UNCHANGED <<file, cur, minted>>
  BY DEF bounds, Types
<1>2. Waiting(p) /\ Busy(p) /\ (foreign => foreign')
  BY DEF Waiting, Busy, Meets
<1>3. Alive(p) \/ (~foreign' => Answers(file, req[p]) \/ Cut(file.msgs) = {})
  BY DEF Meets
<1> QED
  BY <1>1, <1>2, <1>3, FromHeld

LEMMA RetryDoes ==
  ASSUME Types, TurnInv, ~foreign => OrderInv, NEW p \in Procs, Types',
         \A q \in Procs \ {p} : Same(q), Retry(p)
  PROVE  (\E h : Works(p, h)) /\ Fits(p) /\ answers' = answers
<1>1. /\ MayHold(p) /\ phase[p] = "retry" /\ Meets(p) /\ UNCHANGED <<file, cur, bounds, answers>>
      /\ ids' = ids /\ UNCHANGED <<file, cur, minted>> /\ ids \in Nat /\ ids <= ids'
      /\ req[p] \in Requests /\ Busy(p) /\ req[p].id \in Nat
  BY DEF Retry, bounds, Types, Busy, Requests
<1>2. CASE req[p].kind = "tools"
  <2>1. From(p, HeldOr(p, file.msgs)) /\ Waiting(p)
    BY <1>1, <1>2, LookedUp
  <2>2. IF Answers(HeldOr(p, file.msgs), req[p])
           THEN Streams(p, cur[p], HeldOr(p, file.msgs), req[p], Msg("tool", req[p].id))
           ELSE Has(p, cur[p], HeldOr(p, file.msgs)) /\ Goes(p, "idle") /\ UNCHANGED req
    BY <1>2 DEF Retry
  <2>3. Works(p, HeldOr(p, file.msgs).msgs) /\ Fits(p)
    BY <1>1, <2>1, <2>2, SubmitsDoes
  <2> QED
    BY <1>1, <2>3
<1>3. CASE req[p].kind # "tools"
  <2> DEFINE l == Repair(HeldOr(p, Repaired(file.msgs)))
             u == First(req[p])
  <2>1. req[p].kind = "message" /\ u = Msg("user", req[p].id) /\ foreign' = foreign
    BY <1>1, <1>3 DEF Requests, First, Meets, Types
  <2>2. Streams(p, cur[p], l, req[p], u)
    BY <1>3, <2>1 DEF Retry, MessageOver
  <2>3. From(p, l)
    BY <1>1, <2>1, FromHeld
  <2>4. req[p].id <= ids /\ req[p].input <= ids'
    BY <1>1 DEF TurnInv
  <2>5. u \in Message /\ u.role = "user" /\ u.id = req[p].id
    BY <1>1, <2>1, MsgIs
  <2>6. /\ Works(p, l.msgs) /\ live'[p][cur[p]].msgs = Append(l.msgs, u)
        /\ phase'[p] = "streaming" /\ req'[p].id = req[p].id /\ req'[p].kind = req[p].kind
    BY <1>1, <2>2, <2>3, <2>4, StreamsWorks
  <2>7. ASSUME ~foreign' PROVE Orderly(live'[p][cur[p]].msgs, ids') /\ OrderOf(p)'
    <3>1. OrderInv
      BY <2>1, <2>7
    <3>2. /\ l.msgs \in Seq(Message) /\ Orderly(l.msgs, ids) /\ Cut(l.msgs) = {}
          /\ u \notin Range(l.msgs)
      BY <1>1, <3>1, StartsInOrder
    <3> HIDE DEF l, u
    <3>3. Orderly(Append(l.msgs, u), ids) /\ Cut(Append(l.msgs, u)) = {}
      BY <1>1, <2>4, <2>5, <3>2, OrderlyPushed, CutPushed
    <3>4. OrderOf(p)'
      BY <1>1, <2>6, <3>1, <3>3, OwnClaims DEF Waiting
    <3> QED
      BY <1>1, <2>6, <3>3, <3>4
  <2> QED
    BY <1>1, <2>6, <2>7 DEF Fits
<1> QED
  BY <1>2, <1>3

LEMMA CancelledDoes ==
  ASSUME Types, TurnInv, ~foreign => OrderInv, NEW p \in Procs, Types',
         \A q \in Procs \ {p} : Same(q), RetryAborted(p) \/ ToolsCancelled(p)
  PROVE  (\E h : Works(p, h)) /\ Fits(p) /\ answers' = answers
<1>1. /\ MayHold(p) /\ phase[p] \in {"tools", "retry"} /\ Meets(p) /\ UNCHANGED <<file, cur, bounds, answers>>
      /\ ids' = ids /\ UNCHANGED <<file, cur, minted>> /\ ids \in Nat /\ ids <= ids' /\ Busy(p)
      /\ phase[p] = "tools" => req[p].kind = "tools"
  BY DEF RetryAborted, ToolsCancelled, bounds, Types, Busy, TurnInv, Waiting
<1>2. CASE req[p].kind = "tools"
  <2> DEFINE l == HeldOr(p, file.msgs)
  <2>1. From(p, l) /\ Waiting(p) /\ (foreign => foreign')
    BY <1>1, <1>2, LookedUp
  <2>2. Preserves(p, l)
    BY <1>2 DEF RetryAborted, ToolsCancelled
  <2>3. ~foreign => /\ OrderInv /\ Orderly(l.msgs, ids) /\ First(req[p]) \notin Range(l.msgs)
                    /\ Answers(l, req[p]) => EndsWith(l.msgs, Msg("call", req[p].id))
    BY <1>1, <1>2, <2>1, StartsInOrder
  <2> HIDE DEF l
  <2>4. Works(p, l.msgs) /\ Fits(p)
    BY <1>1, <1>2, <2>1, <2>2, <2>3, PreservesDoes
  <2> QED
    BY <1>1, <2>4
<1>3. CASE req[p].kind # "tools"
  <2> DEFINE l == HeldOr(p, Repaired(file.msgs))
  <2>1. foreign' = foreign
    BY <1>1, <1>3 DEF Meets, Types
  <2>2. From(p, l)
    BY <1>1, <2>1, FromHeld
  <2>3. Preserves(p, l)
    BY <1>1, <1>3 DEF RetryAborted, ToolsCancelled
  <2>4. ~foreign => OrderInv /\ Orderly(l.msgs, ids) /\ First(req[p]) \notin Range(l.msgs)
    BY <1>1, StartsInOrder
  <2> HIDE DEF l
  <2>5. Works(p, l.msgs) /\ Fits(p)
    BY <1>1, <1>3, <2>2, <2>3, <2>4, PreservesDoes
  <2> QED
    BY <1>1, <2>5
<1> QED
  BY <1>2, <1>3

LEMMA SubmitsAnswer ==
  ASSUME Types, TurnInv, ~foreign => OrderInv, NEW p \in Procs, Types',
         \A q \in Procs \ {p} : Same(q), Submits(p)
  PROVE  (\E h : Works(p, h)) /\ Fits(p) /\ answers' = answers
<1>1. /\ MayHold(p) /\ phase[p] = "tools" /\ Meets(p) /\ UNCHANGED <<file, cur, bounds, answers>>
      /\ req[p].kind = "tools"
      /\ IF Answers(HeldOr(p, file.msgs), req[p])
           THEN Streams(p, cur[p], HeldOr(p, file.msgs), req[p], Msg("tool", req[p].id))
           ELSE Has(p, cur[p], HeldOr(p, file.msgs)) /\ Goes(p, "idle") /\ UNCHANGED req
  BY DEF Submits, SubmitsOver, TurnInv, Waiting
<1>2. From(p, HeldOr(p, file.msgs)) /\ Waiting(p) /\ ids' = ids
  BY <1>1, LookedUp
<1>3. Works(p, HeldOr(p, file.msgs).msgs) /\ Fits(p)
  BY <1>1, <1>2, SubmitsDoes
<1> QED
  BY <1>1, <1>3
----------------------------------------------------------------------------
(* The parts of the invariant, after a step that works on a history.       *)
LEMMA TurnStep ==
  ASSUME Types, TurnInv, NEW p \in Procs, Types', \A q \in Procs \ {p} : Same(q), ids <= ids',
         phase'[p] \in {"streaming", "saving"} => Alive(p)',
         phase'[p] \notin {"away", "idle"} =>
           /\ \/ req'[p].id = req[p].id /\ Busy(p)
              \/ req'[p].id = ids + 1 /\ ids' = ids + 1
           /\ req'[p].input <= ids',
         phase'[p] # "retry" /\ Waiting(p)' => req'[p].kind = "tools",
         phase'[p] = "streaming" =>
           LET m == live'[p][cur'[p]].msgs
           IN  Len(m) = req'[p].base + 1 /\ m[Len(m)] = First(req'[p])
  PROVE  TurnInv'
<1>1. ids \in Nat /\ ids' \in Nat /\ \A q \in Procs : req[q].id \in Nat /\ req[q].input \in Nat
  BY DEF Types, Requests
<1>2. phase'[p] \notin {"away", "idle"} => req'[p].id \in 1..ids'
  BY <1>1 DEF TurnInv
<1>3. ASSUME NEW q \in Procs \ {p}
      PROVE  /\ phase'[q] \in {"streaming", "saving"} => Alive(q)'
             /\ phase'[q] \notin {"away", "idle"} => req'[q].id \in 1..ids' /\ req'[q].input <= ids'
             /\ phase'[q] # "retry" /\ Waiting(q)' => req'[q].kind = "tools"
             /\ phase'[q] = "streaming" =>
                  LET m == live'[q][cur'[q]].msgs
                  IN  Len(m) = req'[q].base + 1 /\ m[Len(m)] = First(req'[q])
             /\ \A x \in Procs \ {p} : q # x /\ Busy(q)' /\ Busy(x)' => req'[q].id # req'[x].id
             /\ Busy(q)' /\ Busy(p)' => req'[q].id # req'[p].id
  <2>1. live'[q] = live[q] /\ cur'[q] = cur[q] /\ phase'[q] = phase[q] /\ req'[q] = req[q]
    BY DEF Same
  <2>2. Busy(q) => req[q].id \in 1..ids /\ req[q].input <= ids
    BY DEF TurnInv
  <2>3. Busy(q) => req[q].id \in 1..ids' /\ req[q].input <= ids'
    BY <1>1, <2>2
  <2>4. /\ phase'[q] \in {"streaming", "saving"} => Alive(q)'
        /\ phase'[q] # "retry" /\ Waiting(q)' => req'[q].kind = "tools"
    BY <2>1 DEF TurnInv, Alive, Waiting
  <2>5. phase'[q] = "streaming" =>
          LET m == live'[q][cur'[q]].msgs
          IN  Len(m) = req'[q].base + 1 /\ m[Len(m)] = First(req'[q])
    BY <2>1 DEF TurnInv, Mine
  <2>6. \A x \in Procs \ {p} : q # x /\ Busy(q)' /\ Busy(x)' => req'[q].id # req'[x].id
    BY <2>1 DEF TurnInv, Busy, Same
  <2>7. ASSUME Busy(q)', Busy(p)' PROVE req'[q].id # req'[p].id
    <3>1. Busy(q)
      BY <2>1, <2>7 DEF Busy
    <3>2. CASE req'[p].id = req[p].id /\ Busy(p)
      BY <2>1, <3>1, <3>2 DEF TurnInv
    <3>3. CASE req'[p].id = ids + 1
      <4>1. req[q].id <= ids
        BY <2>2, <3>1, <1>1
      <4> QED
        BY <1>1, <2>1, <3>3, <4>1
    <3> QED
      BY <2>7, <3>2, <3>3 DEF Busy
  <2> QED
    BY <2>1, <2>3, <2>4, <2>5, <2>6, <2>7 DEF Busy
<1>4. phase'[p] = "streaming" => LET m == Mine(p)'.msgs IN Len(m) = req'[p].base + 1
                                                          /\ m[Len(m)] = First(req'[p])
  BY DEF Mine
<1>5. \A q \in Procs : Mine(q)' = live'[q][cur'[q]]
  BY DEF Mine
<1> QED
  BY <1>2, <1>3, <1>4, <1>5 DEF TurnInv, Busy, First

LEMMA WorksTurn ==
  ASSUME Types, TurnInv, NEW p \in Procs, Types', \A q \in Procs \ {p} : Same(q),
         NEW h, Works(p, h)
  PROVE  TurnInv' /\ Alive(p)'
<1>1. Alive(p)' /\ cur' = cur
  BY HoldsIs, ByokAssumption DEF Works, Alive
<1>2. phase'[p] = "streaming" =>
        LET m == live'[p][cur'[p]].msgs
        IN  Len(m) = req'[p].base + 1 /\ m[Len(m)] = First(req'[p])
  BY <1>1 DEF Works
<1> QED
  BY <1>1, <1>2, TurnStep DEF Works

LEMMA SettledSame ==
  ASSUME NEW q, NEW t, live'[q][t] = live[q][t], phase'[q] = phase[q], cur'[q] = cur[q],
         req'[q] = req[q]
  PROVE  Settled(q, t)' = Settled(q, t)
BY DEF Settled

LEMMA WorksSettled ==
  ASSUME Types, TurnInv, NEW p \in Procs, Types', NEW h, Works(p, h)
  PROVE  /\ Settled(p, cur[p])' \in Seq(Message) /\ h \in Seq(Message)
         /\ IsPrefixOf(h, Settled(p, cur[p])')
         /\ Base(p) \in Seq(Message) /\ Repaired(Base(p)) \in Seq(Message)
         /\ Cut(Repaired(Base(p))) = {} /\ IsPrefixOf(Repaired(Base(p)), h)
         /\ IsPrefixOf(Repaired(Base(p)), Settled(p, cur[p])')
         /\ IsPrefixOf(Repaired(Base(p)), Repaired(Settled(p, cur[p])'))
         /\ Range(Repaired(Base(p))) \subseteq Range(Repaired(Settled(p, cur[p])'))
<1> DEFINE l == live'[p][cur[p]]
<1>1. /\ l \in Held /\ l.msgs \in Seq(Message) /\ h \in Seq(Message) /\ cur' = cur
      /\ cur[p] \in Threads /\ IsPrefixOf(h, l.msgs) /\ IsPrefixOf(Repaired(Base(p)), h)
  BY HoldsIs DEF Works, Takes, Held
<1>2. Settled(p, cur[p])' \in Seq(Message) /\ IsPrefixOf(h, Settled(p, cur[p])')
  <2>1. CASE phase'[p] = "streaming"
    <3>1. Settled(p, cur[p])' = SubSeq(l.msgs, 1, Len(h))
      BY <1>1, <2>1 DEF Settled, Works
    <3>2. SubSeq(l.msgs, 1, Len(h)) = h
      BY <1>1 DEF IsPrefixOf
    <3> QED
      BY <1>1, <3>1, <3>2, PrefixSelf
  <2>2. CASE phase'[p] # "streaming"
    <3>1. Settled(p, cur[p])' = l.msgs
      BY <1>1, <2>2 DEF Settled
    <3> QED
      BY <1>1, <3>1
  <2> QED
    BY <2>1, <2>2
<1>3. Base(p) \in Seq(Message)
  <2>1. CASE ~Alive(p)
    <3>1. file # None
      BY <2>1 DEF Works, MayHold, Stored
    <3> QED
      BY <2>1, <3>1, HoldsIs DEF Base
  <2>2. CASE Alive(p) /\ phase[p] # "streaming"
    <3>1. Mine(p) \in Held
      BY <2>2, HoldsIs
    <3> QED
      BY <2>2, <3>1 DEF Base, Settled, Mine, Held
  <2>3. CASE Alive(p) /\ phase[p] = "streaming"
    <3>1. Base(p) = RolledBack(p).msgs /\ RolledBack(p) \in Held
      BY <2>3, RolledBackTypes DEF Base, Settled, Mine
    <3> QED
      BY <3>1 DEF Held
  <2> QED
    BY <2>1, <2>2, <2>3
<1> DEFINE b == Repaired(Base(p))
           n == Settled(p, cur[p])'
<1>4. b \in Seq(Message) /\ Cut(b) = {}
  BY <1>3, RepairedIs
<1> HIDE DEF l, b, n
<1>5. IsPrefixOf(b, n)
  BY <1>1, <1>2, <1>4, PrefixTrans DEF b, n
<1>6. IsPrefixOf(b, Repaired(n)) /\ Repaired(n) \in Seq(Message)
  BY <1>2, <1>4, <1>5, RepairedKeeps, RepairedIs DEF n
<1>7. Range(b) \subseteq Range(Repaired(n))
  BY <1>4, <1>6, PrefixRange
<1> QED
  BY <1>1, <1>2, <1>3, <1>4, <1>5, <1>6, <1>7 DEF b, n

LEMMA WorksRev ==
  ASSUME Types, TurnInv, RevInv, MintInv, PrivateInv, NEW p \in Procs, Types',
         \A q \in Procs \ {p} : Same(q), NEW h, Works(p, h)
  PROVE  RevInv' /\ MintInv' /\ PrivateInv'
<1>1. /\ cur' = cur /\ file' = file /\ minted' = minted /\ Rev' = Rev
      /\ cur[p] \in Threads /\ cur[p] # None /\ live'[p][cur[p]] \in Held
      /\ \A u \in Threads \ {cur[p]} : live'[p][u] = live[p][u]
      /\ \A q \in Procs \ {p} : live'[q] = live[q]
  BY HoldsIs, ByokAssumption DEF Works, Same, Rev
<1>2. Alive(p) \/ (file # None /\ Stored(cur[p]))
  BY DEF Works, MayHold, Stored
<1>3. live'[p][cur[p]].rev <= Rev
  <2>1. CASE Alive(p)
    <3>1. live[p][cur[p]] # None /\ live'[p][cur[p]].rev = live[p][cur[p]].rev
      BY <2>1 DEF Alive, Works, HeldOr, Mine
    <3> QED
      BY <1>1, <3>1 DEF RevInv
  <2>2. CASE ~Alive(p)
    <3>1. live'[p][cur[p]].rev = file.rev /\ Rev = file.rev /\ Rev \in Nat
      BY <1>2, <2>2, HoldsIs DEF Works, HeldOr, Loaded, Rev
    <3> QED
      BY <3>1
  <2> QED
    BY <2>1, <2>2
<1>4. ASSUME Stored(cur[p]), live'[p][cur[p]].rev = file.rev
      PROVE  IsPrefixOf(Repaired(file.msgs), Settled(p, cur[p])')
  <2>0. file # None /\ file.msgs \in Seq(Message) /\ Repaired(file.msgs) \in Seq(Message)
        /\ Cut(Repaired(file.msgs)) = {}
    BY <1>4, HoldsIs, RepairedIs DEF Stored
  <2>1. CASE Alive(p)
    <3>1. Base(p) = Settled(p, cur[p]) /\ live[p][cur[p]] # None
          /\ live[p][cur[p]].rev = file.rev
      BY <1>4, <2>1 DEF Alive, Works, HeldOr, Mine, Base
    <3>2. IsPrefixOf(Repaired(file.msgs), Base(p))
      BY <1>1, <1>4, <3>1 DEF RevInv
    <3>3. /\ Base(p) \in Seq(Message) /\ Repaired(Base(p)) \in Seq(Message)
          /\ Settled(p, cur[p])' \in Seq(Message)
          /\ IsPrefixOf(Repaired(Base(p)), Settled(p, cur[p])')
      BY WorksSettled
    <3> DEFINE n == Settled(p, cur[p])'
    <3> HIDE DEF n
    <3>4. IsPrefixOf(Repaired(file.msgs), Repaired(Base(p)))
      BY <2>0, <3>2, <3>3, RepairedKeeps
    <3>5. IsPrefixOf(Repaired(file.msgs), n)
      BY <2>0, <3>3, <3>4, PrefixTrans DEF n
    <3> QED
      BY <3>5 DEF n
  <2>2. CASE ~Alive(p)
    BY <2>2, WorksSettled DEF Base
  <2> QED
    BY <2>1, <2>2
<1>5. ASSUME NEW q \in Procs, NEW t \in Threads, q # p \/ t # cur[p]
      PROVE  live'[q][t] = live[q][t] /\ Settled(q, t)' = Settled(q, t)
  <2>1. live'[q][t] = live[q][t]
    BY <1>1, <1>5
  <2>2. CASE q # p
    BY <2>1, <2>2, SettledSame DEF Same
  <2>3. CASE q = p
    BY <1>1, <1>5, <2>1, <2>3 DEF Settled
  <2> QED
    BY <2>1, <2>2, <2>3
<1>6. RevInv'
  <2> SUFFICES ASSUME NEW q \in Procs, NEW t \in Threads, live'[q][t] # None
               PROVE  /\ live'[q][t].rev <= Rev
                      /\ Stored(t) /\ live'[q][t].rev = file.rev =>
                           IsPrefixOf(Repaired(file.msgs), Settled(q, t)')
    BY <1>1 DEF RevInv, Stored
  <2>1. CASE q = p /\ t = cur[p]
    <3>1. Settled(q, t)' = Settled(p, cur[p])'
      BY <1>1, <2>1 DEF Settled
    <3> QED
      BY <1>3, <1>4, <2>1, <3>1
  <2>2. CASE q # p \/ t # cur[p]
    <3>1. live'[q][t] = live[q][t] /\ Settled(q, t)' = Settled(q, t)
      BY <1>5, <2>2
    <3>2. /\ live[q][t].rev <= Rev
          /\ Stored(t) /\ live[q][t].rev = file.rev =>
               IsPrefixOf(Repaired(file.msgs), Settled(q, t))
      BY <3>1 DEF RevInv
    <3> QED
      BY <3>1, <3>2
  <2> QED
    BY <2>1, <2>2
<1>7. MintInv'
  BY <1>1, <1>5 DEF MintInv
<1>8. PrivateInv'
  <2> SUFFICES ASSUME NEW q \in Procs, NEW t \in Threads, live'[q][t] # None,
                      file = None \/ live'[q][t].replaces # None
               PROVE  ~Stored(t) /\ \A x \in Procs \ {q} : cur[x] # t /\ live'[x][t] = None
    BY <1>1 DEF PrivateInv, Stored
  <2>1. live[q][t] # None /\ (file = None \/ live[q][t].replaces # None)
    <3>1. CASE q = p /\ t = cur[p]
      <4>1. Alive(p)
        BY <1>2, <3>1 DEF Works, HeldOr, Loaded
      <4> QED
        BY <3>1, <4>1 DEF Alive, Works, HeldOr, Mine
    <3>2. CASE q # p \/ t # cur[p]
      BY <1>5, <3>2
    <3> QED
      BY <3>1, <3>2
  <2>2. ~Stored(t) /\ \A x \in Procs \ {q} : cur[x] # t /\ live[x][t] = None
    BY <2>1 DEF PrivateInv
  <2>3. \A x \in Procs \ {q} : live'[x][t] = live[x][t]
    BY <1>5, <2>2
  <2> QED
    BY <2>2, <2>3
<1> QED
  BY <1>6, <1>7, <1>8
KeptOf(p) ==
  /\ cur[p] = None => Due(p) = {}
  /\ ~foreign /\ Alive(p) => Due(p) \subseteq Range(Repaired(Settled(p, cur[p])))
  /\ ~foreign /\ phase[p] # "saving" /\ Stored(cur[p]) /\ ~(Alive(p) /\ Mine(p).dirty) =>
       Due(p) \subseteq Range(Repaired(file.msgs))

LEMMA KeptSame ==
  ASSUME NEW p, KeptOf(p), Same(p), file' = file, foreign => foreign', foreign' \in BOOLEAN
  PROVE  KeptOf(p)'
<1>1. /\ Alive(p)' <=> Alive(p)
      /\ Mine(p)' = Mine(p) /\ Settled(p, cur[p])' = Settled(p, cur[p])
      /\ Stored(cur[p])' <=> Stored(cur[p])
  BY DEF Same, Alive, Mine, Settled, Stored
<1> QED
  BY <1>1 DEF KeptOf, Same

LEMMA WorksKept ==
  ASSUME Types, TurnInv, KeptInv, NEW p \in Procs, Types',
         \A q \in Procs \ {p} : Same(q), NEW h, Works(p, h),
         \/ Due(p)' = Due(p)
         \/ /\ Due(p)' = Range(live'[p][cur[p]].msgs) /\ phase'[p] = "saving"
            /\ ~foreign => Cut(live'[p][cur[p]].msgs) = {}
  PROVE  KeptInv'
<1>0. /\ file' = file /\ cur' = cur /\ (foreign => foreign') /\ foreign' \in BOOLEAN
      /\ cur[p] # None /\ cur[p] \in Threads /\ phase[p] # "saving"
      /\ live'[p][cur[p]].dirty = HeldOr(p, file.msgs).dirty
  BY HoldsIs DEF Works, Types, MayHold
<1>1. \A q \in Procs \ {p} : KeptOf(q)'
  BY <1>0, KeptSame DEF KeptInv, KeptOf
<1>2. /\ cur'[p] = None => Due(p)' = {}
  BY <1>0
<1>3. ASSUME Due(p)' = Due(p), ~foreign'
      PROVE  Due(p) \subseteq Range(Repaired(Base(p)))
  <2>1. CASE Alive(p)
    BY <1>0, <1>3, <2>1 DEF KeptInv, Base
  <2>2. CASE ~Alive(p)
    <3>1. Stored(cur[p])
      BY <2>2 DEF Works, MayHold
    <3> QED
      BY <1>0, <1>3, <2>2, <3>1 DEF KeptInv, Base
  <2> QED
    BY <2>1, <2>2
<1>4. ASSUME ~foreign' PROVE Due(p)' \subseteq Range(Repaired(Settled(p, cur[p])'))
  <2>1. CASE Due(p)' = Due(p)
    BY <1>3, <1>4, <2>1, WorksSettled
  <2>2. CASE /\ Due(p)' = Range(live'[p][cur[p]].msgs) /\ phase'[p] = "saving"
             /\ ~foreign => Cut(live'[p][cur[p]].msgs) = {}
    <3>1. Settled(p, cur[p])' = live'[p][cur[p]].msgs /\ Cut(live'[p][cur[p]].msgs) = {}
      BY <1>0, <1>4, <2>2 DEF Settled
    <3>2. Repaired(live'[p][cur[p]].msgs) = live'[p][cur[p]].msgs
      BY <3>1 DEF Repaired
    <3> QED
      BY <2>2, <3>1, <3>2
  <2> QED
    BY <2>1, <2>2
<1>5. ASSUME ~foreign', phase'[p] # "saving", Stored(cur[p]), ~live'[p][cur[p]].dirty
      PROVE  Due(p)' \subseteq Range(Repaired(file.msgs))
  <2>1. Due(p)' = Due(p)
    BY <1>5
  <2>2. ~(Alive(p) /\ Mine(p).dirty)
    BY <1>0, <1>5 DEF HeldOr
  <2> QED
    BY <1>0, <1>5, <2>1, <2>2 DEF KeptInv
<1>6. Alive(p)' /\ Mine(p)' = live'[p][cur[p]] /\ (Stored(cur[p])' <=> Stored(cur[p]))
  BY <1>0, WorksTurn DEF Mine, Stored
<1>7. KeptOf(p)'
  <2>1. ~foreign' /\ Alive(p)' => Due(p)' \subseteq Range(Repaired(Settled(p, cur[p])'))
    BY <1>4
  <2>2. ~foreign' /\ phase'[p] # "saving" /\ Stored(cur[p])' /\ ~(Alive(p)' /\ Mine(p)'.dirty) =>
          Due(p)' \subseteq Range(Repaired(file'.msgs))
    BY <1>0, <1>5, <1>6
  <2> QED
    BY <1>2, <2>1, <2>2 DEF KeptOf
<1> QED
  BY <1>1, <1>7 DEF KeptInv, KeptOf

(* The claims of the others.                                               *)
LEMMA WorksOrder ==
  ASSUME Types, TurnInv, OrderInv, NEW p \in Procs, Types', TurnInv',
         \A q \in Procs \ {p} : Same(q), NEW h, Works(p, h), Fits(p), ~foreign'
  PROVE  OrderInv'
<1> DEFINE l == live'[p][cur[p]]
<1>1. /\ cur' = cur /\ file' = file /\ cur[p] \in Threads /\ ids \in Nat /\ ids' \in Nat
      /\ ids <= ids' /\ l # None /\ l \in Held
      /\ \A u \in Threads \ {cur[p]} : live'[p][u] = live[p][u]
      /\ \A q \in Procs \ {p} : live'[q] = live[q]
      /\ Orderly(l.msgs, ids') /\ OrderOf(p)'
  BY HoldsIs, ByokAssumption DEF Works, Same, Types, Fits
<1>2. file # None => Orderly(file.msgs, ids')
  <2>1. ASSUME file # None PROVE Orderly(file.msgs, ids')
    <3>1. file.msgs \in Seq(Message) /\ Orderly(file.msgs, ids)
      BY <2>1, HoldsIs DEF OrderInv
    <3>2. IsPrefixOf(file.msgs, file.msgs)
      BY <3>1, PrefixSelf
    <3> QED
      BY <1>1, <3>1, <3>2, OrderlyFront
  <2> QED
    BY <2>1
<1>3. ASSUME NEW q \in Procs, NEW t \in Threads, live'[q][t] # None
      PROVE  Orderly(live'[q][t].msgs, ids')
  <2>1. CASE q = p /\ t = cur[p]
    BY <1>1, <2>1
  <2>2. CASE q # p \/ t # cur[p]
    <3>1. live'[q][t] = live[q][t] /\ live[q][t] # None
      BY <1>1, <1>3, <2>2
    <3>2. Orderly(live[q][t].msgs, ids) /\ live[q][t].msgs \in Seq(Message)
      BY <3>1 DEF OrderInv, Types, Held
    <3>3. IsPrefixOf(live[q][t].msgs, live[q][t].msgs)
      BY <3>2, PrefixSelf
    <3> QED
      BY <1>1, <3>1, <3>2, <3>3, OrderlyFront
  <2> QED
    BY <2>1, <2>2
<1> HIDE DEF l
<1>4. ASSUME NEW q \in Procs \ {p} PROVE OrderOf(q)'
  <2>1. /\ live'[q] = live[q] /\ cur'[q] = cur[q] /\ phase'[q] = phase[q] /\ req'[q] = req[q]
        /\ q # p
    BY DEF Same
  <2> DEFINE call == Msg("call", req[q].id)
             first == First(req[q])
  <2>2. ASSUME NEW m, m \in Range(l.msgs), m = call \/ m = first, Busy(q)
        PROVE  m \in Range(h)
    <3>1. m.id = req[q].id /\ m.role \notin {"text", "stop"}
      BY <2>2 DEF First, Msg
    <3>2. phase'[p] \notin {"away", "idle"} => req'[p].id # req[q].id
      BY <2>1, <2>2 DEF TurnInv, Busy
    <3> QED
      BY <2>2, <3>1, <3>2 DEF Works, l
  <2>3. Alive(p) => Range(h) \subseteq Range(live[p][cur[p]].msgs) /\ live[p][cur[p]] # None
    BY DEF Works, Takes, HeldOr, Mine, Alive
  <2>4. ~Alive(p) => Range(h) \subseteq Range(file.msgs) /\ file # None
    BY DEF Works, Takes, HeldOr, Loaded, MayHold, Stored
  <2>5. ASSUME Waiting(q) \/ phase[q] \in {"retry", "streaming"}
        PROVE  first \notin Range(l.msgs) /\ ~InFile(first)
    <3>0. Busy(q)
      BY <2>5 DEF Waiting, Busy
    <3>1. ~InFile(first)
      BY <2>5 DEF OrderInv, OrderOf
    <3>2. ~InLive(p, cur[p], first)
      BY <1>1, <2>1, <2>5 DEF OrderInv, OrderOf
    <3>3. first \notin Range(h)
      BY <2>3, <2>4, <3>1, <3>2 DEF InFile, InLive
    <3> QED
      BY <2>2, <3>0, <3>1, <3>3
  <2>6. ASSUME Waiting(q) \/ (phase[q] = "streaming" /\ req[q].kind = "tools")
        PROVE  call \notin Range(l.msgs) /\ (InFile(call) => EndsWith(file.msgs, call))
    <3>0. Busy(q) /\ req[q].kind = "tools" /\ first = Msg("tool", req[q].id) /\ req[q].id \in Nat
      BY <2>6 DEF Waiting, Busy, TurnInv, First, Types, Requests
    <3>1. InFile(call) => EndsWith(file.msgs, call)
      BY <2>6 DEF OrderInv, OrderOf
    <3>2. ~InLive(p, cur[p], call)
      BY <1>1, <2>1, <2>6 DEF OrderInv, OrderOf
    <3>3. call \notin Range(h)
      <4>1. CASE Alive(p)
        BY <2>3, <3>2, <4>1 DEF InLive
      <4>2. CASE ~Alive(p)
        <5> SUFFICES ASSUME call \in Range(h) PROVE FALSE
          OBVIOUS
        <5>1. file # None /\ InFile(call) /\ EndsWith(file.msgs, call) /\ file.msgs \in Seq(Message)
          BY <2>4, <3>1, <4>2, HoldsIs DEF InFile
        <5>2. Msg("tool", req[q].id) \notin Range(file.msgs)
          BY <2>5, <2>6, <3>0, <5>1 DEF InFile
        <5>3. call \notin Range(Repaired(file.msgs))
          BY <3>0, <5>1, <5>2, OpenIsCut
        <5>4. Waiting(p) /\ (Answers(file, req[p]) \/ Cut(file.msgs) = {})
          BY <4>2, <5>3 DEF Works, Takes
        <5>5. Cut(file.msgs) # {}
          BY <5>1 DEF EndsWith
        <5>6. req[p].kind = "tools"
          BY <5>4 DEF Waiting, TurnInv
        <5>7. InFile(Msg("call", req[p].id))
          BY <5>1, <5>4, <5>5, <5>6 DEF Answers, InFile
        <5>8. EndsWith(file.msgs, Msg("call", req[p].id))
          BY <5>4, <5>7 DEF OrderInv, OrderOf
        <5>9. Msg("call", req[p].id) = call
          BY <5>1, <5>8 DEF EndsWith
        <5>10. req[p].id = req[q].id
          BY <5>9 DEF Msg
        <5> QED
          BY <2>1, <3>0, <5>4, <5>10 DEF TurnInv, Waiting, Busy
      <4> QED
        BY <4>1, <4>2
    <3> QED
      BY <2>2, <3>0, <3>1, <3>3
  <2>7. PICK c, f : c = call /\ f = first
    OBVIOUS
  <2>8. /\ Msg("call", req'[q].id) = c /\ First(req'[q]) = f
        /\ (Waiting(q)' <=> Waiting(q))
    BY <2>1, <2>7 DEF Waiting, First
  <2>9. \A x : \A r \in Procs, t \in Threads :
          InLive(r, t, x)' => InLive(r, t, x) \/ (r = p /\ t = cur[p] /\ x \in Range(l.msgs))
    BY <1>1 DEF InLive, l
  <2>10. \A x : InFile(x)' <=> InFile(x)
    BY <1>1 DEF InFile
  <2>11. \A x : InLive(q, cur[q], x)' <=> InLive(q, cur[q], x)
    BY <2>1 DEF InLive
  <2> HIDE DEF call, first
  <2>12. phase'[q] = "streaming" => Cut(Mine(q)'.msgs) = {}
    BY <2>1 DEF OrderInv, OrderOf, Mine
  <2>13. ASSUME Waiting(q) \/ phase[q] \in {"retry", "streaming"}
         PROVE  /\ ~InFile(f)'
                /\ \A r \in Procs, t \in Threads :
                     (phase[q] = "streaming" => r # q \/ t # cur[q]) => ~InLive(r, t, f)'
    <3>1. \A r \in Procs, t \in Threads :
             (phase[q] = "streaming" => r # q \/ t # cur[q]) => ~InLive(r, t, f)
      BY <2>7, <2>13 DEF OrderInv, OrderOf, first
    <3> QED
      BY <2>5, <2>7, <2>9, <2>10, <2>13, <3>1
  <2>14. ASSUME Waiting(q) \/ (phase[q] = "streaming" /\ req[q].kind = "tools")
         PROVE  /\ InFile(c)' => EndsWith(file.msgs, c)
                /\ \A r \in Procs, t \in Threads : InLive(r, t, c)' => r = q /\ t = cur[q]
    <3>1. \A r \in Procs, t \in Threads : InLive(r, t, c) => r = q /\ t = cur[q]
      BY <2>7, <2>14 DEF OrderInv, OrderOf, call
    <3> QED
      BY <2>6, <2>7, <2>9, <2>10, <2>14, <3>1
  <2>15. ASSUME Waiting(q), Alive(q)', InLive(q, cur[q], c)' PROVE EndsWith(Mine(q)'.msgs, c)
    <3>1. Alive(q) /\ Mine(q)' = Mine(q) /\ InLive(q, cur[q], c)
      BY <2>1, <2>11, <2>15 DEF Alive, Mine
    <3>2. EndsWith(Mine(q).msgs, c)
      BY <2>7, <2>15, <3>1 DEF OrderInv, OrderOf, call
    <3> QED
      BY <3>1, <3>2
  <2> QED
    BY <1>1, <2>1, <2>8, <2>12, <2>13, <2>14, <2>15 DEF OrderOf
<1>5. \A q \in Procs : OrderOf(q)'
  BY <1>1, <1>4
<1> QED
  BY <1>1, <1>2, <1>3, <1>5 DEF OrderInv

(* A step that works on a history keeps the invariant.                     *)
LEMMA WorksAll ==
  ASSUME IInv, NEW p \in Procs, Types', \A q \in Procs \ {p} : Same(q), NEW h, Works(p, h), Fits(p),
         \/ Due(p)' = Due(p)
         \/ /\ Due(p)' = Range(live'[p][cur[p]].msgs) /\ phase'[p] = "saving"
            /\ ~foreign => Cut(live'[p][cur[p]].msgs) = {}
  PROVE  IInv'
<1>1. TurnInv'
  BY WorksTurn DEF IInv
<1>2. RevInv' /\ MintInv' /\ PrivateInv'
  BY WorksRev DEF IInv
<1>3. KeptInv'
  BY WorksKept DEF IInv
<1>4. ~foreign' => OrderInv'
  BY <1>1, WorksOrder DEF IInv, Works
<1> QED
  BY <1>1, <1>2, <1>3, <1>4 DEF IInv
----------------------------------------------------------------------------
(* The steps that lengthen no history.                                     *)
Old(p, t) ==
  /\ live[p][t] # None /\ live'[p][t].msgs = live[p][t].msgs
  /\ live'[p][t].rev = live[p][t].rev /\ live'[p][t].replaces = live[p][t].replaces

Quiet(p) ==
  /\ file' = file /\ ids' = ids /\ minted' = minted /\ foreign' = foreign
  /\ \A t \in Threads : live'[p][t] # None =>
       Old(p, t) \/ (Stored(t) /\ live'[p][t] = Loaded(Repaired(file.msgs)))
  /\ cur'[p] \in {cur[p], None} \/ Stored(cur'[p])
  /\ \/ /\ phase'[p] \in {"away", "idle"}
        /\ phase[p] = "streaming" => \A t \in Threads : live'[p][t] = None
     \/ /\ phase[p] = "saving" /\ Waiting(p) /\ phase'[p] = "tools"
        /\ req'[p] = req[p] /\ cur'[p] = cur[p]
        /\ \A t \in Threads : live'[p][t] # None => Old(p, t)
     \/ /\ phase'[p] = phase[p] /\ req'[p] = req[p] /\ cur'[p] = cur[p]
        /\ phase[p] \in {"streaming", "saving"} => live'[p] = live[p]
        /\ \A t \in Threads : live'[p][t] # None => Old(p, t)

LEMMA QuietTurn ==
  ASSUME Types, TurnInv, NEW p \in Procs, Types', \A q \in Procs \ {p} : Same(q), Quiet(p)
  PROVE  TurnInv'
<1>1. ids' = ids /\ ids \in Nat /\ ids <= ids'
  BY DEF Quiet, Types
<1>2. phase'[p] \notin {"away", "idle"} =>
        Busy(p) /\ req'[p].id = req[p].id /\ req'[p].input <= ids'
  BY <1>1 DEF Quiet, Busy, TurnInv
<1>3. phase'[p] \in {"streaming", "saving"} => Alive(p)'
  BY DEF Quiet, TurnInv, Alive
<1>4. phase'[p] # "retry" /\ Waiting(p)' => req'[p].kind = "tools"
  BY DEF Quiet, TurnInv, Waiting
<1>5. phase'[p] = "streaming" =>
        LET m == live'[p][cur'[p]].msgs IN Len(m) = req'[p].base + 1 /\ m[Len(m)] = First(req'[p])
  BY DEF Quiet, TurnInv, Mine
<1> QED
  BY <1>1, <1>2, <1>3, <1>4, <1>5, TurnStep

LEMMA QuietRev ==
  ASSUME Types, TurnInv, RevInv, MintInv, PrivateInv, NEW p \in Procs, Types',
         \A q \in Procs \ {p} : Same(q), Quiet(p)
  PROVE  RevInv' /\ MintInv' /\ PrivateInv'
<1>1. /\ file' = file /\ minted' = minted /\ Rev' = Rev /\ Rev \in Nat
      /\ \A q \in Procs \ {p} : live'[q] = live[q] /\ cur'[q] = cur[q]
      /\ \A t \in Threads : t # None
  BY HoldsIs, ByokAssumption DEF Quiet, Same, Rev
<1>2. ASSUME NEW t \in Threads, live'[p][t] # None
      PROVE  \/ live[p][t] # None /\ live'[p][t].rev = live[p][t].rev /\ Settled(p, t)' = Settled(p, t)
             \/ /\ Stored(t) /\ live'[p][t].rev = file.rev /\ file.rev = Rev
                /\ Settled(p, t)' = Repaired(file.msgs)
  <2>1. CASE phase[p] = "streaming"
    <3>1. /\ phase'[p] = phase[p] /\ req'[p] = req[p] /\ cur'[p] = cur[p] /\ live'[p] = live[p]
      BY <1>2, <2>1 DEF Quiet
    <3> QED
      BY <1>2, <3>1, SettledSame
  <2>2. CASE phase[p] # "streaming"
    <3>1. phase'[p] # "streaming"
      BY <2>2 DEF Quiet
    <3>2. Settled(p, t)' = live'[p][t].msgs /\ Settled(p, t) = live[p][t].msgs
      BY <2>2, <3>1 DEF Settled
    <3>3. CASE Old(p, t)
      BY <3>2, <3>3 DEF Old
    <3>4. CASE Stored(t) /\ live'[p][t] = Loaded(Repaired(file.msgs))
      BY <3>2, <3>4 DEF Loaded, Stored, Rev
    <3> QED
      BY <1>2, <3>3, <3>4 DEF Quiet
  <2> QED
    BY <2>1, <2>2
<1>3. RevInv'
  <2> SUFFICES ASSUME NEW q \in Procs, NEW t \in Threads, live'[q][t] # None
               PROVE  /\ live'[q][t].rev <= Rev
                      /\ Stored(t) /\ live'[q][t].rev = file.rev =>
                           IsPrefixOf(Repaired(file.msgs), Settled(q, t)')
    BY <1>1 DEF RevInv, Stored
  <2>1. CASE live[q][t] # None /\ live'[q][t].rev = live[q][t].rev /\ Settled(q, t)' = Settled(q, t)
    <3>1. /\ live[q][t].rev <= Rev
          /\ Stored(t) /\ live[q][t].rev = file.rev =>
               IsPrefixOf(Repaired(file.msgs), Settled(q, t))
      BY <2>1 DEF RevInv
    <3> QED
      BY <2>1, <3>1
  <2>2. CASE q # p
    <3>1. live'[q][t] = live[q][t] /\ Settled(q, t)' = Settled(q, t)
      BY <2>2, SettledSame DEF Same
    <3> QED
      BY <2>1, <3>1
  <2>3. CASE q = p /\ Stored(t) /\ live'[q][t].rev = file.rev /\ file.rev = Rev
             /\ Settled(q, t)' = Repaired(file.msgs)
    <3>1. Repaired(file.msgs) \in Seq(Message)
      BY <2>3, HoldsIs DEF Stored
    <3>2. IsPrefixOf(Repaired(file.msgs), Repaired(file.msgs))
      BY <3>1, PrefixSelf
    <3> QED
      BY <1>1, <2>3, <3>2
  <2> QED
    BY <1>2, <2>1, <2>2, <2>3
<1>4. MintInv'
  BY <1>1 DEF MintInv, Quiet, Old, Stored
<1>5. PrivateInv'
  <2> SUFFICES ASSUME NEW q \in Procs, NEW t \in Threads, live'[q][t] # None,
                      file = None \/ live'[q][t].replaces # None
               PROVE  ~Stored(t) /\ \A x \in Procs \ {q} : cur'[x] # t /\ live'[x][t] = None
    BY <1>1 DEF PrivateInv, Stored
  <2>1. live[q][t] # None /\ (file = None \/ live[q][t].replaces # None)
    BY <1>1 DEF Quiet, Old, Loaded, Stored
  <2>2. ~Stored(t) /\ \A x \in Procs \ {q} : cur[x] # t /\ live[x][t] = None
    BY <2>1 DEF PrivateInv
  <2>3. ASSUME NEW x \in Procs \ {q} PROVE cur'[x] # t /\ live'[x][t] = None
    BY <1>1, <2>2 DEF Quiet, Old
  <2> QED
    BY <2>2, <2>3
<1> QED
  BY <1>3, <1>4, <1>5

(* The order of histories after a step that lengthens none, and may save   *)
(* the one that p has at hand.                                             *)
LEMMA OrderStill ==
  ASSUME Types, TurnInv, OrderInv, NEW p \in Procs, Types', \A q \in Procs \ {p} : Same(q), ids' = ids,
         \/ file' = file
         \/ /\ file' # None /\ Alive(p) /\ phase[p] = "saving"
            /\ file'.msgs = live[p][cur[p]].msgs,
         \A t \in Threads : live'[p][t] # None =>
            \/ live[p][t] # None /\ live'[p][t].msgs = live[p][t].msgs
            \/ file # None /\ live'[p][t].msgs = Repaired(file.msgs),
         \/ phase'[p] \in {"away", "idle"}
         \/ /\ req'[p] = req[p] /\ cur'[p] = cur[p]
            /\ phase'[p] = phase[p] \/ (phase[p] = "saving" /\ Waiting(p) /\ phase'[p] = "tools")
            /\ phase'[p] = "streaming" => live'[p] = live[p]
            /\ \A t \in Threads : live'[p][t] # None =>
                 live[p][t] # None /\ live'[p][t].msgs = live[p][t].msgs
  PROVE  OrderInv'
<1>1. Alive(p) => cur[p] \in Threads
  BY HoldsIs
<1>2. file' # None => Orderly(file'.msgs, ids')
  BY <1>1 DEF OrderInv, Alive
<1>3. ASSUME NEW q \in Procs, NEW t \in Threads, live'[q][t] # None
      PROVE  Orderly(live'[q][t].msgs, ids')
  <2>1. CASE live[q][t] # None /\ live'[q][t].msgs = live[q][t].msgs
    BY <2>1 DEF OrderInv
  <2>2. CASE file # None /\ live'[q][t].msgs = Repaired(file.msgs)
    <3>1. /\ file.msgs \in Seq(Message) /\ Repaired(file.msgs) \in Seq(Message)
          /\ IsPrefixOf(Repaired(file.msgs), file.msgs) /\ ids \in Nat /\ ids <= ids
      BY <2>2, HoldsIs, RepairedIs DEF Types
    <3>2. Orderly(Repaired(file.msgs), ids)
      BY <2>2, <3>1, OrderlyFront DEF OrderInv
    <3> QED
      BY <2>2, <3>2
  <2> QED
    BY <1>3, <2>1, <2>2 DEF Same
<1>4. \A x : InFile(x)' => \/ InFile(x)
                           \/ /\ InLive(p, cur[p], x) /\ Alive(p) /\ phase[p] = "saving"
                              /\ file'.msgs = Mine(p).msgs
  BY DEF InFile, InLive, Alive, Mine
<1>5. \A x : \A q \in Procs, t \in Threads :
        InLive(q, t, x)' => InLive(q, t, x) \/ (file # None /\ x \in Range(Repaired(file.msgs)))
  BY DEF InLive, Same
<1>6. \A x : file # None /\ x \in Range(Repaired(file.msgs)) => InFile(x)
  BY HoldsIs, RepairedIs, PrefixRange DEF InFile
<1>7. ASSUME NEW q \in Procs, phase'[q] \notin {"away", "idle"}, req'[q] = req[q], cur'[q] = cur[q],
             phase'[q] = phase[q] \/ (phase[q] = "saving" /\ Waiting(q) /\ phase'[q] = "tools"),
             phase'[q] = "streaming" => live'[q] = live[q],
             \A t \in Threads : live'[q][t] # None =>
               live[q][t] # None /\ live'[q][t].msgs = live[q][t].msgs
      PROVE  OrderOf(q)'
  <2>1. PICK c, f : c = Msg("call", req[q].id) /\ f = First(req[q])
    OBVIOUS
  <2>2. Msg("call", req'[q].id) = c /\ First(req'[q]) = f /\ (Waiting(q)' => Waiting(q))
    BY <1>7, <2>1 DEF Waiting, First
  <2>3. phase'[q] = "streaming" => phase[q] = "streaming" /\ Cut(Mine(q)'.msgs) = {}
    BY <1>7 DEF OrderInv, OrderOf, Mine
  <2>4. ASSUME Waiting(q) \/ phase[q] \in {"retry", "streaming"}
        PROVE  /\ ~InFile(f)' /\ ~InFile(f)
               /\ \A r \in Procs, t \in Threads :
                    (phase[q] = "streaming" => r # q \/ t # cur[q]) => ~InLive(r, t, f)'
    <3>1. /\ ~InFile(f)
          /\ \A r \in Procs, t \in Threads :
               (phase[q] = "streaming" => r # q \/ t # cur[q]) => ~InLive(r, t, f)
      BY <2>1, <2>4 DEF OrderInv, OrderOf
    <3>2. ~InFile(f)'
      <4>1. Alive(p) /\ phase[p] = "saving" => ~InLive(p, cur[p], f)
        BY <1>1, <3>1
      <4> QED
        BY <1>4, <3>1, <4>1
    <3> QED
      BY <1>5, <1>6, <3>1, <3>2
  <2>5. ASSUME Waiting(q) \/ (phase[q] = "streaming" /\ req[q].kind = "tools")
        PROVE  /\ InFile(c)' => EndsWith(file'.msgs, c)
               /\ \A r \in Procs, t \in Threads : InLive(r, t, c)' => r = q /\ t = cur[q]
    <3>1. /\ InFile(c) => EndsWith(file.msgs, c)
          /\ \A r \in Procs, t \in Threads : InLive(r, t, c) => r = q /\ t = cur[q]
          /\ Waiting(q) /\ Alive(q) /\ InLive(q, cur[q], c) => EndsWith(Mine(q).msgs, c)
      BY <2>1, <2>5 DEF OrderInv, OrderOf
    <3>2. file # None => c \notin Range(Repaired(file.msgs))
      <4> SUFFICES ASSUME file # None, c \in Range(Repaired(file.msgs)) PROVE FALSE
        OBVIOUS
      <4>1. EndsWith(file.msgs, c) /\ file.msgs \in Seq(Message)
        BY <1>6, <3>1, HoldsIs
      <4>2. f = Msg("tool", req[q].id) /\ req[q].id \in Nat /\ f \notin Range(file.msgs)
        <5>1. req[q].kind = "tools" /\ req[q].id \in Nat
          BY <2>5 DEF TurnInv, Types, Requests, Waiting
        <5>2. ~InFile(f)
          BY <2>4, <2>5
        <5> QED
          BY <2>1, <5>1, <5>2 DEF First, InFile
      <4> QED
        BY <2>1, <4>1, <4>2, OpenIsCut
    <3>3. InFile(c)' => EndsWith(file'.msgs, c)
      <4>1. CASE InFile(c) /\ file' = file
        BY <3>1, <4>1
      <4>2. CASE /\ InLive(p, cur[p], c) /\ Alive(p) /\ phase[p] = "saving"
                 /\ file'.msgs = Mine(p).msgs
        <5>1. q = p
          BY <1>1, <3>1, <4>2
        <5>2. EndsWith(Mine(q).msgs, c)
          BY <2>5, <3>1, <4>2, <5>1
        <5> QED
          BY <4>2, <5>1, <5>2
      <4> QED
        BY <4>1, <4>2 DEF InFile, InLive, Alive, Mine
    <3> QED
      BY <1>5, <3>1, <3>2, <3>3
  <2>6. ASSUME Waiting(q), Alive(q)', InLive(q, cur[q], c)' PROVE EndsWith(Mine(q)'.msgs, c)
    <3>1. Alive(q) /\ Mine(q)'.msgs = Mine(q).msgs /\ InLive(q, cur[q], c)
      <4>1. cur[q] \in Threads /\ cur[q] # None /\ live'[q][cur[q]] # None
        BY <1>7, <2>6 DEF Alive, Types
      <4> QED
        BY <1>7, <2>6, <4>1 DEF Alive, Mine, InLive
    <3> QED
      BY <2>1, <2>6, <3>1 DEF OrderInv, OrderOf
  <2> QED
    BY <1>7, <2>2, <2>3, <2>4, <2>5, <2>6 DEF OrderOf
<1>8. ASSUME NEW q \in Procs PROVE OrderOf(q)'
  <2>1. CASE phase'[q] \in {"away", "idle"}
    BY <2>1 DEF OrderOf, Waiting
  <2>2. CASE phase'[q] \notin {"away", "idle"} /\ q = p
    BY <1>7, <2>2
  <2>3. CASE phase'[q] \notin {"away", "idle"} /\ q # p
    BY <1>7, <2>3 DEF Same
  <2> QED
    BY <2>1, <2>2, <2>3
<1> QED
  BY <1>2, <1>3, <1>8 DEF OrderInv

(* A quiet step keeps the invariant.                                       *)
LEMMA QuietAll ==
  ASSUME IInv, NEW p \in Procs, Types', \A q \in Procs \ {p} : Same(q), Quiet(p), KeptOf(p)'
  PROVE  IInv'
<1>1. TurnInv'
  BY QuietTurn DEF IInv
<1>2. RevInv' /\ MintInv' /\ PrivateInv'
  BY QuietRev DEF IInv
<1>3. KeptInv'
  <2>1. file' = file /\ foreign' = foreign /\ foreign \in BOOLEAN
    BY DEF Quiet, IInv, Types
  <2>2. \A q \in Procs \ {p} : KeptOf(q)'
    BY <2>1, KeptSame DEF IInv, KeptInv, KeptOf
  <2> QED
    BY <2>2 DEF KeptInv, KeptOf
<1>4. ~foreign' => OrderInv'
  <2> SUFFICES ASSUME ~foreign' PROVE OrderInv'
    OBVIOUS
  <2>1. OrderInv /\ file' = file /\ ids' = ids
    BY DEF Quiet, IInv
  <2>2. \A t \in Threads : live'[p][t] # None =>
            \/ live[p][t] # None /\ live'[p][t].msgs = live[p][t].msgs
            \/ file # None /\ live'[p][t].msgs = Repaired(file.msgs)
    BY DEF Quiet, Old, Loaded, Stored
  <2>3. \/ phase'[p] \in {"away", "idle"}
        \/ /\ req'[p] = req[p] /\ cur'[p] = cur[p]
           /\ phase'[p] = phase[p] \/ (phase[p] = "saving" /\ Waiting(p) /\ phase'[p] = "tools")
           /\ phase'[p] = "streaming" => live'[p] = live[p]
           /\ \A t \in Threads : live'[p][t] # None =>
                live[p][t] # None /\ live'[p][t].msgs = live[p][t].msgs
    BY DEF Quiet, Old
  <2> QED
    BY <2>1, <2>2, <2>3, OrderStill DEF IInv
<1> QED
  BY <1>1, <1>2, <1>3, <1>4 DEF IInv

LEMMA ResumeIs ==
  ASSUME IInv, NEW p \in Procs, Types', Resume(p)
  PROVE  Quiet(p) /\ KeptOf(p)'
<1>0. PICK t : t = file.thread
  OBVIOUS
<1> DEFINE ahead == AheadOf(live[p][t], file.rev)
           loaded == Loaded(Repaired(file.msgs))
<1>1. /\ phase[p] \in {"away", "idle"} /\ file # None /\ cur'[p] = t /\ phase'[p] = "idle"
      /\ file' = file /\ ids' = ids /\ minted' = minted /\ foreign' = foreign
      /\ t \in Threads /\ t # None /\ Stored(t) /\ file.msgs \in Seq(Message)
      /\ Repaired(file.msgs) \in Seq(Message) /\ loaded \in Held /\ Rev = file.rev /\ file.rev \in Nat
  <2>1. t \in Threads /\ t # None /\ file.msgs \in Seq(Message) /\ file.rev \in Nat
        /\ Repaired(file.msgs) \in Seq(Message) /\ loaded \in Held
    BY <1>0, HoldsIs, ByokAssumption DEF Resume, IInv
  <2> QED
    BY <1>0, <2>1 DEF Resume, ResumeUnless, Goes, IInv, Types, bounds, Stored, Rev
<1>2. \/ Due(p)' = {}
      \/ /\ cur[p] = t /\ Due(p)' = Due(p)
         /\ ~(Alive(p) /\ Mine(p).dirty /\ Mine(p).rev < file.rev)
  <2>1. CASE cur[p] = t
    BY <1>0, <2>1 DEF Resume, ResumeUnless, DropsIf, Due, IInv
  <2>2. CASE cur[p] # t
    BY <1>0, <2>2 DEF Resume, ResumeUnless, Shows, Due, IInv, Types
  <2> QED
    BY <2>1, <2>2
<1>3. (ahead /\ live' = live) \/ (~ahead /\ Has(p, t, loaded))
  BY <1>0 DEF Resume, ResumeUnless
<1>4. /\ ahead => live'[p] = live[p] /\ live[p][t] # None
      /\ ~ahead => live'[p][t] = loaded /\ \A u \in Threads \ {t} : live'[p][u] = live[p][u]
  <2>1. ahead => live'[p] = live[p] /\ live[p][t] # None
    BY <1>3 DEF AheadOf
  <2>2. ~ahead => live'[p][t] = loaded /\ \A u \in Threads \ {t} : live'[p][u] = live[p][u]
    BY <1>1, <1>3, Writing DEF IInv, Types
  <2> QED
    BY <2>1, <2>2
<1>5. Quiet(p)
  <2>1. \A u \in Threads : live'[p][u] # None =>
          Old(p, u) \/ (Stored(u) /\ live'[p][u] = Loaded(Repaired(file.msgs)))
    BY <1>1, <1>4 DEF Old
  <2> QED
    BY <1>1, <2>1 DEF Quiet
<1>6. /\ Settled(p, t)' = live'[p][t].msgs /\ Settled(p, t) = live[p][t].msgs
      /\ Mine(p)' = live'[p][t] /\ (Stored(t)' <=> Stored(t))
  BY <1>1 DEF Settled, Mine, Stored
<1>7. CASE Due(p)' = {}
  BY <1>1, <1>5, <1>7 DEF KeptOf
<1>8. CASE /\ cur[p] = t /\ Due(p)' = Due(p)
           /\ ~(Alive(p) /\ Mine(p).dirty /\ Mine(p).rev < file.rev)
  <2>0. Mine(p) = live[p][t] /\ (Alive(p) <=> live[p][t] # None)
    BY <1>1, <1>8 DEF Alive, Mine
  <2>1. ASSUME ~foreign, Alive(p) PROVE Due(p) \subseteq Range(Repaired(live[p][t].msgs))
    BY <1>6, <1>8, <2>1 DEF KeptInv, IInv
  <2>2. ASSUME ~foreign, ~(Alive(p) /\ Mine(p).dirty)
        PROVE  Due(p) \subseteq Range(Repaired(file.msgs))
    BY <1>1, <1>8, <2>2 DEF KeptInv, IInv
  <2>3. ASSUME Alive(p), Mine(p).dirty PROVE ahead
    <3>1. live[p][t] \in Held /\ live[p][t].rev \in Nat
      BY <1>1, <2>0, <2>3 DEF IInv, Types, Held
    <3> QED
      BY <1>1, <1>8, <2>0, <2>3, <3>1 DEF AheadOf
  <2>4. CASE ahead
    <3>1. Mine(p)' = Mine(p) /\ Alive(p)' /\ Alive(p)
      BY <1>1, <1>4, <1>6, <2>0, <2>4 DEF Alive
    <3>2. ~foreign => Due(p) \subseteq Range(Repaired(live[p][t].msgs))
      BY <2>1, <3>1
    <3>3. ~foreign /\ ~Mine(p).dirty => Due(p) \subseteq Range(Repaired(file.msgs))
      BY <2>2
    <3> QED
      BY <1>1, <1>4, <1>5, <1>6, <1>8, <2>4, <3>1, <3>2, <3>3 DEF KeptOf
  <2>5. CASE ~ahead
    <3>1. live'[p][t].msgs = Repaired(file.msgs)
      BY <1>4, <2>5 DEF Loaded
    <3>2. Repaired(Repaired(file.msgs)) = Repaired(file.msgs)
      BY <1>1, RepairedIs
    <3>3. ~foreign => Due(p) \subseteq Range(Repaired(file.msgs))
      BY <2>2, <2>3, <2>5
    <3> QED
      BY <1>1, <1>5, <1>6, <1>8, <3>1, <3>2, <3>3 DEF KeptOf
  <2> QED
    BY <2>4, <2>5
<1> QED
  BY <1>2, <1>5, <1>7, <1>8

LEMMA LossIs ==
  ASSUME IInv, NEW p \in Procs, Types', Compact(p) \/ Evict(p) \/ Crash(p)
  PROVE  Quiet(p) /\ KeptOf(p)'
<1>0. /\ file' = file /\ ids' = ids /\ minted' = minted /\ foreign' = foreign
      /\ cur \in [Procs -> Threads \cup {None}]
  BY DEF Compact, Evict, Crash, bounds, turn, IInv, Types
<1>1. CASE Compact(p)
  <2>1. /\ cur'[p] = None /\ Due(p)' = {} /\ live' = live /\ phase' = phase /\ phase[p] = "idle"
    BY <1>1 DEF Compact, Shows, Due, turn, IInv, Types
  <2>2. Quiet(p)
    BY <1>0, <2>1 DEF Quiet, Old
  <2>3. KeptOf(p)'
    BY <2>1 DEF KeptOf, Alive
  <2> QED
    BY <2>2, <2>3
<1>2. CASE Evict(p)
  <2>1. /\ cur' = cur /\ phase' = phase /\ req' = req /\ Alive(p)
        /\ phase[p] \in {"idle", "tools", "retry"} /\ cur[p] \in Threads /\ cur[p] # None
        /\ live'[p][cur[p]] = None
        /\ \A u \in Threads \ {cur[p]} : live'[p][u] = live[p][u]
        /\ Due(p)' = IF Mine(p).dirty THEN {} ELSE Due(p)
    <3>1. cur[p] \in Threads /\ cur[p] # None
      BY <1>2, HoldsIs DEF Evict, IInv, Alive
    <3>2. live'[p][cur[p]] = None /\ \A u \in Threads \ {cur[p]} : live'[p][u] = live[p][u]
      BY <1>2, <3>1, Writing DEF Evict, IInv, Types
    <3> QED
      BY <1>2, <3>1, <3>2 DEF Evict, DropsIf, Due, turn, IInv, Types
  <2>2. Quiet(p)
    BY <1>0, <2>1 DEF Quiet, Old
  <2>3. ~Alive(p)' /\ (Stored(cur[p])' <=> Stored(cur[p]))
    BY <1>0, <2>1 DEF Alive, Stored
  <2>4. ~foreign /\ Stored(cur[p]) => Due(p)' \subseteq Range(Repaired(file.msgs))
    BY <2>1 DEF KeptInv, IInv
  <2>5. KeptOf(p)'
    BY <1>0, <2>1, <2>3, <2>4 DEF KeptOf
  <2> QED
    BY <2>2, <2>5
<1>3. CASE Crash(p)
  <2>1. /\ cur'[p] = None /\ Due(p)' = {} /\ phase'[p] = "away"
        /\ \A t \in Threads : live'[p][t] = None
    BY <1>3 DEF Crash, Shows, Due, Goes, IInv, Types
  <2>2. Quiet(p)
    BY <1>0, <2>1 DEF Quiet
  <2>3. KeptOf(p)'
    BY <2>1 DEF KeptOf, Alive
  <2> QED
    BY <2>2, <2>3
<1> QED
  BY <1>1, <1>2, <1>3

LEMMA TurnEndsIs ==
  ASSUME IInv, NEW p \in Procs, Types',
         Abort(p) \/ NotificationCancelled(p) \/ Unknown(p) \/ ToolsFail(p)
  PROVE  Quiet(p) /\ KeptOf(p)'
<1>1. /\ file' = file /\ ids' = ids /\ minted' = minted /\ foreign' = foreign
      /\ live' = live /\ cur' = cur /\ req' = req /\ Due(p)' = Due(p)
  BY DEF Abort, NotificationCancelled, Unknown, ToolsFail, bounds, shown, answers, Due
<1>2. phase'[p] = phase[p] \/ (phase'[p] = "idle" /\ phase[p] \in {"retry", "tools"})
  BY DEF Abort, NotificationCancelled, Unknown, ToolsFail, Goes, IInv, Types
<1>3. Quiet(p)
  BY <1>1, <1>2 DEF Quiet, Old
<1>4. /\ Settled(p, cur[p])' = Settled(p, cur[p]) /\ Mine(p)' = Mine(p)
      /\ (Alive(p)' <=> Alive(p)) /\ (Stored(cur[p])' <=> Stored(cur[p]))
  BY <1>1, <1>2 DEF Settled, Mine, Alive, Stored
<1>5. KeptOf(p)
  BY DEF IInv, KeptInv, KeptOf
<1>6. KeptOf(p)'
  BY <1>1, <1>2, <1>4, <1>5 DEF KeptOf
<1> QED
  BY <1>3, <1>6

LEMMA SaveFailsIs ==
  ASSUME IInv, NEW p \in Procs, Types', SaveFails(p)
  PROVE  Quiet(p) /\ KeptOf(p)'
<1> DEFINE k == [Mine(p) EXCEPT !.dirty = TRUE]
<1>1. /\ file' = file /\ ids' = ids /\ minted' = minted /\ foreign' = foreign
      /\ cur' = cur /\ req' = req /\ Due(p)' = Due(p) /\ phase[p] = "saving"
      /\ phase'[p] = req[p].after /\ Has(p, cur[p], k)
  BY DEF SaveFails, SaveFailsTo, shown, answers, Due, Resumes, Goes, IInv, Types
<1>2. Alive(p) /\ cur[p] \in Threads /\ cur[p] # None /\ Mine(p) \in Held
      /\ req[p].after \in {"idle", "tools"}
  BY <1>1, HoldsIs DEF TurnInv, Alive, IInv, Types, Requests
<1>3. /\ k \in Held /\ k.dirty = TRUE /\ k.msgs = Mine(p).msgs /\ k.rev = Mine(p).rev
      /\ k.replaces = Mine(p).replaces
  BY <1>2 DEF Held
<1> HIDE DEF k
<1>4. live'[p][cur[p]] = k /\ \A u \in Threads \ {cur[p]} : live'[p][u] = live[p][u]
  BY <1>1, <1>2, <1>3, Writing DEF IInv, Types
<1>5. \A t \in Threads : live'[p][t] # None => Old(p, t)
  BY <1>2, <1>3, <1>4 DEF Old, Alive, Mine
<1>6. Quiet(p)
  BY <1>1, <1>2, <1>5 DEF Quiet, Waiting
<1>7. Settled(p, cur[p])' = Settled(p, cur[p]) /\ Mine(p)' = k
  BY <1>1, <1>2, <1>3, <1>4 DEF Settled, Mine
<1>8. ~foreign /\ Alive(p) => Due(p) \subseteq Range(Repaired(Settled(p, cur[p])))
  BY DEF IInv, KeptInv
<1>9. Alive(p)'
  BY <1>1, <1>2, <1>3, <1>4, ByokAssumption DEF Alive
<1>10. KeptOf(p)'
  BY <1>1, <1>2, <1>3, <1>7, <1>8, <1>9 DEF KeptOf
<1> QED
  BY <1>6, <1>10

LEMMA SaveIs ==
  ASSUME IInv, NEW p \in Procs, Types', \A q \in Procs \ {p} : Same(q), Save(p)
  PROVE  /\ IInv'
         /\ file # None /\ file'.thread = file.thread => IsPrefixOf(Repaired(file.msgs), file'.msgs)
<1> DEFINE m == Mine(p).msgs
           k == [Mine(p) EXCEPT !.rev = Rev + 1, !.dirty = FALSE, !.replaces = None]
<1>1. /\ ids' = ids /\ minted' = minted /\ foreign' = foreign
      /\ cur' = cur /\ req' = req /\ Due(p)' = Due(p) /\ phase[p] = "saving"
      /\ phase'[p] = req[p].after /\ Has(p, cur[p], k) /\ OwnFile(p) /\ Mine(p).rev = Rev
      /\ file' = [thread |-> cur[p], rev |-> Rev + 1, msgs |-> m]
  BY DEF Save, SaveIf, shown, answers, Due, bounds, Resumes, Goes, IInv, Types
<1>2. /\ Alive(p) /\ cur[p] \in Threads /\ cur[p] # None /\ Mine(p) \in Held
      /\ req[p].after \in {"idle", "tools"} /\ m \in Seq(Message) /\ Rev \in Nat
  <2>1. Alive(p) /\ req[p].after \in {"idle", "tools"}
    BY <1>1 DEF TurnInv, IInv, Types, Requests
  <2> QED
    BY <2>1, HoldsIs DEF IInv, Held, Alive
<1>3. k \in Held /\ k.dirty = FALSE /\ k.msgs = m /\ k.rev = Rev + 1 /\ k.replaces = None
  <2>1. \A l \in Held : \A n \in Nat :
          LET x == [l EXCEPT !.rev = n, !.dirty = FALSE, !.replaces = None]
          IN  x \in Held /\ x.dirty = FALSE /\ x.msgs = l.msgs /\ x.rev = n /\ x.replaces = None
    BY DEF Held
  <2>2. Rev + 1 \in Nat
    BY <1>2
  <2> QED
    BY <1>2, <2>1, <2>2
<1>4. /\ file' # None /\ file'.thread = cur[p] /\ file'.rev = Rev + 1 /\ file'.msgs = m
      /\ Rev' = Rev + 1
  <2>1. file' \in Saved /\ file'.thread = cur[p] /\ file'.rev = Rev + 1 /\ file'.msgs = m
    BY <1>1, <1>2 DEF Saved
  <2> QED
    BY <2>1, ByokAssumption DEF Rev
<1> HIDE DEF k, m
<1>5. /\ live'[p][cur[p]] = k /\ \A u \in Threads \ {cur[p]} : live'[p][u] = live[p][u]
      /\ k # None /\ \A q \in Procs \ {p} : live'[q] = live[q]
  BY <1>1, <1>2, <1>3, Writing, ByokAssumption DEF IInv, Types
<1>6. Settled(p, cur[p]) = m /\ live[p][cur[p]].msgs = m /\ live[p][cur[p]] = Mine(p)
      /\ live[p][cur[p]] # None
  BY <1>1, <1>2 DEF Settled, Mine, Alive, m
<1>7. ASSUME Stored(cur[p])
      PROVE  /\ IsPrefixOf(Repaired(file.msgs), m) /\ file.msgs \in Seq(Message)
             /\ Repaired(file.msgs) \in Seq(Message) /\ Cut(Repaired(file.msgs)) = {}
             /\ Range(Repaired(file.msgs)) \subseteq Range(Repaired(m))
  <2>1. file # None /\ Rev = file.rev /\ file.msgs \in Seq(Message)
    BY <1>7, HoldsIs DEF Stored, Rev, IInv
  <2>2. IsPrefixOf(Repaired(file.msgs), m)
    BY <1>1, <1>2, <1>6, <1>7, <2>1 DEF RevInv, IInv
  <2>3. Repaired(file.msgs) \in Seq(Message) /\ Cut(Repaired(file.msgs)) = {}
    BY <2>1, RepairedIs
  <2>4. IsPrefixOf(Repaired(file.msgs), Repaired(m)) /\ Repaired(m) \in Seq(Message)
    BY <1>2, <2>2, <2>3, RepairedKeeps, RepairedIs
  <2>5. Range(Repaired(file.msgs)) \subseteq Range(Repaired(m))
    BY <2>3, <2>4, PrefixRange
  <2> QED
    BY <2>1, <2>2, <2>3, <2>5
(* Unless the file is of this thread already, nobody else is in the thread. *)
<1>8. ASSUME ~Stored(cur[p]) PROVE \A q \in Procs \ {p} : cur[q] # cur[p] /\ live[q][cur[p]] = None
  <2>1. file = None \/ live[p][cur[p]].replaces # None
    <3>1. file # None => file.thread = Mine(p).replaces /\ file.thread \in Threads
      BY <1>1, <1>8, HoldsIs DEF OwnFile, Stored, IInv
    <3> QED
      BY <1>6, <3>1, ByokAssumption
  <2> QED
    BY <1>2, <1>6, <2>1 DEF PrivateInv, IInv
<1>9. ids' = ids /\ ids \in Nat /\ ids <= ids'
  BY <1>1 DEF IInv, Types
<1>10. TurnInv'
  <2>1. phase'[p] \notin {"away", "idle"} =>
          req'[p].id = req[p].id /\ Busy(p) /\ req'[p].input <= ids'
    BY <1>1 DEF Busy, TurnInv, IInv
  <2>2. phase'[p] # "retry" /\ Waiting(p)' => req'[p].kind = "tools"
    BY <1>1, <1>2 DEF Waiting, TurnInv, IInv
  <2>3. phase'[p] \notin {"streaming", "saving"}
    BY <1>1, <1>2
  <2> QED
    BY <1>9, <2>1, <2>2, <2>3, TurnStep DEF IInv
<1>11. RevInv'
  <2> SUFFICES ASSUME NEW q \in Procs, NEW t \in Threads, live'[q][t] # None
               PROVE  /\ live'[q][t].rev <= Rev + 1
                      /\ Stored(t)' /\ live'[q][t].rev = Rev + 1 =>
                           IsPrefixOf(Repaired(m), Settled(q, t)')
    BY <1>4 DEF RevInv
  <2>1. CASE q = p /\ t = cur[p]
    <3>1. Settled(q, t)' = m
      BY <1>1, <1>2, <1>3, <1>5, <2>1 DEF Settled
    <3>2. IsPrefixOf(Repaired(m), m)
      BY <1>2, RepairedIs
    <3> QED
      BY <1>2, <1>3, <1>5, <2>1, <3>1, <3>2
  <2>2. CASE q # p \/ t # cur[p]
    <3>1. live'[q][t] = live[q][t] /\ live[q][t] \in Held
      BY <1>5, <2>2 DEF IInv, Types
    <3>2. live[q][t].rev <= Rev /\ live[q][t].rev \in Nat
      BY <3>1 DEF RevInv, IInv, Held
    <3> QED
      BY <1>2, <3>1, <3>2
  <2> QED
    BY <2>1, <2>2
<1>12. MintInv'
  BY <1>1, <1>2, <1>4, <1>5, <1>6 DEF MintInv, IInv
<1>13. PrivateInv'
  <2> SUFFICES ASSUME NEW q \in Procs, NEW t \in Threads, live'[q][t] # None,
                      live'[q][t].replaces # None
               PROVE  t # cur[p] /\ \A x \in Procs \ {q} : cur[x] # t /\ live'[x][t] = None
    BY <1>1, <1>4 DEF PrivateInv, Stored
  <2>1. q # p \/ t # cur[p]
    BY <1>3, <1>5
  <2>2. live[q][t] # None /\ live[q][t].replaces # None
    BY <1>5, <2>1
  <2>3. \A x \in Procs \ {q} : cur[x] # t /\ live[x][t] = None
    BY <2>2 DEF PrivateInv, IInv
  <2>4. t # cur[p]
    BY <2>1, <2>3
  <2> QED
    BY <1>5, <2>3, <2>4
<1>14. KeptInv'
  <2>1. ASSUME NEW q \in Procs PROVE KeptOf(q)'
    <3>1. /\ cur[q] = None => Due(q) = {}
          /\ ~foreign /\ Alive(q) => Due(q) \subseteq Range(Repaired(Settled(q, cur[q])))
          /\ ~foreign /\ phase[q] # "saving" /\ Stored(cur[q]) /\ ~(Alive(q) /\ Mine(q).dirty) =>
               Due(q) \subseteq Range(Repaired(file.msgs))
      BY DEF IInv, KeptInv
    <3>2. CASE q = p
      <4>1. Settled(p, cur[p])' = m
        BY <1>1, <1>2, <1>3, <1>5 DEF Settled
      <4>2. ~foreign => Due(p) \subseteq Range(Repaired(m))
        BY <1>2, <1>6, <3>1, <3>2
      <4> QED
        BY <1>1, <1>2, <1>4, <3>2, <4>1, <4>2 DEF KeptOf
    <3>3. CASE q # p
      <4>1. /\ Settled(q, cur[q])' = Settled(q, cur[q]) /\ Mine(q)' = Mine(q)
            /\ (Alive(q)' <=> Alive(q)) /\ phase'[q] = phase[q] /\ Due(q)' = Due(q)
        BY <3>3 DEF Same, Settled, Mine, Alive
      <4>2. ASSUME ~foreign, phase[q] # "saving", Stored(cur[q])', ~(Alive(q) /\ Mine(q).dirty)
            PROVE  Due(q) \subseteq Range(Repaired(m))
        <5>1. cur[q] = cur[p]
          BY <1>1, <1>4, <4>2 DEF Stored
        <5>2. Stored(cur[p])
          BY <1>8, <3>3, <5>1
        <5>3. Due(q) \subseteq Range(Repaired(file.msgs))
          BY <3>1, <4>2, <5>1, <5>2
        <5> QED
          BY <1>7, <5>2, <5>3
      <4> QED
        BY <1>1, <1>4, <3>1, <4>1, <4>2 DEF KeptOf
    <3> QED
      BY <3>2, <3>3
  <2> QED
    BY <2>1 DEF KeptInv, KeptOf
<1>15. ASSUME ~foreign' PROVE OrderInv'
  <2>1. \A t \in Threads : live'[p][t] # None => live[p][t] # None /\ live'[p][t].msgs = live[p][t].msgs
    BY <1>2, <1>3, <1>5, <1>6
  <2>2. OrderInv
    BY <1>1, <1>15 DEF IInv
  <2>3. phase'[p] = "idle" \/ (Waiting(p) /\ phase'[p] = "tools")
    BY <1>1, <1>2 DEF Waiting
  <2>4. file' # None /\ Alive(p) /\ phase[p] = "saving" /\ file'.msgs = live[p][cur[p]].msgs
    BY <1>1, <1>2, <1>4, <1>6
  <2>5. req'[p] = req[p] /\ cur'[p] = cur[p]
    BY <1>1
  <2> QED
    BY <1>1, <2>1, <2>2, <2>3, <2>4, <2>5, OrderStill DEF IInv
<1>16. file # None /\ file'.thread = file.thread => IsPrefixOf(Repaired(file.msgs), file'.msgs)
  BY <1>4, <1>7 DEF Stored
<1> QED
  BY <1>10, <1>11, <1>12, <1>13, <1>14, <1>15, <1>16 DEF IInv

LEMMA SendFirstIs ==
  ASSUME IInv, NEW p \in Procs, NEW t \in Threads, Types', \A q \in Procs \ {p} : Same(q),
         SendFirst(p, t)
  PROVE  IInv'
<1> DEFINE l == [rev |-> ReplacedRevision(p), msgs |-> <<>>, dirty |-> FALSE,
                 replaces |-> replaced[p]]
           u == Msg("user", ids + 1)
<1>1. /\ file' = file /\ ids' = ids + 1 /\ minted' = minted \cup {t} /\ foreign' = foreign
      /\ Due(p)' = Due(p) /\ cur[p] = None /\ cur'[p] = t /\ phase[p] = "idle" /\ t \notin minted
      /\ Streams(p, t, l, NewInput(p), u) /\ Rev' = Rev
      /\ replaced[p] # None => live[p][replaced[p]] # None \/ Stored(replaced[p])
  BY DEF SendFirst, shown, answers, Due, IInv, Types, Rev
<1>2. /\ NewInput(p) \in Requests /\ NewInput(p).id = ids + 1 /\ NewInput(p).input = ids + 1
      /\ NewInput(p).kind = "message" /\ First(NewInput(p)) = u
      /\ u \in Message /\ u.role = "user" /\ u.id = ids + 1 /\ ids \in Nat /\ ids + 1 \in Nat
  BY NewInputIs DEF IInv
<1>3. ReplacedRevision(p) \in Nat /\ ReplacedRevision(p) <= Rev /\ Rev \in Nat
  <2>0. Rev \in Nat /\ (file # None => Rev = file.rev)
    BY HoldsIs DEF IInv, Rev
  <2>1. CASE replaced[p] = None
    BY <2>0, <2>1 DEF ReplacedRevision
  <2>2. CASE replaced[p] # None /\ live[p][replaced[p]] # None
    <3>1. replaced[p] \in Threads /\ live[p][replaced[p]] \in Held
      BY <2>2 DEF IInv, Types
    <3>2. live[p][replaced[p]].rev <= Rev /\ live[p][replaced[p]].rev \in Nat
      BY <2>2, <3>1 DEF IInv, RevInv, Held
    <3> QED
      BY <2>0, <2>2, <3>2 DEF ReplacedRevision
  <2>3. CASE replaced[p] # None /\ live[p][replaced[p]] = None
    <3>1. ReplacedRevision(p) = file.rev /\ file # None
      BY <1>1, <2>3 DEF ReplacedRevision, Stored
    <3> QED
      BY <2>0, <3>1
  <2> QED
    BY <2>1, <2>2, <2>3
<1>4. l \in Held /\ l.msgs = <<>> /\ l.rev = ReplacedRevision(p)
  BY <1>3 DEF Held, IInv, Types
<1> HIDE DEF l, u
<1>5. /\ live'[p][t] # None /\ live'[p][t] \in Held /\ live'[p][t].msgs = Append(<<>>, u)
      /\ live'[p][t].rev = ReplacedRevision(p)
      /\ \A x \in Threads \ {t} : live'[p][x] = live[p][x]
      /\ phase'[p] = "streaming" /\ req'[p].base = Len(<<>>)
      /\ req'[p].id = ids + 1 /\ req'[p].kind = "message" /\ req'[p].input = ids + 1
      /\ \A q \in Procs \ {p} : live'[q] = live[q]
  BY <1>1, <1>2, <1>4, StreamsTypes DEF IInv
<1>6. /\ <<>> \in Seq(Message) /\ Len(<<>>) = 0 /\ Append(<<>>, u) = <<u>> /\ <<u>> \in Seq(Message)
      /\ Len(<<u>>) = 1 /\ <<u>>[1] = u /\ Range(<<>>) = {} /\ Range(<<u>>) = {u}
  BY <1>2 DEF Range
<1>7. t # None /\ Alive(p)' /\ Mine(p)' = live'[p][t] /\ Mine(p)'.msgs = <<u>>
  BY <1>1, <1>5, <1>6, ByokAssumption DEF Alive, Mine
<1>8. First(req'[p]) = u
  BY <1>2, <1>5 DEF First
<1>9. TurnInv'
  <2>1. Len(<<u>>) = req'[p].base + 1 /\ <<u>>[Len(<<u>>)] = First(req'[p])
    BY <1>5, <1>6, <1>8
  <2>2. ids <= ids' /\ req'[p].input <= ids'
    BY <1>1, <1>2, <1>5
  <2>3. live'[p][cur'[p]].msgs = <<u>>
    BY <1>1, <1>5, <1>6
  <2>4. ~Waiting(p)'
    BY <1>5 DEF Waiting
  <2> QED
    BY <1>1, <1>5, <1>7, <2>1, <2>2, <2>3, <2>4, TurnStep DEF IInv
<1>10. ~Stored(t) /\ \A q \in Procs : cur[q] # t /\ live[q][t] = None
  BY <1>1, <1>7 DEF IInv, MintInv, Stored
<1>11. ASSUME NEW q \in Procs, NEW x \in Threads, q # p \/ x # t
       PROVE  live'[q][x] = live[q][x] /\ Settled(q, x)' = Settled(q, x)
  <2>1. live'[q][x] = live[q][x]
    BY <1>5, <1>11
  <2>2. CASE q # p
    BY <2>1, <2>2, SettledSame DEF Same
  <2>3. CASE q = p
    <3>1. x # None /\ cur'[p] # x /\ phase[p] # "streaming"
      BY <1>1, <1>11, <2>3, ByokAssumption
    <3> QED
      BY <2>1, <2>3, <3>1 DEF Settled
  <2> QED
    BY <2>2, <2>3, <2>1
<1>12. RevInv'
  <2> SUFFICES ASSUME NEW q \in Procs, NEW x \in Threads, live'[q][x] # None
               PROVE  /\ live'[q][x].rev <= Rev
                      /\ Stored(x) /\ live'[q][x].rev = file.rev =>
                           IsPrefixOf(Repaired(file.msgs), Settled(q, x)')
    BY <1>1 DEF RevInv, Stored
  <2>1. CASE q = p /\ x = t
    BY <1>3, <1>5, <1>10, <2>1
  <2>2. CASE q # p \/ x # t
    <3>1. live'[q][x] = live[q][x] /\ Settled(q, x)' = Settled(q, x)
      BY <1>11, <2>2
    <3>2. /\ live[q][x].rev <= Rev
          /\ Stored(x) /\ live[q][x].rev = file.rev =>
               IsPrefixOf(Repaired(file.msgs), Settled(q, x))
      BY <3>1 DEF RevInv, IInv
    <3> QED
      BY <3>1, <3>2
  <2> QED
    BY <2>1, <2>2
<1>13. MintInv'
  <2>1. \A q \in Procs \ {p} : cur'[q] = cur[q]
    BY DEF Same
  <2>2. \A q \in Procs, x \in Threads : live'[q][x] # None => x \in minted'
    BY <1>1, <1>11 DEF IInv, MintInv
  <2> QED
    BY <1>1, <2>1, <2>2 DEF IInv, MintInv
<1>14. PrivateInv'
  <2> SUFFICES ASSUME NEW q \in Procs, NEW x \in Threads, live'[q][x] # None,
                      file = None \/ live'[q][x].replaces # None
               PROVE  ~Stored(x) /\ \A r \in Procs \ {q} : cur'[r] # x /\ live'[r][x] = None
    BY <1>1 DEF PrivateInv, Stored
  <2>1. CASE q = p /\ x = t
    BY <1>5, <1>10, <2>1 DEF Same
  <2>2. CASE x # t
    <3>1. live[q][x] # None /\ (file = None \/ live[q][x].replaces # None)
      BY <1>11, <2>2
    <3>2. ~Stored(x) /\ \A r \in Procs \ {q} : cur[r] # x /\ live[r][x] = None
      BY <3>1 DEF PrivateInv, IInv
    <3> QED
      BY <1>1, <1>11, <2>2, <3>2 DEF Same
  <2>3. CASE q # p /\ x = t
    BY <1>10, <1>11, <2>3
  <2> QED
    BY <2>1, <2>2, <2>3
<1>15. KeptInv'
  <2>1. Due(p)' = {}
    BY <1>1 DEF IInv, KeptInv
  <2>2. KeptOf(p)'
    BY <2>1 DEF KeptOf
  <2>3. \A q \in Procs \ {p} : KeptOf(q)'
    <3>1. file' = file /\ (foreign => foreign') /\ foreign' \in BOOLEAN
      BY <1>1 DEF IInv, Types
    <3> QED
      BY <3>1, KeptSame DEF IInv, KeptInv, KeptOf
  <2> QED
    BY <2>2, <2>3 DEF KeptInv, KeptOf
<1>16. ASSUME ~foreign' PROVE OrderInv'
  <2>0. OrderInv
    BY <1>1, <1>16 DEF IInv
  <2>1. \A h \in Seq(Message) : Orderly(h, ids) => Orderly(h, ids + 1)
    <3>1. ids <= ids + 1
      BY <1>2
    <3> QED
      BY <1>2, <3>1, PrefixSelf, OrderlyFront
  <2>2. file' # None => Orderly(file'.msgs, ids')
    BY <1>1, <2>0, <2>1, HoldsIs DEF IInv, OrderInv
  <2>3. Orderly(<<u>>, ids + 1) /\ Cut(<<u>>) = {}
    <3>1. Orderly(<<>>, ids + 1) /\ Cut(<<>>) = {}
      BY DEF Orderly, Cut
    <3>2. u.id <= ids + 1 /\ u \notin Range(<<>>) /\ u.role # "tool" /\ u.role # "call"
      BY <1>2, <1>6
    <3>3. Orderly(Append(<<>>, u), ids + 1)
      BY <1>2, <1>6, <3>1, <3>2, OrderlyPushed
    <3>4. Cut(Append(<<>>, u)) = {}
      BY <1>2, <1>6, <3>1, <3>2, CutPushed
    <3> QED
      BY <1>6, <3>3, <3>4
  <2>4. ASSUME NEW q \in Procs, NEW x \in Threads, live'[q][x] # None
        PROVE  Orderly(live'[q][x].msgs, ids')
    <3>1. CASE q = p /\ x = t
      BY <1>1, <1>5, <1>6, <2>3, <3>1
    <3>2. CASE q # p \/ x # t
      <4>1. live[q][x] # None /\ live'[q][x] = live[q][x] /\ live[q][x].msgs \in Seq(Message)
        BY <1>11, <2>4, <3>2 DEF IInv, Types, Held
      <4> QED
        BY <1>1, <2>0, <2>1, <4>1 DEF OrderInv
    <3> QED
      BY <3>1, <3>2
  <2>5. \A x : \A q \in Procs, y \in Threads :
          InLive(q, y, x)' => InLive(q, y, x) \/ (q = p /\ y = t /\ x = u)
    BY <1>5, <1>6, <1>11 DEF InLive
  <2>6. \A x : InFile(x)' <=> InFile(x)
    BY <1>1 DEF InFile
  <2>7. OrderOf(p)'
    <3>1. PICK f : f = u
      OBVIOUS
    <3>2. ~InFile(f)
      BY <1>2, <2>0, <3>1 DEF OrderInv, Orderly, InFile, Range
    <3>3. \A q \in Procs, y \in Threads : ~InLive(q, y, f)
      BY <1>2, <2>0, <3>1 DEF OrderInv, Orderly, InLive, Range
    <3>4. First(req'[p]) = f /\ ~Waiting(p)' /\ ~(phase'[p] = "streaming" /\ req'[p].kind = "tools")
      BY <1>5, <1>8, <3>1 DEF Waiting
    <3>5. ~InFile(f)' /\ \A q \in Procs, y \in Threads : q # p \/ y # t => ~InLive(q, y, f)'
      BY <2>5, <2>6, <3>2, <3>3
    <3> QED
      BY <1>1, <1>5, <1>7, <2>3, <3>4, <3>5 DEF OrderOf
  <2>8. ASSUME NEW q \in Procs \ {p} PROVE OrderOf(q)'
    <3>0. PICK c, f : c = Msg("call", req[q].id) /\ f = First(req[q])
      OBVIOUS
    <3>1. /\ live'[q] = live[q] /\ cur'[q] = cur[q] /\ phase'[q] = phase[q] /\ req'[q] = req[q]
          /\ q # p
      BY DEF Same
    <3>2. /\ Msg("call", req'[q].id) = c /\ First(req'[q]) = f
          /\ Waiting(q)' <=> Waiting(q)
      BY <3>0, <3>1 DEF Waiting, First
    <3>3. c.id = req[q].id /\ f.id = req[q].id
      BY <3>0 DEF First, Msg
    <3>4. Busy(q) => c # u /\ f # u
      <4>1. Busy(q) => req[q].id \in 1..ids
        BY DEF IInv, TurnInv
      <4> QED
        BY <1>2, <3>3, <4>1
    <3>5. ASSUME Waiting(q) \/ phase[q] \in {"retry", "streaming"}
          PROVE  /\ ~InFile(f)'
                 /\ \A r \in Procs, y \in Threads :
                      (phase[q] = "streaming" => r # q \/ y # cur[q]) => ~InLive(r, y, f)'
      <4>1. /\ ~InFile(f)
            /\ \A r \in Procs, y \in Threads :
                 (phase[q] = "streaming" => r # q \/ y # cur[q]) => ~InLive(r, y, f)
        BY <2>0, <3>0, <3>5 DEF OrderInv, OrderOf
      <4>2. f # u
        BY <3>4, <3>5 DEF Waiting, Busy
      <4> QED
        BY <2>5, <2>6, <4>1, <4>2
    <3>6. ASSUME Waiting(q) \/ (phase[q] = "streaming" /\ req[q].kind = "tools")
          PROVE  /\ InFile(c)' => EndsWith(file.msgs, c)
                 /\ \A r \in Procs, y \in Threads : InLive(r, y, c)' => r = q /\ y = cur[q]
      <4>1. /\ InFile(c) => EndsWith(file.msgs, c)
            /\ \A r \in Procs, y \in Threads : InLive(r, y, c) => r = q /\ y = cur[q]
        BY <2>0, <3>0, <3>6 DEF OrderInv, OrderOf
      <4>2. c # u
        BY <3>4, <3>6 DEF Waiting, Busy
      <4> QED
        BY <2>5, <2>6, <4>1, <4>2
    <3>7. ASSUME Waiting(q), Alive(q)', InLive(q, cur[q], c)' PROVE EndsWith(Mine(q)'.msgs, c)
      <4>1. Alive(q) /\ Mine(q)' = Mine(q) /\ InLive(q, cur[q], c)
        BY <3>1, <3>7 DEF Alive, Mine, InLive
      <4>2. EndsWith(Mine(q).msgs, c)
        BY <2>0, <3>0, <3>7, <4>1 DEF OrderInv, OrderOf
      <4> QED
        BY <4>1, <4>2
    <3>8. phase'[q] = "streaming" => Cut(Mine(q)'.msgs) = {}
      BY <2>0, <3>1 DEF OrderInv, OrderOf, Mine
    <3> QED
      BY <1>1, <3>1, <3>2, <3>5, <3>6, <3>7, <3>8 DEF OrderOf
  <2>9. \A q \in Procs : OrderOf(q)'
    BY <2>7, <2>8
  <2> QED
    BY <2>2, <2>4, <2>9 DEF OrderInv
<1> QED
  BY <1>9, <1>12, <1>13, <1>14, <1>15, <1>16 DEF IInv
----------------------------------------------------------------------------
(* The invariant, and what follows from it.                                *)

LEMMA InitInv == Init => IInv
<1> SUFFICES ASSUME Init PROVE IInv
  OBVIOUS
<1>1. NoReq \in Requests
  BY DEF NoReq, Requests
<1>2. Types
  BY <1>1, ByokAssumption DEF Init, Types, Phases
<1>3. /\ file = None /\ \A p \in Procs, t \in Threads : live[p][t] = None
      /\ \A p \in Procs : /\ cur[p] = None /\ phase[p] \in {"idle", "away"} /\ ~Alive(p)
                          /\ ~Busy(p) /\ ~Waiting(p) /\ Due(p) = {}
  BY ByokAssumption DEF Init, Alive, Busy, Waiting, Due
<1>4. TurnInv /\ RevInv /\ MintInv /\ PrivateInv
  BY <1>3 DEF TurnInv, RevInv, MintInv, PrivateInv, Stored
<1>5. KeptInv
  BY <1>3 DEF KeptInv
<1>6. OrderInv
  BY <1>3 DEF OrderInv, OrderOf
<1> QED
  BY <1>2, <1>4, <1>5, <1>6 DEF IInv

LEMMA StillInv ==
  ASSUME IInv, UNCHANGED vars
  PROVE  IInv'
<1>1. UNCHANGED <<file, live, cur, replaced, phase, req, aborted, ids, faults, losses, minted,
                  kept, dropped, foreign>>
  BY DEF vars, turn, bounds, shown, answers
<1>2. Types' /\ TurnInv' /\ RevInv' /\ MintInv' /\ PrivateInv' /\ KeptInv'
  BY <1>1 DEF IInv, Types, TurnInv, RevInv, MintInv, PrivateInv, KeptInv, Due, Busy, Waiting, Alive,
     Mine, Settled, Stored, Rev
<1>3. ~foreign' => OrderInv'
  BY <1>1 DEF IInv, OrderInv, OrderOf, Waiting, Alive, Mine, InFile, InLive
<1> QED
  BY <1>2, <1>3 DEF IInv

(* Of the actions only a save changes the file, and it keeps its turns.    *)
Keeping ==
  file # None /\ file' # file /\ file'.thread = file.thread =>
    IsPrefixOf(Repaired(file.msgs), file'.msgs)

LEMMA InductiveStep ==
  ASSUME IInv, NEW p \in Procs, Step(p)
  PROVE  IInv' /\ Keeping
<1>1. Types /\ TurnInv /\ (~foreign => OrderInv)
  BY DEF IInv
<1>2. Types' /\ \A q \in Procs \ {p} : Same(q)
  BY <1>1, StepTypes
<1>3. ASSUME NEW h, Works(p, h), Fits(p), answers' = answers PROVE IInv' /\ Keeping
  <2>1. Due(p)' = Due(p) /\ file' = file
    BY <1>3 DEF Works, Due, answers
  <2> QED
    BY <1>2, <1>3, <2>1, WorksAll DEF Keeping
<1>4. ASSUME (\E h : Works(p, h)) /\ Fits(p) /\ answers' = answers PROVE IInv' /\ Keeping
  BY <1>3, <1>4
<1>5. ASSUME Quiet(p), KeptOf(p)' PROVE IInv' /\ Keeping
  <2>1. file' = file
    BY <1>5 DEF Quiet
  <2> QED
    BY <1>2, <1>5, <2>1, QuietAll DEF Keeping
<1>6. CASE Resume(p)
  BY <1>2, <1>5, <1>6, ResumeIs
<1>7. CASE Compact(p) \/ Evict(p) \/ Crash(p)
  BY <1>2, <1>5, <1>7, LossIs
<1>8. CASE Abort(p) \/ NotificationCancelled(p) \/ Unknown(p) \/ ToolsFail(p)
  BY <1>2, <1>5, <1>8, TurnEndsIs
<1>9. CASE SaveFails(p)
  BY <1>2, <1>5, <1>9, SaveFailsIs
<1>10. CASE Save(p)
  BY <1>2, <1>10, SaveIs DEF Keeping
<1>11. CASE \E t \in Threads : SendFirst(p, t)
  <2>1. PICK t \in Threads : SendFirst(p, t)
    BY <1>11
  <2>2. file' = file
    BY <2>1 DEF SendFirst
  <2> QED
    BY <1>2, <2>1, <2>2, SendFirstIs DEF Keeping
<1>12. CASE Completed(p)
  <2>1. PICK h : Works(p, h) /\ Fits(p)
    BY <1>1, <1>2, <1>12, CompletedDoes
  <2>2. /\ Due(p)' = Range(live'[p][cur[p]].msgs) /\ phase'[p] = "saving"
        /\ ~foreign => Cut(live'[p][cur[p]].msgs) = {}
    BY <1>1, <1>2, <1>12, CompletedDoes
  <2>3. IInv'
    BY <1>2, <2>1, <2>2, WorksAll
  <2>4. file' = file
    BY <2>1 DEF Works
  <2> QED
    BY <2>3, <2>4 DEF Keeping
<1>13. CASE Send(p)
  BY <1>1, <1>2, <1>4, <1>13, SendDoes
<1>14. CASE Refused(p)
  BY <1>1, <1>2, <1>4, <1>14, RefusedDoes
<1>15. CASE RequiresAction(p)
  BY <1>1, <1>2, <1>4, <1>15, RequiresActionDoes
<1>16. CASE Interrupted(p)
  BY <1>1, <1>2, <1>4, <1>16, InterruptedDoes
<1>17. CASE Fails(p)
  BY <1>1, <1>2, <1>4, <1>17, FailsDoes
<1>18. CASE Retry(p)
  BY <1>1, <1>2, <1>4, <1>18, RetryDoes
<1>19. CASE RetryAborted(p) \/ ToolsCancelled(p)
  BY <1>1, <1>2, <1>4, <1>19, CancelledDoes
<1>20. CASE Submits(p)
  BY <1>1, <1>2, <1>4, <1>20, SubmitsAnswer
<1> QED
  BY <1>6, <1>7, <1>8, <1>9, <1>10, <1>11, <1>12, <1>13, <1>14, <1>15, <1>16, <1>17, <1>18,
     <1>19, <1>20 DEF Step

LEMMA NextSteps ==
  ASSUME IInv, [Next]_vars
  PROVE  IInv' /\ Keeping
<1>1. CASE UNCHANGED vars
  <2>1. file' = file
    BY <1>1 DEF vars
  <2> QED
    BY <1>1, <2>1, StillInv DEF Keeping
<1>2. CASE Next
  <2>1. PICK p \in Procs : Step(p)
    BY <1>2 DEF Next, Step
  <2> QED
    BY <2>1, InductiveStep
<1> QED
  BY <1>1, <1>2

LEMMA AlwaysInv == Spec => []IInv
<1>1. IInv /\ [Next]_vars => IInv'
  BY NextSteps
<1> QED
  BY <1>1, InitInv, PTL DEF Spec

(* Types, of every variable: a turn that streams or saves holds its        *)
(* conversation in memory.                                                 *)
THEOREM TypeCorrect == Spec => []TypeOK
<1>1. IInv => TypeOK
  BY DEF IInv, Types, TurnInv, TypeOK, Phases
<1> QED
  BY <1>1, AlwaysInv, PTL

(* However many processes are in the session, and whatever is lost: a save *)
(* of the conversation that the file has keeps its whole turns.            *)
THEOREM TurnsSaved == Spec => SavedTurnsKept
<1>1. IInv /\ [Next]_vars =>
        [(file # None /\ file' # file /\ file'.thread = file.thread) =>
           IsPrefixOf(Repaired(file.msgs), file'.msgs)]_vars
  BY NextSteps DEF Keeping
<1> QED
  BY <1>1, AlwaysInv, PTL DEF Spec, SavedTurnsKept

(* An answer that was shown stays in the conversation of who showed it, as *)
(* long as that one has not let go of it unsaved, in an eviction or before *)
(* a newer file, nor an evicted process taken another's open call over.    *)
THEOREM AnswersKept == Spec => []AcceptedKept
<1>1. IInv => AcceptedKept
  <2> SUFFICES ASSUME IInv, ~foreign, NEW p \in Procs, Alive(p)
               PROVE  Due(p) \subseteq Range(Mine(p).msgs)
    BY DEF AcceptedKept, AnswersKeptBy, Due
  <2> DEFINE s == Settled(p, cur[p])
  <2>1. Mine(p) \in Held /\ Mine(p).msgs \in Seq(Message) /\ req[p].base \in Nat
    <3>1. Mine(p) \in Held /\ req[p] \in Requests
      BY HoldsIs DEF IInv, Types
    <3> QED
      BY <3>1 DEF Requests, Held
  <2>2. s \in Seq(Message) /\ IsPrefixOf(s, Mine(p).msgs)
    <3>1. CASE phase[p] = "streaming"
      <4>1. s = SubSeq(Mine(p).msgs, 1, req[p].base) /\ Len(Mine(p).msgs) = req[p].base + 1
        BY <3>1 DEF Settled, Mine, IInv, TurnInv
      <4>2. /\ s \in Seq(Message) /\ Len(s) = req[p].base
            /\ \A i \in 1..Len(s) : s[i] = Mine(p).msgs[i]
        BY <2>1, <4>1
      <4>3. Len(s) <= Len(Mine(p).msgs)
        BY <2>1, <4>1, <4>2
      <4> HIDE DEF s
      <4> QED
        BY <2>1, <4>2, <4>3, PrefixIs
    <3>2. CASE phase[p] # "streaming"
      <4>1. s = Mine(p).msgs
        BY <3>2 DEF Settled, Mine
      <4> QED
        BY <2>1, <4>1, PrefixSelf
    <3> HIDE DEF s
    <3> QED
      BY <3>1, <3>2
  <2> HIDE DEF s
  <2>3. Repaired(s) \in Seq(Message) /\ IsPrefixOf(Repaired(s), s)
    BY <2>2, RepairedIs
  <2>4. Range(Repaired(s)) \subseteq Range(Mine(p).msgs)
    BY <2>1, <2>2, <2>3, PrefixTrans, PrefixRange
  <2> QED
    BY <2>4 DEF IInv, KeptInv, s
<1> QED
  BY <1>1, AlwaysInv, PTL

(* What goes to the vendor is a history that it accepts: each call has its *)
(* results behind it, and no input stands in it twice.                     *)
THEOREM RequestsInOrder == Spec => []RequestsWellFormed
<1>1. IInv => RequestsWellFormed
  <2> SUFFICES ASSUME IInv, ~foreign, NEW p \in Procs, phase[p] = "streaming"
               PROVE  InOrder(Mine(p).msgs)
    BY DEF RequestsWellFormed, EveryRequestInOrder
  <2>1. Alive(p) /\ cur[p] \in Threads
    BY HoldsIs DEF IInv, TurnInv
  <2>2. Cut(Mine(p).msgs) = {} /\ Orderly(Mine(p).msgs, ids)
    BY <2>1 DEF IInv, OrderInv, OrderOf, Alive, Mine
  <2> QED
    BY <2>2 DEF Orderly, InOrder
<1> QED
  BY <1>1, AlwaysInv, PTL
----------------------------------------------------------------------------
(* FileLease.  That a live process keeps its lease is not inductive: the   *)
(* danger is the rm of a process under the reclaim marker, and what keeps  *)
(* that process from hitting a live lease is that there is one reclaimer   *)
(* at a time, that the token it came with is a dead process's, and that a  *)
(* dead process's lease can go away by that one reclaimer only.  There is  *)
(* one reclaimer at a time because whoever has read a name in a marker     *)
(* finds that process alive.  Undisturbed says so, for as long as nobody   *)
(* died at one of the places that `torn' and `unnoticed' record.           *)

HasLease(p) == pc[p] \in {"write", "held", "unlink"}
HasMarker(p) == pc[p] \in InReclaim \cup {"wipe"}
Judged(p) == pc[p] \in {"mark", "name", "check"}

Gone(q) == q # Nobody /\ ~IsAlive(q)

Undisturbed ==
  /\ \A p \in Acquirers :
       /\ HasLease(p) => lease.by = p
       /\ pc[p] = "held" => lease.named
       /\ HasMarker(p) => marker.by = p
       /\ pc[p] \in {"check", "remove", "unmark"} => marker.named
       /\ Judged(p) => Gone(seen[p])
       /\ pc[p] = "owner" => ~Gone(seen[p])
       /\ pc[p] = "remove" => lease.named /\ Gone(lease.by)
  /\ Exists(lease) /\ ~lease.named =>
       lease.by \in Acquirers /\ pc[lease.by] \in {"write", "unlink"}
  /\ Exists(marker) => marker.by \in Acquirers /\ HasMarker(marker.by)
  /\ ~lease.old /\ ~marker.old

LeaseIInv == LeaseTypeOK /\ (~torn /\ ~unnoticed => Undisturbed)

(* NothingLeaked holds whoever dies where.  It needs that a live process   *)
(* leaves no file unwritten behind: release and the marker's release go by *)
(* the token, and would leave such a file alone.                           *)
NamedInTime ==
  \A p \in Acquirers : IsAlive(p) =>
    /\ lease.by = p /\ ~lease.named => pc[p] \in {"write", "unlink"}
    /\ marker.by = p /\ ~marker.named => pc[p] \in {"name", "wipe"}

LeaseLInv == LeaseTypeOK /\ NamedInTime /\ NothingLeaked

(* The absent file and the two kinds of present ones have the right type.  *)
LEMMA Files ==
  /\ NoFile \in File
  /\ \A p \in Acquirers : Made(p) \in File /\ Named(p) \in File
  /\ ~Exists(NoFile)
BY DEF File, NoFile, Made, Named, Exists

(* TypeOK holds at the start and is preserved by every step.              *)
LEMMA TypeInit == LeaseInit => LeaseTypeOK
<1> SUFFICES ASSUME LeaseInit PROVE LeaseTypeOK
  OBVIOUS
<1>1. lease \in File /\ marker \in File
  <2>1. NoFile \in File
    BY Files
  <2>2. Named(Before) \in File
    BY DEF File, Named
  <2> QED
    BY <2>1, <2>2 DEF LeaseInit
<1>2. \A f \in {lease, marker} :
        (f.named \/ f.old => Exists(f)) /\ ~(f.named /\ f.old)
  BY NamesDiffer DEF LeaseInit, NoFile, Named, Exists
<1> QED
  <2>1. /\ pc \in [Acquirers -> Loop \cup {"idle", "held", "unlink", "dead"}]
        /\ seen \in [Acquirers -> Acquirers \cup {Before, Nobody}]
        /\ outdated \subseteq Acquirers
        /\ after \in [Acquirers -> {"idle", "look", "wait", "recover"}]
    BY DEF LeaseInit, Loop
  <2>2. torn \in BOOLEAN /\ unnoticed \in BOOLEAN
    BY DEF LeaseInit
  <2>3. failures \in 0..MaxFailures
    BY BoundIsNat DEF LeaseInit
  <2> QED
    BY <1>1, <1>2, <2>1, <2>2, <2>3 DEF LeaseTypeOK

LEMMA TypeStep == LeaseTypeOK /\ [LeaseNext]_leaseVars => LeaseTypeOK'
<1> SUFFICES ASSUME LeaseTypeOK, [LeaseNext]_leaseVars PROVE LeaseTypeOK'
  OBVIOUS
<1> USE NamesDiffer, BoundIsNat
<1> USE DEF LeaseTypeOK, File, NoFile, Made, Named, Exists, Loop, InReclaim,
            Token, Saw, deaths
<1>1. ASSUME NEW p \in Acquirers, Attempt(p) \/ Event(p) PROVE LeaseTypeOK'
  <2>1. CASE RecoverAbandonedReclaim(p)
    BY <2>1 DEF RecoverAbandonedReclaim, Goto, At
  <2>2. CASE Wipe(p)
    BY <2>2 DEF Wipe, Goto, At
  <2>3. CASE LookForMarker(p)
    BY <2>3 DEF LookForMarker, Goto, At
  <2>4. CASE TryCreateLease(p)
    <3>1. CASE Exists(lease)
      BY <2>4, <3>1 DEF TryCreateLease, Goto, At
    <3>2. CASE lease' = Made(p)
      <4>1. lease' \in File /\ Exists(lease') /\ ~lease'.named /\ ~lease'.old
        BY <3>2, Files
      <4> QED
        BY <2>4, <3>2, <4>1 DEF TryCreateLease, Goto, At
    <3> QED
      BY <2>4, <3>1, <3>2 DEF TryCreateLease
  <2>5. CASE WriteRecord(p)
    BY <2>5 DEF WriteRecord, Goto, At
  <2>6. CASE ReadLease(p)
    BY <2>6 DEF ReadLease, Goto, At
  <2>7. CASE MakeMarker(p)
    <3>1. CASE Exists(marker)
      BY <2>7, <3>1 DEF MakeMarker, Goto, At
    <3>2. CASE marker' = Made(p)
      <4>1. marker' \in File /\ Exists(marker') /\ ~marker'.named /\ ~marker'.old
        BY <3>2, Files
      <4> QED
        BY <2>7, <3>2, <4>1 DEF MakeMarker, Goto, At
    <3> QED
      BY <2>7, <3>1, <3>2 DEF MakeMarker
  <2>8. CASE NameMarker(p)
    BY <2>8 DEF NameMarker, Goto, At
  <2>9. CASE Recheck(p)
    BY <2>9 DEF Recheck, Goto, At
  <2>10. CASE Remove(p)
    BY <2>10 DEF Remove, Goto, At
  <2>11. CASE ReleaseMarker(p)
    BY <2>11 DEF ReleaseMarker, Goto, At
  <2>12. CASE TryAgain(p)
    BY <2>12 DEF TryAgain, Goto, At
  <2>13. CASE Acquire(p)
    BY <2>13 DEF Acquire, Goto, At
  <2>14. CASE GiveUp(p)
    BY <2>14 DEF GiveUp, Goto, At
  <2>15. CASE Release(p)
    BY <2>15 DEF Release, Goto, At
  <2>16. CASE Unlink(p)
    BY <2>16 DEF Unlink, Goto, At
  <2>17. CASE WriteRecordFails(p)
    BY <2>17 DEF WriteRecordFails, Goto, At, Fail
  <2>18. CASE NameMarkerFails(p)
    BY <2>18 DEF NameMarkerFails, Goto, At, Fail
  <2>19. CASE RemoveFails(p)
    BY <2>19 DEF RemoveFails, Goto, At, Fail
  <2>20. CASE Dies(p)
    BY <2>20 DEF Dies, Goto, At
  <2>21. CASE JudgeMarker(p)
    BY <2>21 DEF JudgeMarker, Goto, At
  <2>22. CASE JudgeLease(p)
    BY <2>22 DEF JudgeLease, Goto, At
  <2> QED
    BY <1>1, <2>1, <2>2, <2>3, <2>4, <2>5, <2>6, <2>7, <2>8, <2>9, <2>10,
       <2>11, <2>12, <2>13, <2>14, <2>15, <2>16, <2>17, <2>18, <2>19, <2>20,
       <2>21, <2>22
       DEF Attempt, Event
<1>2. CASE Age
  <2>1. CASE BecomesStale(lease) /\ lease' = [lease EXCEPT !.old = TRUE]
             /\ UNCHANGED marker
    <3>1. lease'.by = lease.by /\ ~lease'.named /\ lease' \in File
      BY <2>1 DEF BecomesStale
    <3> QED
      BY <1>2, <2>1, <3>1 DEF Age, BecomesStale
  <2>2. CASE BecomesStale(marker) /\ marker' = [marker EXCEPT !.old = TRUE]
             /\ UNCHANGED lease
    <3>1. marker'.by = marker.by /\ ~marker'.named /\ marker' \in File
      BY <2>2 DEF BecomesStale
    <3> QED
      BY <1>2, <2>2, <3>1 DEF Age, BecomesStale
  <2> QED
    BY <1>2, <2>1, <2>2 DEF Age
<1>3. CASE UNCHANGED leaseVars
  BY <1>3 DEF leaseVars
<1> QED
  BY <1>1, <1>2, <1>3 DEF LeaseNext

(* Nobody has died yet at a place that matters, and no step but such a     *)
(* death breaks Undisturbed.                                               *)
LEMMA UndisturbedInit == LeaseInit => Undisturbed
BY NamesDiffer DEF LeaseInit, Undisturbed, NoFile, Named, Exists, HasLease, HasMarker,
   Judged, Gone, IsAlive, InReclaim

LEMMA UndisturbedStep ==
  LeaseTypeOK /\ LeaseTypeOK' /\ Undisturbed /\ [LeaseNext]_leaseVars /\ ~torn' /\ ~unnoticed'
    => Undisturbed'
<1> SUFFICES ASSUME LeaseTypeOK, LeaseTypeOK', Undisturbed, [LeaseNext]_leaseVars,
                    ~torn', ~unnoticed'
             PROVE  Undisturbed'
  OBVIOUS
<1> USE NamesDiffer
<1> USE DEF LeaseTypeOK, File, Undisturbed, HasLease, HasMarker, Judged, Gone,
            IsAlive, InReclaim, Token, Exists, Saw, deaths
<1>1. ASSUME NEW p \in Acquirers, Attempt(p) \/ Event(p) PROVE Undisturbed'
  <2>1. CASE RecoverAbandonedReclaim(p)
    BY <2>1 DEF RecoverAbandonedReclaim, Goto, At
  <2>2. CASE Wipe(p)
    BY <2>2 DEF Wipe, Goto, At, NoFile, Exists
  <2>3. CASE LookForMarker(p)
    BY <2>3 DEF LookForMarker, Goto, At
  <2>4. CASE TryCreateLease(p)
    BY <2>4 DEF TryCreateLease, Goto, At, Exists, Made
  <2>5. CASE WriteRecord(p)
    BY <2>5 DEF WriteRecord, Goto, At, Named
  <2>6. CASE ReadLease(p)
    BY <2>6 DEF ReadLease, Goto, At
  <2>7. CASE MakeMarker(p)
    BY <2>7 DEF MakeMarker, Goto, At, Exists, Made
  <2>8. CASE NameMarker(p)
    BY <2>8 DEF NameMarker, Goto, At, Named, Exists
  <2>9. CASE Recheck(p)
    BY <2>9 DEF Recheck, Goto, At
  <2>10. CASE Remove(p)
    BY <2>10 DEF Remove, Goto, At, NoFile, Exists
  <2>11. CASE ReleaseMarker(p)
    BY <2>11 DEF ReleaseMarker, Goto, At
  <2>12. CASE TryAgain(p)
    BY <2>12 DEF TryAgain, Goto, At
  <2>13. CASE Acquire(p)
    BY <2>13 DEF Acquire, Goto, At
  <2>14. CASE GiveUp(p)
    BY <2>14 DEF GiveUp, Goto, At
  <2>15. CASE Release(p)
    BY <2>15 DEF Release, Goto, At
  <2>16. CASE Unlink(p)
    BY <2>16 DEF Unlink, Goto, At, NoFile, Exists
  <2>17. CASE WriteRecordFails(p)
    BY <2>17 DEF WriteRecordFails, Goto, At
  <2>18. CASE NameMarkerFails(p)
    BY <2>18 DEF NameMarkerFails, Goto, At
  <2>19. CASE RemoveFails(p)
    BY <2>19 DEF RemoveFails, Goto, At
  <2>20. CASE Dies(p)
    <3>1. marker.by # p /\ (lease.by = p => lease.named)
      BY <2>20 DEF Dies
    <3>2. pc' = [pc EXCEPT ![p] = "dead"] /\ lease' = lease /\ marker' = marker
      BY <2>20 DEF Dies, Goto
    <3>3. seen' = [seen EXCEPT ![p] = Nobody]
      BY <2>20 DEF Dies
    <3>4. \A q \in Acquirers : q # p => pc'[q] = pc[q] /\ seen'[q] = seen[q]
      BY <3>2, <3>3
    <3>5. pc'[p] = "dead"
      BY <3>2
    <3>6. \A q : Gone(q) => Gone(q)'
      BY <3>4, <3>5
    <3>7. \A q \in Acquirers : pc[q] = "owner" => seen[q] # p
      BY <2>20 DEF Dies, At
    <3> QED
      BY <3>1, <3>2, <3>4, <3>5, <3>6, <3>7
  <2>21. CASE JudgeMarker(p)
    BY <2>21 DEF JudgeMarker, Goto, At, Abandoned
  <2>22. CASE JudgeLease(p)
    BY <2>22 DEF JudgeLease, Goto, At
  <2> QED
    BY <1>1, <2>1, <2>2, <2>3, <2>4, <2>5, <2>6, <2>7, <2>8, <2>9, <2>10,
       <2>11, <2>12, <2>13, <2>14, <2>15, <2>16, <2>17, <2>18, <2>19, <2>20,
       <2>21, <2>22
       DEF Attempt, Event
<1>2. CASE Age
  BY <1>2 DEF Age, BecomesStale
<1>3. CASE UNCHANGED leaseVars
  BY <1>3 DEF leaseVars
<1> QED
  BY <1>1, <1>2, <1>3 DEF LeaseNext

(* A process that leaves a part of the protocol leaves no file of its own. *)
LEMMA LeakStep ==
  LeaseLInv /\ LeaseTypeOK' /\ [LeaseNext]_leaseVars => (NamedInTime /\ NothingLeaked)'
<1> SUFFICES ASSUME LeaseLInv, LeaseTypeOK', [LeaseNext]_leaseVars
             PROVE  (NamedInTime /\ NothingLeaked)'
  OBVIOUS
<1> USE NamesDiffer
<1> USE DEF LeaseLInv, LeaseTypeOK, File, NamedInTime, NothingLeaked, IsAlive, InReclaim,
            Saw, deaths
<1>1. ASSUME NEW p \in Acquirers, Attempt(p) \/ Event(p)
      PROVE  (NamedInTime /\ NothingLeaked)'
  <2>1. CASE RecoverAbandonedReclaim(p)
    BY <2>1 DEF RecoverAbandonedReclaim, Goto, At
  <2>2. CASE Wipe(p)
    BY <2>2 DEF Wipe, Goto, At, NoFile
  <2>3. CASE LookForMarker(p)
    BY <2>3 DEF LookForMarker, Goto, At
  <2>4. CASE TryCreateLease(p)
    BY <2>4 DEF TryCreateLease, Goto, At, Exists, Made
  <2>5. CASE WriteRecord(p)
    BY <2>5 DEF WriteRecord, Goto, At, Named
  <2>6. CASE ReadLease(p)
    BY <2>6 DEF ReadLease, Goto, At
  <2>7. CASE MakeMarker(p)
    BY <2>7 DEF MakeMarker, Goto, At, Exists, Made
  <2>8. CASE NameMarker(p)
    BY <2>8 DEF NameMarker, Goto, At, Named
  <2>9. CASE Recheck(p)
    BY <2>9 DEF Recheck, Goto, At
  <2>10. CASE Remove(p)
    BY <2>10 DEF Remove, Goto, At, NoFile
  <2>11. CASE ReleaseMarker(p)
    BY <2>11 DEF ReleaseMarker, Goto, At, Token
  <2>12. CASE TryAgain(p)
    BY <2>12 DEF TryAgain, Goto, At
  <2>13. CASE Acquire(p)
    BY <2>13 DEF Acquire, Goto, At
  <2>14. CASE GiveUp(p)
    BY <2>14 DEF GiveUp, Goto, At
  <2>15. CASE Release(p)
    BY <2>15 DEF Release, Goto, At, Token
  <2>16. CASE Unlink(p)
    BY <2>16 DEF Unlink, Goto, At, NoFile
  <2>17. CASE WriteRecordFails(p)
    BY <2>17 DEF WriteRecordFails, Goto, At
  <2>18. CASE NameMarkerFails(p)
    BY <2>18 DEF NameMarkerFails, Goto, At
  <2>19. CASE RemoveFails(p)
    BY <2>19 DEF RemoveFails, Goto, At
  <2>20. CASE Dies(p)
    BY <2>20 DEF Dies, Goto, At
  <2>21. CASE JudgeMarker(p)
    BY <2>21 DEF JudgeMarker, Goto, At
  <2>22. CASE JudgeLease(p)
    BY <2>22 DEF JudgeLease, Goto, At
  <2> QED
    BY <1>1, <2>1, <2>2, <2>3, <2>4, <2>5, <2>6, <2>7, <2>8, <2>9, <2>10,
       <2>11, <2>12, <2>13, <2>14, <2>15, <2>16, <2>17, <2>18, <2>19, <2>20,
       <2>21, <2>22
       DEF Attempt, Event
<1>2. CASE Age
  BY <1>2 DEF Age, BecomesStale
<1>3. CASE UNCHANGED leaseVars
  BY <1>3 DEF leaseVars
<1> QED
  BY <1>1, <1>2, <1>3 DEF LeaseNext

(* The types of all variables, for any set of processes.                   *)
THEOREM LeaseTypes == LeaseSpec => []LeaseTypeOK
<1>1. LeaseInit => LeaseTypeOK
  BY TypeInit
<1>2. LeaseTypeOK /\ [LeaseNext]_leaseVars => LeaseTypeOK'
  BY TypeStep
<1> QED
  BY <1>1, <1>2, PTL DEF LeaseSpec

(* The strengthened invariant: types, and Undisturbed until a death in the *)
(* wrong place.                                                            *)
LEMMA LeaseInductive == LeaseSpec => []LeaseIInv
<1>1. LeaseInit => LeaseIInv
  BY TypeInit, UndisturbedInit DEF LeaseIInv
<1>2. LeaseIInv /\ [LeaseNext]_leaseVars => LeaseIInv'
  <2>1. SUFFICES ASSUME LeaseIInv, [LeaseNext]_leaseVars PROVE LeaseIInv'
    OBVIOUS
  <2>2. LeaseTypeOK /\ LeaseTypeOK'
    BY <2>1, TypeStep DEF LeaseIInv
  <2>3. ~torn' /\ ~unnoticed' => ~torn /\ ~unnoticed
    BY <2>1, <2>2 DEF deaths, JudgeMarker, JudgeLease, LeaseNext, Attempt, Event, Age, leaseVars, LeaseTypeOK, Dies,
       RecoverAbandonedReclaim, Wipe, LookForMarker, TryCreateLease,
       WriteRecord, ReadLease, MakeMarker, NameMarker, Recheck, Remove,
       ReleaseMarker, TryAgain, Acquire, GiveUp, Release, Unlink,
       WriteRecordFails, NameMarkerFails, RemoveFails
  <2> QED
    BY <2>1, <2>2, <2>3, UndisturbedStep DEF LeaseIInv
<1> QED
  BY <1>1, <1>2, PTL DEF LeaseSpec

(* A live process keeps its lease until it releases it, however many       *)
(* contend and whenever they act on what they read, unless one died with a *)
(* marker, with a lease it had not written, or when another had read its   *)
(* name in a marker and not yet looked whether it lives.                   *)
THEOREM LeaseKept == LeaseSpec => []LiveLeaseKept
<1>1. LeaseIInv => LiveLeaseKept
  BY DEF LeaseIInv, Undisturbed, HasLease, LiveLeaseKept
<1> QED
  BY <1>1, LeaseInductive, PTL

(* Under the same condition the lease is a mutual exclusion.               *)
THEOREM LeaseExclusive == LeaseSpec => [](~torn /\ ~unnoticed => OneHolder)
<1>1. LeaseIInv => (~torn /\ ~unnoticed => OneHolder)
  BY DEF LeaseIInv, Undisturbed, HasLease, OneHolder, Holds
<1> QED
  BY <1>1, LeaseInductive, PTL

(* No process leaves a lease or a marker behind while it lives, also after *)
(* others have died anywhere.                                              *)
THEOREM LeaseNotLeaked == LeaseSpec => []NothingLeaked
<1>1. LeaseInit => LeaseLInv
  <2>1. LeaseInit => NamedInTime /\ NothingLeaked
    BY NamesDiffer DEF LeaseInit, NamedInTime, NothingLeaked, NoFile, Named
  <2> QED
    BY <2>1, TypeInit DEF LeaseLInv
<1>2. LeaseLInv /\ [LeaseNext]_leaseVars => LeaseLInv'
  BY TypeStep, LeakStep DEF LeaseLInv
<1>3. LeaseLInv => NothingLeaked
  BY DEF LeaseLInv
<1> QED
  BY <1>1, <1>2, <1>3, PTL DEF LeaseSpec
=============================================================================
