--------------------------- MODULE DeliveryProofs ---------------------------
(***************************************************************************)
(* What is proved of the delivery to GitHub and to the receivers of        *)
(* notifications: the outbox, the reading of checks and the publication.   *)
(***************************************************************************)
EXTENDS Publication, CheckInventory, Outbox, FiniteSetTheorems, WellFoundedInduction, TLAPS

----------------------------------------------------------------------------
(* The outbox of notifications. *)

OutboxRow == [status : {"none", "pending", "sent", "failed"}, attempts : Nat, due : BOOLEAN]
FlushType == [due : Seq(Message), step : {"idle", "flush", "post", "taken", "refused"}]
Holders(m) == {f \in Flusher : Holds(f, m)}

\* A flush holds each message once, and holds some exactly while it posts.
FlushesOK ==
    \A f \in Flusher :
        /\ flush[f].step \in {"idle", "flush"} <=> flush[f].due = <<>>
        /\ \A i, j \in DOMAIN flush[f].due : flush[f].due[i] = flush[f].due[j] => i = j

\* A message no flush shares and no answer was lost for is held by one flush at
\* most and waits for its answer, and what the target took is being recorded or
\* is recorded.
UnsharedOK ==
    \A m \in Message \ excused :
        /\ \A f, g \in Flusher : Holds(f, m) /\ Holds(g, m) => f = g
        /\ \A f \in Flusher : Holds(f, m) => outbox[m].status = "pending"
        /\ receiver[m] > 0 => \/ outbox[m].status = "sent"
                              \/ \E f \in Flusher : flush[f].step = "taken" /\ Head(flush[f].due) = m

TakenHasArrived == \A f \in Flusher : flush[f].step = "taken" => receiver[Head(flush[f].due)] > 0

\* Each flush that holds a message may still count one attempt.
AttemptsLeft ==
    \A m \in Message :
        /\ outbox[m].status \in {"none", "pending"} => outbox[m].attempts < MaxSends
        /\ outbox[m].attempts + Cardinality(Holders(m)) <= (MaxSends + Cardinality(Caller))

OutboxInv ==
    /\ OutboxTypeOK /\ FlushesOK /\ UnsharedOK /\ TakenHasArrived /\ AttemptsLeft
    /\ ReachesOnce /\ SentHasArrived

LEMMA OutboxTypes ==
    OutboxTypeOK <=> /\ outbox \in [Message -> OutboxRow] /\ flush \in [Flusher -> FlushType]
                     /\ receiver \in [Message -> Nat] /\ excused \subseteq Message /\ crashes \in 0..MaxCrashes
  BY DEF OutboxTypeOK, OutboxRow, FlushType

LEMMA RowTypes ==
    ASSUME NEW row \in OutboxRow
    PROVE  /\ MarkedSent(row) \in OutboxRow /\ MarkedSent(row).status = "sent"
           /\ MarkedSent(row).attempts = row.attempts + 1
           /\ MarkedFailure(row) \in OutboxRow /\ MarkedFailure(row).attempts = row.attempts + 1
           /\ \/ MarkedFailure(row).status = "failed"
              \/ MarkedFailure(row).status = "pending" /\ row.attempts + 1 < MaxSends
  <1>1. row.attempts + 1 \in Nat /\ row.due \in BOOLEAN
    BY DEF OutboxRow
  <1>2. MarkedSent(row) \in OutboxRow
    <2>1. \A n \in Nat : [row EXCEPT !.status = "sent", !.attempts = n] \in OutboxRow
      BY DEF OutboxRow
    <2> QED BY <1>1, <2>1 DEF MarkedSent
  <1>3. MarkedSent(row).status = "sent" /\ MarkedSent(row).attempts = row.attempts + 1
    BY DEF MarkedSent, OutboxRow
  <1>4. \/ MarkedFailure(row).status = "failed"
        \/ MarkedFailure(row).status = "pending" /\ row.attempts + 1 < MaxSends
    <2>1. MaxSends \in Nat
      BY OutboxAssumption
    <2>2. ~Spent(row.attempts + 1) => row.attempts + 1 < MaxSends
      BY <1>1, <2>1 DEF Spent
    <2>3. CASE Spent(row.attempts + 1)
      <3>1. MarkedFailure(row).status = "failed"
        BY <2>3 DEF MarkedFailure
      <3> QED BY <3>1
    <2>4. CASE ~Spent(row.attempts + 1)
      <3>1. MarkedFailure(row).status = "pending"
        BY <2>4 DEF MarkedFailure
      <3> QED BY <2>2, <2>4, <3>1
    <2> QED BY <2>3, <2>4
  <1>5. MarkedFailure(row) \in OutboxRow
    <2>1. (row.due /\ Spent(row.attempts + 1)) \in BOOLEAN
      OBVIOUS
    <2>2. \A t \in {"pending", "failed"}, n \in Nat, d \in BOOLEAN :
             [status |-> t, attempts |-> n, due |-> d] \in OutboxRow
      BY DEF OutboxRow
    <2> QED BY <1>1, <2>1, <2>2 DEF MarkedFailure
  <1>6. MarkedFailure(row).attempts = row.attempts + 1
    BY DEF MarkedFailure
  <1> QED BY <1>2, <1>3, <1>4, <1>5, <1>6

\* What a flush still has to post after its first message.
LEMMA AfterTheHead ==
    ASSUME NEW s \in Seq(Message), s # <<>>, \A i, j \in DOMAIN s : s[i] = s[j] => i = j
    PROVE  /\ Head(s) \in Message /\ Tail(s) \in Seq(Message) /\ (Len(s) = 1 <=> Tail(s) = <<>>)
           /\ \A i, j \in DOMAIN Tail(s) : Tail(s)[i] = Tail(s)[j] => i = j
           /\ \E i \in DOMAIN s : s[i] = Head(s)
           /\ \A m : (\E i \in DOMAIN Tail(s) : Tail(s)[i] = m) <=> (\E i \in DOMAIN s : s[i] = m) /\ m # Head(s)
  <1>1. /\ Len(s) \in Nat /\ Len(s) > 0 /\ DOMAIN s = 1..Len(s) /\ Head(s) = s[1]
        /\ \A i \in 1..Len(s) : s[i] \in Message
    OBVIOUS
  <1>2. /\ Tail(s) \in Seq(Message) /\ Len(Tail(s)) = Len(s) - 1
        /\ DOMAIN Tail(s) = 1..(Len(s) - 1)
        /\ \A i \in 1..(Len(s) - 1) : Tail(s)[i] = s[i + 1]
    BY <1>1
  <1>3. Len(s) = 1 <=> Tail(s) = <<>>
    BY <1>1, <1>2
  <1>4. \A i \in 1..(Len(s) - 1) : i + 1 \in 1..Len(s) /\ i + 1 # 1
    BY <1>1
  <1>5. \A i, j \in DOMAIN Tail(s) : Tail(s)[i] = Tail(s)[j] => i = j
    <2> SUFFICES ASSUME NEW i \in 1..(Len(s) - 1), NEW j \in 1..(Len(s) - 1), s[i + 1] = s[j + 1] PROVE i = j
      BY <1>2
    <2>1. i + 1 = j + 1
      BY <1>1, <1>4
    <2> QED BY <1>1, <2>1
  <1>6. ASSUME NEW m
        PROVE  (\E i \in DOMAIN Tail(s) : Tail(s)[i] = m) <=> (\E i \in DOMAIN s : s[i] = m) /\ m # Head(s)
    <2>1. ASSUME NEW i \in 1..(Len(s) - 1), Tail(s)[i] = m PROVE (\E k \in DOMAIN s : s[k] = m) /\ m # Head(s)
      BY <1>1, <1>2, <1>4, <2>1
    <2>2. ASSUME NEW k \in 1..Len(s), s[k] = m, m # Head(s) PROVE \E i \in DOMAIN Tail(s) : Tail(s)[i] = m
      <3>1. k - 1 \in 1..(Len(s) - 1) /\ (k - 1) + 1 = k
        BY <1>1, <2>2
      <3> QED BY <1>2, <2>2, <3>1
    <2> QED BY <1>1, <1>2, <2>1, <2>2
  <1> QED BY <1>1, <1>2, <1>3, <1>5, <1>6

LEMMA HoldersFinite ==
    ASSUME NEW m
    PROVE  /\ IsFiniteSet(Flusher) /\ Cardinality(Flusher) = Cardinality(Caller) + 1
           /\ IsFiniteSet(Holders(m)) /\ Cardinality(Holders(m)) \in Nat /\ Cardinality(Caller) \in Nat
           /\ Cardinality(Holders(m)) <= Cardinality(Caller) + 1
  <1>1. IsFiniteSet(Caller) /\ Loop \notin Caller
    BY OutboxAssumption
  <1>2. Flusher = Caller \cup {Loop}
    BY DEF Flusher
  <1>3. IsFiniteSet(Flusher) /\ Cardinality(Flusher) = Cardinality(Caller) + 1
    BY <1>1, <1>2, FS_AddElement
  <1>4. Holders(m) \subseteq Flusher
    BY DEF Holders
  <1> QED BY <1>1, <1>3, <1>4, FS_Subset, FS_CardinalityType

\* Flushes that hold what they held.
LEMMA SameHolders ==
    ASSUME NEW m, \A g \in Flusher : flush'[g].due = flush[g].due
    PROVE  Holders(m)' = Holders(m) /\ \A g \in Flusher : Holds(g, m)' <=> Holds(g, m)
  BY DEF Holders, Holds

\* A flush at a post.
LEMMA AtAPost ==
    ASSUME OutboxTypeOK, FlushesOK, NEW f \in Flusher, flush[f].step \in {"post", "taken", "refused"}
    PROVE  /\ flush[f].due \in Seq(Message) /\ flush[f].due # <<>>
           /\ \A i, j \in DOMAIN flush[f].due : flush[f].due[i] = flush[f].due[j] => i = j
           /\ Head(flush[f].due) \in Message /\ Holds(f, Head(flush[f].due))
  <1>1. /\ flush[f].due \in Seq(Message) /\ flush[f].due # <<>>
        /\ \A i, j \in DOMAIN flush[f].due : flush[f].due[i] = flush[f].due[j] => i = j
    BY DEF OutboxTypeOK, FlushesOK
  <1>2. Head(flush[f].due) \in Message /\ \E i \in DOMAIN flush[f].due : flush[f].due[i] = Head(flush[f].due)
    BY <1>1, AfterTheHead
  <1> QED BY <1>1, <1>2 DEF Holds

LEMMA PostStep ==
    ASSUME OutboxInv, NEW f \in Flusher, Post(f)
    PROVE  OutboxInv' /\ outbox' = outbox
  <1> DEFINE h == Head(flush[f].due)
  <1>1. /\ OutboxTypeOK /\ FlushesOK /\ flush[f].step = "post"
        /\ outbox' = outbox /\ excused' = excused /\ crashes' = crashes
    BY DEF OutboxInv, Post
  <1>2. flush[f].due # <<>> /\ h \in Message /\ Holds(f, h)
    BY <1>1, AtAPost
  <1> HIDE DEF h
  <1>3. PICK s \in {"taken", "refused"} :
        /\ flush' = [flush EXCEPT ![f].step = s]
        /\ receiver' = IF s = "taken" THEN [receiver EXCEPT ![h] = @ + 1] ELSE receiver
    BY DEF Post, h
  <1>4. /\ flush' \in [Flusher -> FlushType] /\ flush'[f].step = s
        /\ \A g \in Flusher : flush'[g].due = flush[g].due
        /\ \A g \in Flusher : g # f => flush'[g] = flush[g]
    <2>1. flush \in [Flusher -> FlushType]
      BY <1>1, OutboxTypes
    <2>2. flush' = [flush EXCEPT ![f] = [flush[f] EXCEPT !.step = s]]
      BY <1>3, <2>1
    <2>3. [flush[f] EXCEPT !.step = s] \in FlushType
      BY <2>1 DEF FlushType
    <2> QED BY <2>1, <2>2, <2>3 DEF FlushType
  <1>5. /\ receiver \in [Message -> Nat] /\ receiver' \in [Message -> Nat]
        /\ \A m \in Message : receiver'[m] >= receiver[m] /\ (m # h => receiver'[m] = receiver[m])
        /\ receiver'[h] = IF s = "taken" THEN receiver[h] + 1 ELSE receiver[h]
    <2>1. receiver \in [Message -> Nat]
      BY <1>1, OutboxTypes
    <2> QED BY <1>2, <1>3, <2>1
  <1>6. OutboxTypeOK'
    BY <1>1, <1>4, <1>5, OutboxTypes DEF OutboxTypeOK, OutboxRow, FlushType
  <1>7. FlushesOK'
    BY <1>1, <1>2, <1>4 DEF FlushesOK
  <1>8. h \notin excused => receiver[h] = 0
    <2> SUFFICES ASSUME h \notin excused, receiver[h] > 0 PROVE FALSE
      BY <1>2, <1>5
    <2>1. outbox[h].status = "pending" /\ \A g \in Flusher : Holds(g, h) => g = f
      BY <1>2 DEF OutboxInv, UnsharedOK
    <2>2. PICK g \in Flusher : flush[g].step = "taken" /\ Head(flush[g].due) = h
      BY <1>2, <2>1 DEF OutboxInv, UnsharedOK
    <2>3. Holds(g, h)
      BY <1>1, <2>2, AtAPost
    <2> QED BY <1>1, <2>1, <2>2, <2>3
  <1>9. UnsharedOK'
    <2> SUFFICES ASSUME NEW m \in Message, m \notin excused
                 PROVE  /\ \A x, y \in Flusher : Holds(x, m)' /\ Holds(y, m)' => x = y
                        /\ \A x \in Flusher : Holds(x, m)' => outbox[m].status = "pending"
                        /\ receiver'[m] > 0 =>
                              \/ outbox[m].status = "sent"
                              \/ \E x \in Flusher : flush'[x].step = "taken" /\ Head(flush'[x].due) = m
      BY <1>1 DEF UnsharedOK
    <2>1. \A x \in Flusher : Holds(x, m)' <=> Holds(x, m)
      BY <1>4, SameHolders
    <2>2. /\ \A x, y \in Flusher : Holds(x, m) /\ Holds(y, m) => x = y
          /\ \A x \in Flusher : Holds(x, m) => outbox[m].status = "pending"
      BY DEF OutboxInv, UnsharedOK
    <2>3. ASSUME receiver'[m] > 0
          PROVE  \/ outbox[m].status = "sent"
                 \/ \E x \in Flusher : flush'[x].step = "taken" /\ Head(flush'[x].due) = m
      <3>1. CASE m = h
        <4>1. s = "taken"
          BY <1>5, <1>8, <2>3, <3>1
        <4> QED BY <1>4, <3>1, <4>1 DEF h
      <3>2. CASE m # h
        <4>1. receiver[m] > 0
          BY <1>5, <2>3, <3>2
        <4>2. CASE outbox[m].status = "sent"
          BY <4>2
        <4>3. CASE \E x \in Flusher : flush[x].step = "taken" /\ Head(flush[x].due) = m
          BY <1>1, <1>4, <4>3
        <4> QED BY <4>1, <4>2, <4>3 DEF OutboxInv, UnsharedOK
      <3> QED BY <3>1, <3>2
    <2> QED BY <2>1, <2>2, <2>3
  <1>10. TakenHasArrived'
    <2> SUFFICES ASSUME NEW g \in Flusher, flush'[g].step = "taken" PROVE receiver'[Head(flush'[g].due)] > 0
      BY DEF TakenHasArrived
    <2>1. CASE g = f
      BY <1>2, <1>4, <1>5, <2>1 DEF h
    <2>2. CASE g # f
      <3>1. flush[g].step = "taken" /\ flush'[g].due = flush[g].due
        BY <1>4, <2>2
      <3>2. Head(flush[g].due) \in Message /\ receiver[Head(flush[g].due)] > 0
        BY <1>1, <3>1, AtAPost DEF OutboxInv, TakenHasArrived
      <3> QED BY <1>5, <3>1, <3>2
    <2> QED BY <2>1, <2>2
  <1>11. AttemptsLeft'
    <2>1. \A m \in Message : Holders(m)' = Holders(m)
      BY <1>4, SameHolders
    <2> QED BY <1>1, <2>1 DEF OutboxInv, AttemptsLeft
  <1>12. ReachesOnce'
    BY <1>1, <1>5, <1>8 DEF OutboxInv, ReachesOnce
  <1>13. SentHasArrived'
    BY <1>1, <1>5 DEF OutboxInv, SentHasArrived
  <1> QED BY <1>1, <1>6, <1>7, <1>9, <1>10, <1>11, <1>12, <1>13 DEF OutboxInv

\* A flush records what became of its first message and goes on.
LEMMA RecordStep ==
    ASSUME OutboxInv, NEW f \in Flusher, flush[f].step \in {"taken", "refused"},
           NEW row \in OutboxRow,
           outbox' = [outbox EXCEPT ![Head(flush[f].due)] = row],
           row.attempts = outbox[Head(flush[f].due)].attempts + 1,
           \/ row.status = "sent" /\ flush[f].step = "taken"
           \/ row.status = "failed"
           \/ row.status = "pending" /\ row.attempts < MaxSends,
           flush' = [flush EXCEPT ![f] = NextMessage(f)],
           excused' \in {excused, excused \cup {Head(flush[f].due)}},
           flush[f].step = "taken" /\ row.status # "sent" => Head(flush[f].due) \in excused',
           UNCHANGED <<receiver, crashes>>
    PROVE  OutboxInv'
           /\ \A m \in Message : outbox[m].status = "sent" /\ outbox'[m].status # "sent" => m \in excused
  <1> DEFINE h == Head(flush[f].due)
  <1>1. /\ OutboxTypeOK /\ FlushesOK /\ outbox \in [Message -> OutboxRow] /\ flush \in [Flusher -> FlushType]
        /\ receiver \in [Message -> Nat]
    BY OutboxTypes DEF OutboxInv
  <1>2. /\ flush[f].due \in Seq(Message) /\ flush[f].due # <<>> /\ h \in Message /\ Holds(f, h)
        /\ \A i, j \in DOMAIN flush[f].due : flush[f].due[i] = flush[f].due[j] => i = j
    BY <1>1, AtAPost
  <1>3. /\ Tail(flush[f].due) \in Seq(Message) /\ (Len(flush[f].due) = 1 <=> Tail(flush[f].due) = <<>>)
        /\ \A i, j \in DOMAIN Tail(flush[f].due) :
              Tail(flush[f].due)[i] = Tail(flush[f].due)[j] => i = j
        /\ \A m : (\E i \in DOMAIN Tail(flush[f].due) : Tail(flush[f].due)[i] = m)
                  <=> (\E i \in DOMAIN flush[f].due : flush[f].due[i] = m) /\ m # h
    BY ONLY <1>2, AfterTheHead
  <1>4. /\ outbox' = [outbox EXCEPT ![h] = row] /\ row.attempts = outbox[h].attempts + 1
        /\ excused' \in {excused, excused \cup {h}}
        /\ flush[f].step = "taken" /\ row.status # "sent" => h \in excused'
    OBVIOUS
  <1> HIDE DEF h
  <1>5. PICK t \in {"idle", "post"} :
          /\ flush' = [flush EXCEPT ![f] = [due |-> Tail(flush[f].due), step |-> t]]
          /\ t = "idle" <=> Tail(flush[f].due) = <<>>
    BY <1>3 DEF NextMessage
  <1>6. /\ flush' \in [Flusher -> FlushType]
        /\ flush'[f].due = Tail(flush[f].due) /\ flush'[f].step = t
        /\ \A g \in Flusher : g # f => flush'[g] = flush[g]
    <2>1. [due |-> Tail(flush[f].due), step |-> t] \in FlushType
      BY <1>3 DEF FlushType
    <2>2. flush \in [Flusher -> FlushType]
      BY <1>1
    <2>3. flush'[f] = [due |-> Tail(flush[f].due), step |-> t]
      BY <1>5, <2>2
    <2>4. \A g \in Flusher : g # f => flush'[g] = flush[g]
      BY <1>5, <2>2
    <2>5. flush' \in [Flusher -> FlushType]
      BY <1>5, <2>1, <2>2
    <2> QED BY <2>3, <2>4, <2>5
  <1>7. /\ \A m : Holds(f, m)' <=> Holds(f, m) /\ m # h
        /\ \A g \in Flusher : g # f => \A m : Holds(g, m)' <=> Holds(g, m)
    <2>1. \A m : Holds(f, m)' <=> Holds(f, m) /\ m # h
      <3>1. \A m : Holds(f, m)' <=> \E i \in DOMAIN Tail(flush[f].due) : Tail(flush[f].due)[i] = m
        BY <1>6 DEF Holds
      <3> QED BY <1>3, <3>1 DEF Holds
    <2>2. \A g \in Flusher : g # f => \A m : Holds(g, m)' <=> Holds(g, m)
      BY <1>6 DEF Holds
    <2> QED BY <2>1, <2>2
  <1>8. OutboxTypeOK'
    <2>1. outbox' \in [Message -> OutboxRow] /\ excused' \subseteq Message
      BY <1>1, <1>2, <1>4, OutboxTypes
    <2>2. receiver' \in [Message -> Nat] /\ crashes' \in 0..MaxCrashes
      BY <1>1, OutboxTypes
    <2> QED BY <1>6, <2>1, <2>2 DEF OutboxTypeOK, OutboxRow, FlushType
  <1>9. FlushesOK'
    <2> SUFFICES ASSUME NEW g \in Flusher
                 PROVE  /\ flush'[g].step \in {"idle", "flush"} <=> flush'[g].due = <<>>
                        /\ \A i, j \in DOMAIN flush'[g].due : flush'[g].due[i] = flush'[g].due[j] => i = j
      BY DEF FlushesOK
    <2>1. CASE g = f
      <3>1. flush'[g].due = Tail(flush[f].due) /\ flush'[g].step = t
        BY <1>6, <2>1
      <3>2. flush'[g].step \in {"idle", "flush"} <=> flush'[g].due = <<>>
        BY <1>5, <3>1
      <3>3. \A i, j \in DOMAIN flush'[g].due : flush'[g].due[i] = flush'[g].due[j] => i = j
        BY ONLY <1>3, <3>1
      <3> QED BY <3>2, <3>3
    <2>2. CASE g # f
      BY <1>1, <1>6, <2>2 DEF FlushesOK
    <2> QED BY <2>1, <2>2
  <1>10. h \notin excused => /\ outbox[h].status = "pending"
                             /\ \A g \in Flusher : Holds(g, h) => g = f
    BY <1>2 DEF OutboxInv, UnsharedOK
  <1>11. h \notin excused /\ receiver[h] > 0 => flush[f].step = "taken"
    <2> SUFFICES ASSUME h \notin excused, receiver[h] > 0 PROVE flush[f].step = "taken"
      OBVIOUS
    <2>1. PICK g \in Flusher : flush[g].step = "taken" /\ Head(flush[g].due) = h
      BY <1>2, <1>10 DEF OutboxInv, UnsharedOK
    <2>2. Holds(g, h)
      BY <1>1, <2>1, AtAPost
    <2> QED BY <1>10, <2>1, <2>2
  <1>12. UnsharedOK'
    <2> SUFFICES ASSUME NEW m \in Message, m \notin excused'
                 PROVE  /\ \A x, y \in Flusher : Holds(x, m)' /\ Holds(y, m)' => x = y
                        /\ \A x \in Flusher : Holds(x, m)' => outbox'[m].status = "pending"
                        /\ receiver[m] > 0 =>
                              \/ outbox'[m].status = "sent"
                              \/ \E x \in Flusher : flush'[x].step = "taken" /\ Head(flush'[x].due) = m
      BY DEF UnsharedOK
    <2>1. m \notin excused
      BY <1>4
    <2>2. CASE m = h
      <3>1. \A x \in Flusher : ~Holds(x, m)'
        BY <1>7, <1>10, <2>1, <2>2
      <3>2. receiver[m] > 0 => outbox'[m].status = "sent"
        BY <1>1, <1>2, <1>4, <1>11, <2>1, <2>2
      <3> QED BY <3>1, <3>2
    <2>3. CASE m # h
      <3>1. outbox'[m] = outbox[m]
        BY <1>1, <1>4, <2>3
      <3>2. \A x \in Flusher : Holds(x, m)' <=> Holds(x, m)
        BY <1>7, <2>3
      <3>3. \A x \in Flusher : Head(flush[x].due) = m => x # f
        BY <2>3 DEF h
      <3>4. \A x \in Flusher : flush[x].step = "taken" /\ Head(flush[x].due) = m
                               => flush'[x].step = "taken" /\ Head(flush'[x].due) = m
        BY <1>6, <3>3
      <3> QED BY <2>1, <3>1, <3>2, <3>4 DEF OutboxInv, UnsharedOK
    <2> QED BY <2>2, <2>3
  <1>13. TakenHasArrived'
    <2> SUFFICES ASSUME NEW g \in Flusher, flush'[g].step = "taken" PROVE receiver[Head(flush'[g].due)] > 0
      BY DEF TakenHasArrived
    <2>1. g # f
      BY <1>5, <1>6
    <2> QED BY <1>6, <2>1 DEF OutboxInv, TakenHasArrived
  <1>14. AttemptsLeft'
    <2> SUFFICES ASSUME NEW m \in Message
                 PROVE  /\ outbox'[m].status \in {"none", "pending"} => outbox'[m].attempts < MaxSends
                        /\ outbox'[m].attempts + Cardinality(Holders(m)') <= MaxSends + Cardinality(Caller)
      BY DEF AttemptsLeft
    <2>1. /\ outbox[m].status \in {"none", "pending"} => outbox[m].attempts < MaxSends
          /\ outbox[m].attempts + Cardinality(Holders(m)) <= MaxSends + Cardinality(Caller)
          /\ outbox[m].attempts \in Nat /\ IsFiniteSet(Holders(m)) /\ Cardinality(Holders(m)) \in Nat
      BY <1>1, HoldersFinite DEF OutboxInv, AttemptsLeft, OutboxRow
    <2>2. CASE m = h
      <3>1. f \in Holders(m) /\ Holders(m)' = Holders(m) \ {f}
        BY <1>2, <1>7, <2>2 DEF Holders
      <3>2. Cardinality(Holders(m)') = Cardinality(Holders(m)) - 1
        BY <2>1, <3>1, FS_RemoveElement
      <3>3. outbox'[m] = row
        BY <1>1, <1>4, <2>2
      <3>4. MaxSends \in Nat /\ Cardinality(Caller) \in Nat
        BY HoldersFinite, OutboxAssumption
      <3>5. row.status \in {"none", "pending"} => row.attempts < MaxSends
        OBVIOUS
      <3> QED BY <1>4, <2>1, <2>2, <3>2, <3>3, <3>4, <3>5
    <2>3. CASE m # h
      <3>1. outbox'[m] = outbox[m] /\ Holders(m)' = Holders(m)
        BY <1>1, <1>4, <1>7, <2>3 DEF Holders
      <3> QED BY <2>1, <3>1
    <2> QED BY <2>2, <2>3
  <1>15. ReachesOnce'
    BY <1>4 DEF OutboxInv, ReachesOnce
  <1>16. SentHasArrived'
    <2> SUFFICES ASSUME NEW m \in Message, outbox'[m].status = "sent" PROVE receiver[m] > 0
      BY DEF SentHasArrived
    <2>1. CASE m = h
      <3>1. flush[f].step = "taken"
        BY <1>1, <1>4, <2>1
      <3> QED BY <2>1, <3>1 DEF OutboxInv, TakenHasArrived, h
    <2>2. CASE m # h
      BY <1>1, <1>4, <2>2 DEF OutboxInv, SentHasArrived
    <2> QED BY <2>1, <2>2
  <1>17. \A m \in Message : outbox[m].status = "sent" /\ outbox'[m].status # "sent" => m \in excused
    BY <1>1, <1>4, <1>10
  <1> QED BY <1>8, <1>9, <1>12, <1>13, <1>14, <1>15, <1>16, <1>17 DEF OutboxInv

LEMMA AnswerStep ==
    ASSUME OutboxInv, NEW f \in Flusher, Answer(f) \/ AnswerLost(f)
    PROVE  OutboxInv'
           /\ \A m \in Message : outbox[m].status = "sent" /\ outbox'[m].status # "sent" => m \in excused
  <1> DEFINE h == Head(flush[f].due)
  <1>1. h \in Message /\ outbox \in [Message -> OutboxRow] /\ outbox[h] \in OutboxRow
    BY AtAPost, OutboxTypes DEF OutboxInv, Answer, AnswerLost
  <1>2. CASE Answer(f) /\ flush[f].step = "taken"
    <2>1. outbox' = [outbox EXCEPT ![h] = MarkedSent(outbox[h])]
      BY <1>1, <1>2 DEF Answer, Succeeds
    <2> QED BY <1>1, <1>2, <2>1, RowTypes, RecordStep DEF Answer
  <1>3. CASE (Answer(f) /\ flush[f].step = "refused") \/ AnswerLost(f)
    <2>1. /\ outbox' = [outbox EXCEPT ![h] = MarkedFailure(outbox[h])]
          /\ flush' = [flush EXCEPT ![f] = NextMessage(f)] /\ UNCHANGED <<receiver, crashes>>
          /\ flush[f].step \in {"taken", "refused"}
      BY <1>1, <1>3 DEF Answer, AnswerLost, Succeeds
    <2>2. excused' \in {excused, excused \cup {h}} /\ (flush[f].step = "taken" => h \in excused')
      BY <1>3 DEF Answer, AnswerLost
    <2>3. /\ MarkedFailure(outbox[h]) \in OutboxRow
          /\ MarkedFailure(outbox[h]).attempts = outbox[h].attempts + 1
          /\ \/ MarkedFailure(outbox[h]).status = "failed"
             \/ MarkedFailure(outbox[h]).status = "pending" /\ MarkedFailure(outbox[h]).attempts < MaxSends
      BY <1>1, RowTypes
    <2> QED BY <2>1, <2>2, <2>3, RecordStep
  <1> QED BY <1>2, <1>3 DEF Answer

LEMMA ReadStep ==
    ASSUME OutboxInv, NEW f \in Flusher, ReadDue(f)
    PROVE  OutboxInv' /\ outbox' = outbox
  <1>1. /\ OutboxTypeOK /\ FlushesOK /\ flush[f].step = "flush" /\ flush[f].due = <<>>
        /\ outbox \in [Message -> OutboxRow] /\ flush \in [Flusher -> FlushType]
        /\ UNCHANGED <<outbox, receiver, crashes>>
    BY OutboxTypes DEF OutboxInv, FlushesOK, ReadDue
  <1>2. PICK due \in Ordered(NextDue), t \in {"idle", "post"} :
          /\ flush' = [flush EXCEPT ![f] = [due |-> due, step |-> t]]
          /\ t = "idle" <=> due = <<>>
          /\ excused' = excused \cup {m \in NextDue : \E g \in Flusher \ {f} : Holds(g, m)}
    BY DEF ReadDue
  <1>3. NextDue \subseteq Message /\ \A m \in NextDue : outbox[m].status = "pending"
    BY DEF NextDue, Due
  <1>4. /\ due \in Seq(Message) /\ \A i \in DOMAIN due : due[i] \in NextDue
        /\ \A i, j \in DOMAIN due : due[i] = due[j] => i = j
    <2>1. Cardinality(NextDue) \in Nat
      BY <1>3, OutboxAssumption, FS_Subset, FS_CardinalityType
    <2> DEFINE n == Cardinality(NextDue)
    <2>2. /\ due \in [1..n -> NextDue] /\ \A i, j \in 1..n : i < j => due[i] < due[j]
      BY DEF Ordered
    <2> HIDE DEF n
    <2>3. n \in Nat
      BY <2>1 DEF n
    <2>4. \A i \in 1..n : due[i] \in NextDue /\ due[i] \in Nat
      BY <1>3, <2>2, OutboxAssumption
    <2>5. due \in Seq(Message) /\ DOMAIN due = 1..n
      BY <1>3, <2>2, <2>3
    <2>6. \A i, j \in 1..n : due[i] = due[j] => i = j
      BY <2>2, <2>3, <2>4
    <2> QED BY <2>4, <2>5, <2>6
  <1>5. /\ flush' \in [Flusher -> FlushType] /\ flush'[f].due = due /\ flush'[f].step = t
        /\ \A g \in Flusher : g # f => flush'[g] = flush[g]
    <2>1. [due |-> due, step |-> t] \in FlushType
      BY <1>4 DEF FlushType
    <2>2. flush'[f] = [due |-> due, step |-> t] /\ \A g \in Flusher : g # f => flush'[g] = flush[g]
      BY <1>1, <1>2
    <2>3. flush' \in [Flusher -> FlushType]
      BY <1>1, <1>2, <2>1
    <2> QED BY <2>2, <2>3
  <1>6. /\ \A m : Holds(f, m)' => m \in NextDue
        /\ \A m : ~Holds(f, m)
        /\ \A g \in Flusher : g # f => \A m : Holds(g, m)' <=> Holds(g, m)
    <2>1. \A m : Holds(f, m)' => m \in NextDue
      BY <1>4, <1>5 DEF Holds
    <2>2. \A m : ~Holds(f, m)
      BY <1>1 DEF Holds
    <2>3. \A g \in Flusher : g # f => \A m : Holds(g, m)' <=> Holds(g, m)
      BY <1>5 DEF Holds
    <2> QED BY <2>1, <2>2, <2>3
  <1>7. OutboxTypeOK'
    <2>1. excused' \subseteq Message
      BY <1>1, <1>2, <1>3, OutboxTypes
    <2>2. outbox' \in [Message -> OutboxRow] /\ receiver' \in [Message -> Nat] /\ crashes' \in 0..MaxCrashes
      BY <1>1, OutboxTypes
    <2> QED BY <1>5, <2>1, <2>2 DEF OutboxTypeOK, OutboxRow, FlushType
  <1>8. FlushesOK'
    <2> SUFFICES ASSUME NEW g \in Flusher
                 PROVE  /\ flush'[g].step \in {"idle", "flush"} <=> flush'[g].due = <<>>
                        /\ \A i, j \in DOMAIN flush'[g].due : flush'[g].due[i] = flush'[g].due[j] => i = j
      BY DEF FlushesOK
    <2>1. CASE g = f
      <3>1. flush'[g].step \in {"idle", "flush"} <=> flush'[g].due = <<>>
        BY <1>2, <1>5, <2>1
      <3> QED BY <1>4, <1>5, <2>1, <3>1
    <2>2. CASE g # f
      BY <1>1, <1>5, <2>2 DEF FlushesOK
    <2> QED BY <2>1, <2>2
  <1>9. UnsharedOK'
    <2> SUFFICES ASSUME NEW m \in Message, m \notin excused'
                 PROVE  /\ \A x, y \in Flusher : Holds(x, m)' /\ Holds(y, m)' => x = y
                        /\ \A x \in Flusher : Holds(x, m)' => outbox[m].status = "pending"
                        /\ receiver[m] > 0 =>
                              \/ outbox[m].status = "sent"
                              \/ \E x \in Flusher : flush'[x].step = "taken" /\ Head(flush'[x].due) = m
      BY <1>1 DEF UnsharedOK
    <2>1. /\ m \notin excused
          /\ \A x, y \in Flusher : Holds(x, m) /\ Holds(y, m) => x = y
          /\ \A x \in Flusher : Holds(x, m) => outbox[m].status = "pending"
      BY <1>2 DEF OutboxInv, UnsharedOK
    <2>2. Holds(f, m)' => \A g \in Flusher : g # f => ~Holds(g, m)
      BY <1>2, <1>6
    <2>3. \A x \in Flusher : Holds(x, m)' => outbox[m].status = "pending"
      BY <1>3, <1>6, <2>1
    <2>4. \A x, y \in Flusher : Holds(x, m)' /\ Holds(y, m)' => x = y
      BY <1>6, <2>1, <2>2
    <2>5. \A x \in Flusher : flush[x].step = "taken" /\ Head(flush[x].due) = m
                             => flush'[x].step = "taken" /\ Head(flush'[x].due) = m
      BY <1>1, <1>5
    <2>6. receiver[m] > 0 => \/ outbox[m].status = "sent"
                             \/ \E x \in Flusher : flush[x].step = "taken" /\ Head(flush[x].due) = m
      BY <2>1 DEF OutboxInv, UnsharedOK
    <2> QED BY <2>3, <2>4, <2>5, <2>6
  <1>10. TakenHasArrived'
    <2> SUFFICES ASSUME NEW g \in Flusher, flush'[g].step = "taken" PROVE receiver[Head(flush'[g].due)] > 0
      BY <1>1 DEF TakenHasArrived
    <2>1. g # f
      BY <1>5
    <2> QED BY <1>5, <2>1 DEF OutboxInv, TakenHasArrived
  <1>11. AttemptsLeft'
    <2> SUFFICES ASSUME NEW m \in Message
                 PROVE  /\ outbox[m].status \in {"none", "pending"} => outbox[m].attempts < MaxSends
                        /\ outbox[m].attempts + Cardinality(Holders(m)') <= MaxSends + Cardinality(Caller)
      BY <1>1 DEF AttemptsLeft
    <2>1. /\ outbox[m].status \in {"none", "pending"} => outbox[m].attempts < MaxSends
          /\ outbox[m].attempts + Cardinality(Holders(m)) <= MaxSends + Cardinality(Caller)
          /\ outbox[m].attempts \in Nat /\ IsFiniteSet(Holders(m)) /\ Cardinality(Holders(m)) \in Nat
          /\ MaxSends \in Nat /\ Cardinality(Caller) \in Nat /\ Cardinality(Flusher) = Cardinality(Caller) + 1
          /\ IsFiniteSet(Flusher)
      BY <1>1, HoldersFinite, OutboxAssumption DEF OutboxInv, AttemptsLeft, OutboxRow
    <2>2. CASE m \in NextDue
      <3>1. Holders(m)' \subseteq Flusher
        BY DEF Holders
      <3>2. Cardinality(Holders(m)') <= Cardinality(Caller) + 1 /\ Cardinality(Holders(m)') \in Nat
        BY <2>1, <3>1, FS_Subset, FS_CardinalityType
      <3>3. outbox[m].attempts < MaxSends
        BY <1>3, <2>1, <2>2
      <3> QED BY <2>1, <3>2, <3>3
    <2>3. CASE m \notin NextDue
      <3>1. Holders(m)' = Holders(m)
        BY <1>6, <2>3 DEF Holders
      <3> QED BY <2>1, <3>1
    <2> QED BY <2>2, <2>3
  <1>12. ReachesOnce' /\ SentHasArrived'
    BY <1>1, <1>2 DEF OutboxInv, ReachesOnce, SentHasArrived
  <1> QED BY <1>1, <1>7, <1>8, <1>9, <1>10, <1>11, <1>12 DEF OutboxInv


\* A message is enqueued, a flush begins or a retry falls due: no flush holds
\* more than before, and no message that has a row changes its status.
LEMMA OtherStep ==
    ASSUME OutboxInv, \/ \E f \in Caller, m \in Message : PublishEvent(f, m)
                      \/ \E f \in Flusher : StartFlush(f)
                      \/ \E m \in Message : Elapse(m)
    PROVE  OutboxInv' /\ \A m \in Message : outbox[m].status = "sent" => outbox'[m].status = "sent"
  <1>1. /\ OutboxTypeOK /\ outbox \in [Message -> OutboxRow] /\ flush \in [Flusher -> FlushType] /\ FlushesOK
        /\ UNCHANGED <<receiver, excused, crashes>> /\ MaxSends \in Nat /\ MaxSends > 0
    BY OutboxTypes, OutboxAssumption DEF OutboxInv, PublishEvent, StartFlush, Elapse
  <1> DEFINE RowsGrow == \A m \in Message :
                \/ outbox'[m].status = outbox[m].status /\ outbox'[m].attempts = outbox[m].attempts
                \/ outbox[m].status = "none" /\ outbox'[m].status = "pending" /\ outbox'[m].attempts = 0
             FlushesRest == \A g \in Flusher :
                /\ flush'[g].due = flush[g].due
                /\ flush'[g].step = flush[g].step \/ (flush[g].step = "idle" /\ flush'[g].step = "flush")
  <1>2. outbox' \in [Message -> OutboxRow] /\ RowsGrow
    <2>1. CASE outbox' = outbox
      BY <1>1, <2>1
    <2>2. ASSUME NEW m \in Message, outbox' = [outbox EXCEPT ![m] = Enqueued(m)]
          PROVE  outbox' \in [Message -> OutboxRow] /\ RowsGrow
      <3>1. [status |-> "pending", attempts |-> 0, due |-> TRUE] \in OutboxRow
        BY DEF OutboxRow
      <3>2. \/ Enqueued(m) = outbox[m]
            \/ outbox[m].status = "none" /\ Enqueued(m) = [status |-> "pending", attempts |-> 0, due |-> TRUE]
        BY DEF Enqueued, Empty
      <3> HIDE DEF Enqueued
      <3>3. outbox'[m] = Enqueued(m) /\ \A n \in Message : n # m => outbox'[n] = outbox[n]
        BY <1>1, <2>2
      <3>4. outbox' \in [Message -> OutboxRow]
        BY <1>1, <2>2, <3>1, <3>2
      <3>5. RowsGrow
        BY <3>2, <3>3
      <3> QED BY <3>4, <3>5
    <2>3. ASSUME NEW m \in Message, outbox' = [outbox EXCEPT ![m].due = TRUE]
          PROVE  outbox' \in [Message -> OutboxRow] /\ RowsGrow
      <3>1. outbox' = [outbox EXCEPT ![m] = [outbox[m] EXCEPT !.due = TRUE]]
        BY <1>1, <2>3
      <3>2. \A row \in OutboxRow : LET new == [row EXCEPT !.due = TRUE]
                                   IN new \in OutboxRow /\ new.status = row.status /\ new.attempts = row.attempts
        BY DEF OutboxRow
      <3> QED BY <1>1, <3>1, <3>2
    <2> QED BY <2>1, <2>2, <2>3 DEF PublishEvent, StartFlush, Elapse
  <1>3. flush' \in [Flusher -> FlushType] /\ FlushesRest
    <2>1. CASE flush' = flush
      BY <1>1, <2>1
    <2>2. ASSUME NEW f \in Flusher, flush[f].step = "idle", flush' = [flush EXCEPT ![f].step = "flush"]
          PROVE  flush' \in [Flusher -> FlushType] /\ FlushesRest
      <3>1. flush' = [flush EXCEPT ![f] = [flush[f] EXCEPT !.step = "flush"]]
        BY <1>1, <2>2
      <3>2. \A x \in FlushType : LET new == [x EXCEPT !.step = "flush"]
                                 IN new \in FlushType /\ new.due = x.due /\ new.step = "flush"
        BY DEF FlushType
      <3> QED BY <1>1, <2>2, <3>1, <3>2
    <2> QED BY <2>1, <2>2 DEF PublishEvent, StartFlush, Elapse, Flusher
  <1>4. \A m : Holders(m)' = Holders(m) /\ \A g \in Flusher : Holds(g, m)' <=> Holds(g, m)
    BY <1>3, SameHolders
  <1>5. OutboxTypeOK'
    BY <1>1, <1>2, <1>3 DEF OutboxTypeOK, OutboxRow, FlushType
  <1>6. FlushesOK'
    BY <1>1, <1>3 DEF FlushesOK
  <1>7. \A g \in Flusher : flush'[g].step = "taken" <=> flush[g].step = "taken"
    BY <1>3
  <1>8. UnsharedOK'
    <2> SUFFICES ASSUME NEW m \in Message, m \notin excused
                 PROVE  /\ \A x, y \in Flusher : Holds(x, m)' /\ Holds(y, m)' => x = y
                        /\ \A x \in Flusher : Holds(x, m)' => outbox'[m].status = "pending"
                        /\ receiver[m] > 0 =>
                              \/ outbox'[m].status = "sent"
                              \/ \E x \in Flusher : flush'[x].step = "taken" /\ Head(flush'[x].due) = m
      BY <1>1 DEF UnsharedOK
    <2>1. /\ \A x, y \in Flusher : Holds(x, m) /\ Holds(y, m) => x = y
          /\ \A x \in Flusher : Holds(x, m) => outbox[m].status = "pending"
          /\ receiver[m] > 0 => \/ outbox[m].status = "sent"
                                \/ \E x \in Flusher : flush[x].step = "taken" /\ Head(flush[x].due) = m
      BY DEF OutboxInv, UnsharedOK
    <2>2. outbox[m].status \in {"pending", "sent"} => outbox'[m].status = outbox[m].status
      BY <1>2
    <2> QED BY <1>3, <1>4, <1>7, <2>1, <2>2
  <1>9. TakenHasArrived'
    BY <1>1, <1>3, <1>7 DEF OutboxInv, TakenHasArrived
  <1>10. AttemptsLeft'
    <2> SUFFICES ASSUME NEW m \in Message
                 PROVE  /\ outbox'[m].status \in {"none", "pending"} => outbox'[m].attempts < MaxSends
                        /\ outbox'[m].attempts + Cardinality(Holders(m)) <= MaxSends + Cardinality(Caller)
      BY <1>4 DEF AttemptsLeft
    <2>1. /\ outbox[m].status \in {"none", "pending"} => outbox[m].attempts < MaxSends
          /\ outbox[m].attempts + Cardinality(Holders(m)) <= MaxSends + Cardinality(Caller)
          /\ outbox[m].attempts \in Nat /\ Cardinality(Holders(m)) \in Nat /\ Cardinality(Caller) \in Nat
      BY <1>1, HoldersFinite DEF OutboxInv, AttemptsLeft, OutboxRow
    <2> QED BY <1>1, <1>2, <2>1
  <1>11. ReachesOnce' /\ SentHasArrived'
    BY <1>1, <1>2 DEF OutboxInv, ReachesOnce, SentHasArrived
  <1> QED BY <1>1, <1>2, <1>5, <1>6, <1>8, <1>9, <1>10, <1>11 DEF OutboxInv

\* A restart ends every flush; what was being recorded is excused.
LEMMA RestartStep ==
    ASSUME OutboxInv, Restart
    PROVE  OutboxInv' /\ outbox' = outbox
  <1>1. /\ OutboxTypeOK /\ FlushesOK /\ UNCHANGED <<outbox, receiver>> /\ crashes' \in 0..MaxCrashes
        /\ flush' = [f \in Flusher |-> NoFlush]
        /\ excused' = excused \cup {Head(flush[f].due) : f \in {g \in Flusher : flush[g].step = "taken"}}
        /\ MaxCrashes \in Nat
    BY OutboxAssumption DEF OutboxInv, Restart, OutboxTypeOK
  <1>2. \A g \in Flusher : flush'[g].due = <<>> /\ flush'[g].step = "idle"
    BY <1>1 DEF NoFlush
  <1>3. \A m : Holders(m)' = {} /\ \A g \in Flusher : ~Holds(g, m)'
    BY <1>2 DEF Holders, Holds
  <1>4. OutboxTypeOK'
    <2>1. flush' \in [Flusher -> FlushType]
      BY <1>1 DEF NoFlush, FlushType
    <2>2. excused' \subseteq Message
      BY <1>1, AtAPost, OutboxTypes
    <2>3. outbox' \in [Message -> OutboxRow] /\ receiver' \in [Message -> Nat]
      BY <1>1, OutboxTypes
    <2> QED BY <1>1, <2>1, <2>2, <2>3 DEF OutboxTypeOK, OutboxRow, FlushType
  <1>5. FlushesOK' /\ TakenHasArrived'
    BY <1>2 DEF FlushesOK, TakenHasArrived
  <1>6. UnsharedOK'
    BY <1>1, <1>3 DEF OutboxInv, UnsharedOK
  <1>7. AttemptsLeft'
    <2> SUFFICES ASSUME NEW m \in Message
                 PROVE  /\ outbox[m].status \in {"none", "pending"} => outbox[m].attempts < MaxSends
                        /\ outbox[m].attempts + Cardinality({}) <= MaxSends + Cardinality(Caller)
      BY <1>1, <1>3 DEF AttemptsLeft
    <2>1. /\ outbox[m].status \in {"none", "pending"} => outbox[m].attempts < MaxSends
          /\ outbox[m].attempts + Cardinality(Holders(m)) <= MaxSends + Cardinality(Caller)
          /\ outbox[m].attempts \in Nat /\ Cardinality(Holders(m)) \in Nat /\ Cardinality(Caller) \in Nat
          /\ MaxSends \in Nat
      BY OutboxTypes, HoldersFinite, OutboxAssumption DEF OutboxInv, AttemptsLeft, OutboxRow
    <2>2. Cardinality({}) = 0
      BY FS_EmptySet
    <2> QED BY <2>1, <2>2
  <1>8. ReachesOnce' /\ SentHasArrived'
    BY <1>1 DEF OutboxInv, ReachesOnce, SentHasArrived
  <1> QED BY <1>1, <1>4, <1>5, <1>6, <1>7, <1>8 DEF OutboxInv

LEMMA OutboxStart == OutboxInit => OutboxInv
  <1> SUFFICES ASSUME OutboxInit PROVE OutboxInv
    OBVIOUS
  <1>1. /\ \A m \in Message : outbox[m] = [status |-> "none", attempts |-> 0, due |-> FALSE]
        /\ \A f \in Flusher : flush[f] = [due |-> <<>>, step |-> "idle"]
        /\ \A m \in Message : receiver[m] = 0
    BY DEF OutboxInit, Empty, NoFlush
  <1>2. OutboxTypeOK
    <2>1. [status |-> "none", attempts |-> 0, due |-> FALSE] \in OutboxRow
          /\ [due |-> <<>>, step |-> "idle"] \in FlushType
      BY DEF OutboxRow, FlushType
    <2>2. outbox \in [Message -> OutboxRow] /\ flush \in [Flusher -> FlushType]
      BY <2>1 DEF OutboxInit, Empty, NoFlush
    <2>3. receiver \in [Message -> Nat] /\ excused \subseteq Message /\ crashes \in 0..MaxCrashes
      BY OutboxAssumption DEF OutboxInit
    <2> QED BY <2>2, <2>3, OutboxTypes
  <1>3. FlushesOK /\ TakenHasArrived /\ ReachesOnce /\ SentHasArrived
    BY <1>1 DEF FlushesOK, TakenHasArrived, ReachesOnce, SentHasArrived
  <1>4. UnsharedOK
    BY <1>1 DEF UnsharedOK, Holds
  <1>5. AttemptsLeft
    <2>1. \A m : Holders(m) = {}
      BY <1>1 DEF Holders, Holds
    <2>2. Cardinality({}) = 0
      BY FS_EmptySet
    <2>3. MaxSends \in Nat \ {0} /\ Cardinality(Caller) \in Nat
      BY OutboxAssumption, FS_CardinalityType
    <2>4. \A m \in Message : outbox[m].attempts = 0
      BY <1>1
    <2> SUFFICES ASSUME NEW m \in Message
                 PROVE  outbox[m].attempts < MaxSends
                        /\ outbox[m].attempts + Cardinality(Holders(m)) <= MaxSends + Cardinality(Caller)
      BY DEF AttemptsLeft
    <2> QED BY <2>1, <2>2, <2>3, <2>4
  <1> QED BY <1>2, <1>3, <1>4, <1>5 DEF OutboxInv

LEMMA OutboxKept ==
    ASSUME OutboxInv, [OutboxNext]_outboxVars
    PROVE  /\ OutboxInv'
           /\ \A m \in Message : outbox[m].status = "sent" /\ outbox'[m].status # "sent" => m \in excused
  <1>1. CASE UNCHANGED outboxVars
    <2>1. OutboxTypeOK' /\ FlushesOK'
      BY <1>1 DEF outboxVars, OutboxInv, OutboxTypeOK, FlushesOK
    <2>2. \A m : Holders(m)' = Holders(m) /\ \A g \in Flusher : Holds(g, m)' <=> Holds(g, m)
      BY <1>1 DEF outboxVars, Holders, Holds
    <2>3. UnsharedOK' /\ TakenHasArrived' /\ AttemptsLeft'
      BY <1>1, <2>2 DEF outboxVars, OutboxInv, UnsharedOK, TakenHasArrived, AttemptsLeft
    <2>4. ReachesOnce' /\ SentHasArrived'
      BY <1>1 DEF outboxVars, OutboxInv, ReachesOnce, SentHasArrived
    <2> QED BY <1>1, <2>1, <2>3, <2>4 DEF OutboxInv, outboxVars
  <1>2. CASE \E f \in Flusher : Post(f) \/ ReadDue(f)
    BY <1>2, PostStep, ReadStep
  <1>3. CASE \E f \in Flusher : Answer(f) \/ AnswerLost(f)
    BY <1>3, AnswerStep
  <1>4. CASE \/ \E f \in Caller, m \in Message : PublishEvent(f, m)
             \/ \E f \in Flusher : StartFlush(f)
             \/ \E m \in Message : Elapse(m)
    BY <1>4, OtherStep
  <1>5. CASE Restart
    BY <1>5, RestartStep
  <1> QED BY <1>1, <1>2, <1>3, <1>4, <1>5 DEF OutboxNext

\* Whatever number of flushes and messages: a message reaches its target once
\* unless flushes held it together or an answer was lost, what is recorded as
\* sent has arrived, only an overlap undoes that record, and the attempts are
\* bounded.
THEOREM OutboxSafety == OutboxInit /\ [][OutboxNext]_outboxVars => NotifiedOnce
  <1>1. OutboxInv => OutboxTypeOK /\ ReachesOnce /\ SentHasArrived /\ AttemptsAreBounded
    <2> SUFFICES ASSUME OutboxInv, NEW m \in Message
                 PROVE  outbox[m].attempts <= MaxSends + Cardinality(Caller)
      BY DEF OutboxInv, AttemptsAreBounded
    <2>1. /\ outbox[m].attempts + Cardinality(Holders(m)) <= MaxSends + Cardinality(Caller)
          /\ outbox[m].attempts \in Nat /\ Cardinality(Holders(m)) \in Nat /\ Cardinality(Caller) \in Nat
          /\ MaxSends \in Nat
      BY OutboxTypes, HoldersFinite, OutboxAssumption DEF OutboxInv, AttemptsLeft, OutboxRow
    <2> QED BY <2>1
  <1>2. OutboxInv /\ [OutboxNext]_outboxVars =>
           /\ OutboxInv'
           /\ [\A m \in Message : outbox[m].status = "sent" /\ outbox'[m].status # "sent" => m \in excused]_outboxVars
    BY OutboxKept
  <1> QED BY <1>1, <1>2, OutboxStart, PTL DEF NotifiedOnce, SentIsUndoneOnlyByOverlap

----------------------------------------------------------------------------
(* The reading of checks. *)

\* A list names each check once.
Apart(list) ==
    \A j, k \in DOMAIN list : list[j].name = list[k].name \/ list[j].id = list[k].id => j = k

\* What is listed was started; what was seen or read is still listed under its
\* name, and has at most gone on since.
Known(i) == \A c \in seen[i] \cup Range(items[i]) : c.id <= started /\ c.name \in NamesOf(Listed(i))
Progressed(i) ==
    \A c \in seen[i] \cup Range(items[i]), l \in Listed(i) :
        c.id = l.id => c.state = "running" \/ c.state = l.state
ReadLater(i) ==
    \A c \in seen[i], d \in Range(items[i]) : c.id = d.id => c.state = "running" \/ c.state = d.state

\* An entry moves down its list only: a check that was seen and is still listed
\* is read, or on a page to come.
ReadOut(i) == reading = "classify" \/ (i = "check_runs" /\ reading = "statuses")
ReadById(i, c) == \E d \in Range(items[i]) : d.id = c.id
NotMissed(i) ==
    reading = i \/ ReadOut(i) =>
        \A c \in seen[i] : \A k \in DOMAIN listed[i] :
            listed[i][k].id = c.id => ReadById(i, c) \/ (reading = i /\ k > (page - 1) * PageSize)

\* As long as no check run was run again behind the reading, no name is read
\* twice, and what is read is what is listed under its name.
Undisturbed(i) == i = "check_runs" => ~rerun
EachOnce(i) ==
    Undisturbed(i) => \A j, k \in DOMAIN items[i] : items[i][j].name = items[i][k].name => j = k
SameRun ==
    reading = "check_runs" /\ ~rerun =>
        \A d \in Range(items["check_runs"]), l \in Listed("check_runs") : d.name = l.name => d.id = l.id
Complete(i) ==
    ReadOut(i) /\ Undisturbed(i) => NamesOf(seen[i]) \subseteq NamesOf(Range(items[i]))

ListOK(i) ==
    Len(listed[i]) <= started /\ Apart(listed[i]) /\ \A k \in DOMAIN listed[i] : listed[i][k].id <= started
InventoryOK(i) ==
    ListOK(i) /\ Known(i) /\ Progressed(i) /\ ReadLater(i) /\ NotMissed(i) /\ EachOnce(i) /\ Complete(i)

AtRest ==
    /\ verdict # "none yet" => reading = "none"
    /\ reading = "none" => items = NoItems /\ page = 1
    /\ page <= MaxPages

InventoryInv ==
    /\ InventoryTypeOK /\ AtRest /\ SameRun /\ GreenMeansGreen
    /\ \A i \in Inventories : InventoryOK(i)

LEMMA InventoryTypes ==
    ASSUME InventoryTypeOK
    PROVE  /\ listed \in [Inventories -> Seq(Check)] /\ started \in Nat /\ started <= MaxRuns
           /\ items \in [Inventories -> Seq(Check)] /\ page \in Nat /\ page >= 1
           /\ seen \in [Inventories -> SUBSET Check] /\ rerun \in BOOLEAN
           /\ {PageSize, MaxPages, MaxRuns, Timeout, Grace} \subseteq Nat
           /\ PageSize >= 1 /\ MaxPages >= 1 /\ MaxRuns >= 1
           /\ \A i \in Inventories : /\ Len(listed[i]) \in Nat /\ DOMAIN listed[i] = 1..Len(listed[i])
                                     /\ Len(items[i]) \in Nat /\ DOMAIN items[i] = 1..Len(items[i])
                                     /\ listed[i] \in Seq(Check) /\ items[i] \in Seq(Check)
                                     /\ \A k \in DOMAIN listed[i] : listed[i][k] \in Check
                                     /\ \A k \in DOMAIN items[i] : items[i][k] \in Check
  <1>1. /\ listed \in [Inventories -> Seq(Check)] /\ started \in Nat /\ started <= MaxRuns
        /\ items \in [Inventories -> Seq(Check)] /\ page \in Nat /\ page >= 1
        /\ seen \in [Inventories -> SUBSET Check] /\ rerun \in BOOLEAN
    <2>1. MaxRuns \in Nat /\ MaxPages \in Nat
      BY InventoryAssumption
    <2>2. started \in 0..MaxRuns /\ page \in 1..(MaxPages + 1)
      BY DEF InventoryTypeOK
    <2>3. started \in Nat /\ started <= MaxRuns /\ page \in Nat /\ page >= 1
      BY <2>1, <2>2
    <2>4. rerun \in BOOLEAN
      BY Zenon DEF InventoryTypeOK
    <2> QED BY <2>3, <2>4 DEF InventoryTypeOK
  <1>2. /\ {PageSize, MaxPages, MaxRuns, Timeout, Grace} \subseteq Nat
        /\ PageSize >= 1 /\ MaxPages >= 1 /\ MaxRuns >= 1
    BY InventoryAssumption
  <1>3. ASSUME NEW s \in Seq(Check)
        PROVE  Len(s) \in Nat /\ DOMAIN s = 1..Len(s) /\ \A k \in DOMAIN s : s[k] \in Check
    OBVIOUS
  <1>4. \A i \in Inventories : listed[i] \in Seq(Check) /\ items[i] \in Seq(Check)
    BY <1>1
  <1> QED BY <1>1, <1>2, <1>3, <1>4


LEMMA Joined ==
    ASSUME NEW S, NEW a \in Seq(S), NEW b \in Seq(S)
    PROVE  a \o b \in Seq(S) /\ Len(a \o b) = Len(a) + Len(b)
  OBVIOUS

LEMMA Removed ==
    ASSUME NEW list \in Seq(Check), NEW k \in DOMAIN list
    PROVE  /\ RemoveAt(list, k) \in Seq(Check) /\ Len(RemoveAt(list, k)) = Len(list) - 1
           /\ \A x \in 1..(Len(list) - 1) :
                 RemoveAt(list, k)[x] = IF x < k THEN list[x] ELSE list[x + 1]
  <1> DEFINE a == SubSeq(list, 1, k - 1)
             b == SubSeq(list, k + 1, Len(list))
  <1>1. Len(list) \in Nat /\ k \in 1..Len(list) /\ DOMAIN list = 1..Len(list)
    OBVIOUS
  <1>2. a \in Seq(Check) /\ Len(a) = k - 1 /\ \A x \in 1..(k - 1) : a[x] = list[x]
    BY <1>1
  <1>3. b \in Seq(Check) /\ Len(b) = Len(list) - k /\ \A x \in 1..(Len(list) - k) : b[x] = list[x + k]
    BY <1>1
  <1>4. RemoveAt(list, k) = a \o b
    BY DEF RemoveAt
  <1> HIDE DEF a, b
  <1>5. a \o b \in Seq(Check) /\ Len(a \o b) = Len(list) - 1
    <2>1. a \o b \in Seq(Check) /\ Len(a \o b) = Len(a) + Len(b)
      BY <1>2, <1>3, Joined
    <2>2. (k - 1) + (Len(list) - k) = Len(list) - 1
      BY ONLY <1>1
    <2> QED BY <1>2, <1>3, <2>1, <2>2
  <1>6. ASSUME NEW x \in 1..(Len(list) - 1)
        PROVE  (a \o b)[x] = IF x < k THEN list[x] ELSE list[x + 1]
    <2>1. CASE x < k
      BY <1>1, <1>2, <1>3, <2>1
    <2>2. CASE ~(x < k)
      <3>1. x - (k - 1) \in 1..(Len(list) - k) /\ (x - (k - 1)) + k = x + 1
        BY <1>1, <2>2
      <3>2. (a \o b)[x] = b[x - (k - 1)]
        BY <1>1, <1>2, <1>3, <2>2
      <3> QED BY <1>3, <2>2, <3>1, <3>2
    <2> QED BY <2>1, <2>2
  <1> QED BY <1>4, <1>5, <1>6

\* What a list keeps when a new entry is put first and the others follow, one
\* perhaps left out: entry m of the new list is entry old[m] of the old one.
Follows(list, nl, n, l, old) ==
    /\ n \in Nat /\ l \in Nat /\ l >= 1 /\ DOMAIN list = 1..n /\ DOMAIN nl = 1..l
    /\ old \in [2..l -> 1..n]
    /\ \A m \in 2..l : old[m] <= m /\ nl[m] = list[old[m]]
    /\ \A m \in 2..l : list[old[m]].name # nl[1].name /\ list[old[m]].id # nl[1].id
    /\ \A m, k \in 2..l : old[m] = old[k] => m = k
    /\ \A j \in 1..n : list[j].name = nl[1].name \/ \E m \in 2..l : old[m] = j
Keeps(list, nl) ==
    /\ Apart(nl)
    /\ \A m \in DOMAIN nl \ {1} : \E j \in DOMAIN list :
          j <= m /\ nl[m] = list[j] /\ list[j].name # nl[1].name
    /\ \A j \in DOMAIN list : list[j].name = nl[1].name \/ \E m \in DOMAIN nl : nl[m] = list[j]

LEMMA Reordered ==
    ASSUME NEW n, NEW l, NEW list, NEW nl, NEW old, Apart(list), Follows(list, nl, n, l, old)
    PROVE  Keeps(list, nl)
  <1>0. /\ n \in Nat /\ l \in Nat /\ l >= 1 /\ DOMAIN list = 1..n /\ DOMAIN nl = 1..l
        /\ old \in [2..l -> 1..n]
        /\ \A m \in 2..l : old[m] <= m /\ nl[m] = list[old[m]]
        /\ \A m \in 2..l : list[old[m]].name # nl[1].name /\ list[old[m]].id # nl[1].id
        /\ \A m, k \in 2..l : old[m] = old[k] => m = k
        /\ \A j \in 1..n : list[j].name = nl[1].name \/ \E m \in 2..l : old[m] = j
    BY DEF Follows
  <1>1. \A m \in 1..l : m = 1 \/ m \in 2..l
    BY <1>0
  <1>2. 1 \in 1..l /\ 2..l \subseteq 1..l
    BY <1>0
  <1>3. Apart(nl)
    <2> SUFFICES ASSUME NEW m \in 1..l, NEW k \in 1..l, nl[m].name = nl[k].name \/ nl[m].id = nl[k].id
                 PROVE  m = k
      BY <1>0 DEF Apart
    <2>0. ASSUME NEW i \in 2..l PROVE nl[i].name # nl[1].name /\ nl[i].id # nl[1].id
      <3>1. nl[i] = list[old[i]] /\ list[old[i]].name # nl[1].name /\ list[old[i]].id # nl[1].id
        BY <1>0
      <3> QED BY <3>1
    <2>1. CASE m = 1 \/ k = 1
      <3>1. m = 1 /\ k \in 2..l => FALSE
        BY <2>0
      <3>2. k = 1 /\ m \in 2..l => FALSE
        BY <2>0
      <3> QED BY <1>1, <2>1, <3>1, <3>2
    <2>2. CASE m \in 2..l /\ k \in 2..l
      <3>1. list[old[m]].name = list[old[k]].name \/ list[old[m]].id = list[old[k]].id
        BY <1>0, <2>2
      <3>2. old[m] = old[k]
        BY <1>0, <2>2, <3>1 DEF Apart
      <3> QED BY <1>0, <2>2, <3>2
    <2> QED BY <1>1, <2>1, <2>2
  <1>4. ASSUME NEW m \in DOMAIN nl \ {1}
        PROVE  \E j \in DOMAIN list : j <= m /\ nl[m] = list[j] /\ list[j].name # nl[1].name
    <2>1. m \in 2..l /\ old[m] \in DOMAIN list
      BY <1>0, <1>1
    <2> QED BY <1>0, <2>1
  <1>5. ASSUME NEW j \in DOMAIN list, list[j].name # nl[1].name PROVE \E m \in DOMAIN nl : nl[m] = list[j]
    <2>1. PICK m \in 2..l : old[m] = j
      BY <1>0, <1>5
    <2>2. nl[m] = list[j] /\ m \in DOMAIN nl
      BY <1>0, <1>2, <2>1
    <2> QED BY <2>2
  <1> QED BY <1>3, <1>4, <1>5 DEF Keeps

\* A check that is run again moves to the front; the others keep their order,
\* and none moves up.
LEMMA Renewed ==
    ASSUME NEW list \in Seq(Check), NEW new \in Check, Apart(list),
           \A k \in DOMAIN list : list[k].id # new.id, NEW nl,
           \/ /\ \A k \in DOMAIN list : list[k].name # new.name
              /\ nl = <<new>> \o list
           \/ \E k \in DOMAIN list : list[k].name = new.name /\ nl = <<new>> \o RemoveAt(list, k)
    PROVE  /\ nl \in Seq(Check) /\ Len(nl) \in 1..(Len(list) + 1) /\ nl[1] = new /\ Keeps(list, nl)
  <1> DEFINE n == Len(list)
  <1>1. n \in Nat /\ DOMAIN list = 1..n
    OBVIOUS
  <1>2. ASSUME NEW rest \in Seq(Check), nl = <<new>> \o rest
        PROVE  /\ nl \in Seq(Check) /\ Len(nl) = Len(rest) + 1 /\ nl[1] = new /\ DOMAIN nl = 1..(Len(rest) + 1)
               /\ \A m \in 2..(Len(rest) + 1) : nl[m] = rest[m - 1] /\ m - 1 \in 1..Len(rest)
               /\ Len(rest) \in Nat
    BY <1>2
  <1>3. CASE (\A k \in DOMAIN list : list[k].name # new.name) /\ nl = <<new>> \o list
    <2> DEFINE l == n + 1
               old == [m \in 2..l |-> m - 1]
    <2>1. /\ nl \in Seq(Check) /\ Len(nl) = l /\ nl[1] = new /\ DOMAIN nl = 1..l
          /\ \A m \in 2..l : nl[m] = list[m - 1] /\ m - 1 \in 1..n
      BY <1>2, <1>3
    <2> HIDE DEF n
    <2>2. l \in Nat /\ l >= 1 /\ l \in 1..(n + 1)
      BY <1>1
    <2>3. old \in [2..l -> 1..n] /\ \A m \in 2..l : old[m] = m - 1
      BY <2>1
    <2> HIDE DEF l, old
    <2>4. \A m \in 2..l : old[m] <= m /\ nl[m] = list[old[m]]
      BY <2>1, <2>2, <2>3
    <2>5. \A m, k \in 2..l : old[m] = old[k] => m = k
      BY <2>2, <2>3
    <2>6. ASSUME NEW j \in 1..n PROVE \E m \in 2..l : old[m] = j
      <3>1. j + 1 \in 2..l /\ (j + 1) - 1 = j
        BY <1>1 DEF l
      <3> QED BY <2>3, <3>1
    <2>7. \A m \in 2..l : list[old[m]].name # nl[1].name /\ list[old[m]].id # nl[1].id
      BY <1>1, <1>3, <2>1, <2>3
    <2>8. Apart(list)
      OBVIOUS
    <2>9. Keeps(list, nl)
      <3>1. Follows(list, nl, n, l, old)
        BY ONLY <1>1, <2>1, <2>2, <2>3, <2>4, <2>5, <2>6, <2>7 DEF Follows
      <3> QED BY <2>8, <3>1, Reordered
    <2> QED BY <2>1, <2>2, <2>9 DEF n
  <1>4. ASSUME NEW k \in DOMAIN list, list[k].name = new.name, nl = <<new>> \o RemoveAt(list, k)
        PROVE  /\ nl \in Seq(Check) /\ Len(nl) \in 1..(Len(list) + 1) /\ nl[1] = new /\ Keeps(list, nl)
    <2> DEFINE old == [m \in 2..n |-> IF m - 1 < k THEN m - 1 ELSE m]
    <2>1. /\ RemoveAt(list, k) \in Seq(Check) /\ Len(RemoveAt(list, k)) = n - 1
          /\ \A x \in 1..(n - 1) : RemoveAt(list, k)[x] = IF x < k THEN list[x] ELSE list[x + 1]
      BY Removed
    <2>2. /\ nl \in Seq(Check) /\ Len(nl) = (n - 1) + 1 /\ nl[1] = new /\ DOMAIN nl = 1..((n - 1) + 1)
          /\ \A m \in 2..((n - 1) + 1) : nl[m] = RemoveAt(list, k)[m - 1] /\ m - 1 \in 1..(n - 1)
      BY <1>2, <1>4, <2>1
    <2> HIDE DEF n
    <2>3. k \in 1..n /\ n >= 1 /\ (n - 1) + 1 = n /\ n \in 1..(n + 1)
      BY <1>1
    <2>4. ASSUME NEW m \in 2..n
          PROVE  old[m] \in 1..n /\ old[m] # k /\ old[m] <= m /\ nl[m] = list[old[m]]
      <3>1. nl[m] = IF m - 1 < k THEN list[m - 1] ELSE list[(m - 1) + 1]
        BY <2>1, <2>2, <2>3
      <3>2. old[m] = IF m - 1 < k THEN m - 1 ELSE m
        OBVIOUS
      <3>3. (m - 1) + 1 = m /\ m \in Nat
        BY <1>1
      <3> HIDE DEF old
      <3>4. old[m] \in 1..n /\ old[m] # k /\ old[m] <= m
        BY ONLY <1>1, <2>3, <3>2, <3>3, m \in 2..n
      <3>5. nl[m] = list[old[m]]
        BY <3>1, <3>2, <3>3
      <3> QED BY <3>4, <3>5
    <2>5. ASSUME NEW m \in 2..n, NEW j \in 2..n, old[m] = old[j] PROVE m = j
      BY <1>1, <2>3, <2>5
    <2>6. \A j \in 1..n : list[j].name = new.name => j = k
      BY <1>1, <1>4, <2>3 DEF Apart
    <2>7. ASSUME NEW j \in 1..n, j # k PROVE \E m \in 2..n : old[m] = j
      <3>1. CASE j < k
        <4>1. j + 1 \in 2..n /\ (j + 1) - 1 = j
          BY <1>1, <2>3, <3>1
        <4>2. old[j + 1] = j
          BY <3>1, <4>1
        <4> QED BY <4>1, <4>2
      <3>2. CASE ~(j < k)
        <4>1. j \in 2..n /\ ~(j - 1 < k)
          BY <1>1, <2>3, <2>7, <3>2
        <4>2. old[j] = j
          BY <4>1
        <4> QED BY <4>1, <4>2
      <3> QED BY <3>1, <3>2
    <2>8. old \in [2..n -> 1..n]
      BY <2>4
    <2> HIDE DEF old
    <2>9. \A m \in 2..n : list[old[m]].name # nl[1].name /\ list[old[m]].id # nl[1].id
      BY <1>1, <2>2, <2>4, <2>6
    <2>10. \A m \in 2..n : old[m] <= m /\ nl[m] = list[old[m]]
      BY <2>4
    <2>11. \A j \in 1..n : list[j].name = nl[1].name \/ \E m \in 2..n : old[m] = j
      BY <1>4, <2>2, <2>7
    <2>12. Apart(list) /\ DOMAIN nl = 1..n
      BY <2>2, <2>3
    <2>13. Keeps(list, nl)
      <3>1. Follows(list, nl, n, n, old)
        BY ONLY <1>1, <2>3, <2>5, <2>8, <2>9, <2>10, <2>11, <2>12 DEF Follows
      <3> QED BY <2>12, <3>1, Reordered
    <2>14. Len(nl) \in 1..(n + 1)
      BY <2>2, <2>3
    <2> QED BY <2>2, <2>13, <2>14 DEF n
  <1> QED BY <1>3, <1>4

\* As many different names as are listed are all the names that are listed.
LEMMA AllNamed ==
    ASSUME NEW list \in Seq(Check), NEW read \in Seq(Check), Len(read) = Len(list),
           \A j, k \in DOMAIN read : read[j].name = read[k].name => j = k,
           \A k \in DOMAIN read : \E j \in DOMAIN list : list[j].name = read[k].name
    PROVE  \A j \in DOMAIN list : \E k \in DOMAIN read : read[k].name = list[j].name
  <1> DEFINE n == Len(list)
             f == [k \in 1..n |-> CHOOSE j \in 1..n : list[j].name = read[k].name]
  <1>1. n \in Nat /\ DOMAIN list = 1..n /\ DOMAIN read = 1..n
    OBVIOUS
  <1> HIDE DEF n
  <1>2. ASSUME NEW k \in 1..n PROVE f[k] \in 1..n /\ list[f[k]].name = read[k].name
    <2>1. \E j \in 1..n : list[j].name = read[k].name
      BY <1>1
    <2> QED BY <2>1
  <1>3. f \in [1..n -> 1..n]
    BY <1>2
  <1> HIDE DEF f
  <1>4. \A j, k \in 1..n : f[j] = f[k] => j = k
    <2>1. \A j, k \in 1..n : read[j].name = read[k].name => j = k
      BY <1>1
    <2> QED BY <1>2, <2>1
  <1>5. f \in Injection(1..n, 1..n)
    BY <1>3, <1>4 DEF Injection, IsInjective
  <1>6. IsFiniteSet(1..n)
    BY <1>1, FS_Interval
  <1>7. f \in Surjection(1..n, 1..n)
    BY <1>5, <1>6, FS_Injection
  <1>8. \A j \in 1..n : \E k \in 1..n : f[k] = j
    BY <1>7 DEF Surjection
  <1>9. ASSUME NEW j \in 1..n PROVE \E k \in 1..n : read[k].name = list[j].name
    <2>1. PICK k \in 1..n : f[k] = j
      BY <1>8
    <2> QED BY <1>2, <2>1
  <1> QED BY <1>1, <1>9

LEMMA CheckTypes == \A c \in Check : c.id \in Nat
  <1>1. \A x \in 1..MaxRuns : x \in Nat
    BY InventoryAssumption
  <1>2. \A c \in Check : c.id \in 1..MaxRuns
    BY DEF Check
  <1> QED BY <1>1, <1>2

LEMMA NotLater ==
    ASSUME NEW a \in Nat, NEW s \in Nat, a <= s
    PROVE  ~(a > s)
  OBVIOUS

\* Whatever CI does to a list, every entry is of a run that has just begun or
\* of one that was listed no further down, under the same name, and has at
\* most gone on since; and no name goes.
Entry(i, nl, m) ==
    \/ /\ nl[m].id > started /\ nl[m].id <= started'
       /\ i = "check_runs" /\ reading = "check_runs" /\ ~rerun' =>
              \A d \in Range(items["check_runs"]) : d.name # nl[m].name
    \/ \E j \in DOMAIN listed[i] :
          /\ j <= m /\ nl[m].id = listed[i][j].id /\ nl[m].name = listed[i][j].name
          /\ listed[i][j].state = "running" \/ nl[m].state = listed[i][j].state

Moves(i, nl) ==
    /\ nl \in Seq(Check) /\ Len(nl) <= started' /\ Apart(nl)
    /\ \A m \in DOMAIN nl : Entry(i, nl, m)
    /\ \A j \in DOMAIN listed[i] : \E m \in DOMAIN nl : nl[m].name = listed[i][j].name

StartedGrows == started' \in started..(started + 1) /\ started' <= MaxRuns
ReadingStands == verdict = "none yet" /\ UNCHANGED <<reading, page, items, count, polls, verdict, seen>>
RerunStands == rerun' \in BOOLEAN /\ (rerun => rerun')

LEMMA ListMoves ==
    ASSUME InventoryInv, ReadingStands, NEW h \in Inventories, NEW nl, Changed(h, nl), Moves(h, nl),
           StartedGrows, RerunStands
    PROVE  InventoryInv'
  <1>0. /\ reading' = reading /\ page' = page /\ items' = items /\ count' = count /\ polls' = polls
        /\ verdict' = "none yet" /\ verdict = "none yet" /\ seen' = seen
    BY DEF ReadingStands
  <1>1. InventoryTypeOK /\ AtRest /\ SameRun
    BY DEF InventoryInv
  <1>2. \A i \in Inventories : /\ ListOK(i) /\ Known(i) /\ Progressed(i) /\ ReadLater(i)
                               /\ NotMissed(i) /\ EachOnce(i) /\ Complete(i)
    BY DEF InventoryInv, InventoryOK
  <1>3. /\ listed \in [Inventories -> Seq(Check)] /\ started \in Nat /\ started <= MaxRuns /\ MaxRuns \in Nat
        /\ page \in Nat /\ PageSize \in Nat
        /\ \A i \in Inventories : /\ DOMAIN listed[i] = 1..Len(listed[i]) /\ Len(listed[i]) \in Nat
                                  /\ \A k \in DOMAIN listed[i] : listed[i][k].id \in Nat
                                  /\ \A c \in seen[i] \cup Range(items[i]) : c.id \in Nat
    <2>1. \A i \in Inventories : seen[i] \subseteq Check /\ Range(items[i]) \subseteq Check
      BY <1>1, InventoryTypes DEF Range
    <2>2. ASSUME NEW i \in Inventories
          PROVE  /\ \A k \in DOMAIN listed[i] : listed[i][k].id \in Nat
                 /\ \A c \in seen[i] \cup Range(items[i]) : c.id \in Nat
      BY <1>1, <2>1, InventoryTypes, CheckTypes
    <2> QED BY <1>1, <2>2, InventoryTypes
  <1>4. /\ started' \in Nat /\ started <= started'
        /\ listed' = [listed EXCEPT ![h] = nl] /\ listed'[h] = nl
        /\ \A i \in Inventories : i # h => listed'[i] = listed[i]
    <2>1. started' \in Nat /\ started <= started'
      BY <1>3 DEF StartedGrows
    <2> QED BY <1>3, <2>1 DEF Changed
  <1>5. /\ nl \in Seq(Check) /\ Len(nl) <= started' /\ Apart(nl) /\ DOMAIN nl = 1..Len(nl) /\ Len(nl) \in Nat
        /\ \A m \in DOMAIN nl : nl[m].id \in Nat
    <2>1. nl \in Seq(Check) /\ Len(nl) <= started' /\ Apart(nl)
      BY DEF Moves
    <2>2. DOMAIN nl = 1..Len(nl) /\ Len(nl) \in Nat /\ \A m \in DOMAIN nl : nl[m] \in Check
      BY <2>1
    <2> QED BY <2>1, <2>2, CheckTypes
  <1>6. InventoryTypeOK'
    <2>1. listed' \in [Inventories -> Seq(Check)]
      BY <1>3, <1>4, <1>5
    <2>2. started' \in 0..MaxRuns
      BY <1>3, <1>4 DEF StartedGrows
    <2>3. rerun' \in BOOLEAN
      BY Zenon DEF RerunStands
    <2> QED BY <1>0, <1>1, <2>1, <2>2, <2>3 DEF InventoryTypeOK
  <1>7. AtRest' /\ GreenMeansGreen'
    BY <1>0, <1>1 DEF AtRest, GreenMeansGreen
  <1>8. ASSUME NEW i \in Inventories PROVE InventoryOK(i)'
    <2>1. CASE i # h
      <3>1. listed'[i] = listed[i]
        BY <1>4, <2>1
      <3>2. ListOK(i)'
        BY <1>2, <1>3, <1>4, <3>1 DEF ListOK
      <3>3. Known(i)'
        <4> SUFFICES ASSUME NEW c \in seen[i] \cup Range(items[i])
                     PROVE  c.id <= started' /\ c.name \in NamesOf(Listed(i))
          BY <1>0, <3>1 DEF Known, Listed
        <4>1. c.id <= started /\ c.name \in NamesOf(Listed(i)) /\ c.id \in Nat
          BY <1>2, <1>3 DEF Known
        <4> QED BY <1>3, <1>4, <4>1
      <3>4. /\ Progressed(i)' /\ ReadLater(i)' /\ NotMissed(i)'
        <4>1. Listed(i)' = Listed(i)
          BY <3>1 DEF Listed
        <4>2. Progressed(i)' /\ ReadLater(i)'
          <5>1. Progressed(i)'
            <6> SUFFICES ASSUME NEW c \in seen[i] \cup Range(items[i]), NEW l \in Listed(i), c.id = l.id
                         PROVE  c.state = "running" \/ c.state = l.state
              BY <1>0, <4>1 DEF Progressed
            <6> QED BY <1>2 DEF Progressed
          <5>2. ReadLater(i)'
            BY <1>0, <1>2 DEF ReadLater
          <5> QED BY <5>1, <5>2
        <4>3. NotMissed(i)'
          <5> SUFFICES ASSUME reading = i \/ ReadOut(i), NEW c \in seen[i], NEW m \in DOMAIN listed[i],
                              listed[i][m].id = c.id
                       PROVE  ReadById(i, c) \/ (reading = i /\ m > (page - 1) * PageSize)
            BY <1>0, <3>1 DEF NotMissed, ReadOut, ReadById
          <5> QED BY <1>2 DEF NotMissed
        <4> QED BY <4>2, <4>3
      <3>5. EachOnce(i)' /\ Complete(i)'
        BY <1>0, <1>2, <3>1 DEF EachOnce, Complete, Undisturbed, ReadOut, RerunStands
      <3> QED BY <3>2, <3>3, <3>4, <3>5 DEF InventoryOK
    <2>2. CASE i = h
      <3>1. listed'[i] = nl
        BY <1>4, <2>2
      <3>2. ListOK(i)'
        <4>1. ASSUME NEW m \in DOMAIN nl PROVE nl[m].id <= started'
          <5>1. Entry(h, nl, m)
            BY DEF Moves
          <5>2. CASE nl[m].id <= started'
            BY <5>2
          <5>3. CASE \E j \in DOMAIN listed[h] : nl[m].id = listed[h][j].id
            BY <1>2, <1>3, <1>4, <5>3 DEF ListOK
          <5> QED BY <5>1, <5>2, <5>3 DEF Entry
        <4> QED BY <1>5, <3>1, <4>1 DEF ListOK
      <3>3. Known(i)'
        <4> SUFFICES ASSUME NEW c \in seen[i] \cup Range(items[i])
                     PROVE  c.id <= started' /\ c.name \in NamesOf(Range(nl))
          BY <1>0, <3>1 DEF Known, Listed
        <4>1. c.id <= started /\ c.name \in NamesOf(Listed(i)) /\ c.id \in Nat
          BY <1>2, <1>3 DEF Known
        <4>2. PICK j \in DOMAIN listed[i] : c.name = listed[i][j].name
          BY <4>1 DEF NamesOf, Listed, Range
        <4>3. PICK m \in DOMAIN nl : nl[m].name = listed[i][j].name
          BY <2>2 DEF Moves
        <4>4. c.name \in NamesOf(Range(nl))
          BY <4>2, <4>3 DEF NamesOf, Range
        <4> QED BY <1>3, <1>4, <4>1, <4>4
      <3>4. Progressed(i)'
        <4> SUFFICES ASSUME NEW c \in seen[i] \cup Range(items[i]), NEW l \in Range(nl), c.id = l.id
                     PROVE  c.state = "running" \/ c.state = l.state
          BY <1>0, <3>1 DEF Progressed, Listed
        <4>5. PICK m \in DOMAIN nl : l = nl[m]
          BY DEF Range
        <4>1. c.id <= started /\ c.id \in Nat
          BY <1>2, <1>3 DEF Known
        <4>2. ~(nl[m].id > started)
          BY <1>3, <4>1, <4>5, NotLater
        <4>3. PICK j \in DOMAIN listed[i] :
                 /\ nl[m].id = listed[i][j].id
                 /\ listed[i][j].state = "running" \/ nl[m].state = listed[i][j].state
          BY <2>2, <4>2, <4>5 DEF Moves, Entry
        <4>4. c.state = "running" \/ c.state = listed[i][j].state
          BY <1>2, <4>3, <4>5 DEF Progressed, Listed, Range
        <4> QED BY <4>3, <4>4, <4>5
      <3>5. ReadLater(i)'
        BY <1>0, <1>2 DEF ReadLater
      <3>6. NotMissed(i)'
        <4> SUFFICES ASSUME reading = i \/ ReadOut(i), NEW c \in seen[i], NEW m \in DOMAIN nl, nl[m].id = c.id
                     PROVE  ReadById(i, c) \/ (reading = i /\ m > (page - 1) * PageSize)
          BY <1>0, <3>1 DEF NotMissed, ReadOut, ReadById
        <4>1. c.id <= started /\ c.id \in Nat
          BY <1>2, <1>3 DEF Known
        <4>2. ~(nl[m].id > started)
          BY <1>3, <4>1, NotLater
        <4>3. PICK j \in DOMAIN listed[i] : j <= m /\ nl[m].id = listed[i][j].id
          BY <2>2, <4>2 DEF Moves, Entry
        <4>4. ReadById(i, c) \/ (reading = i /\ j > (page - 1) * PageSize)
          BY <1>2, <4>3 DEF NotMissed
        <4>5. j \in Nat /\ m \in Nat /\ (page - 1) * PageSize \in Int
          BY <1>3, <1>5
        <4> QED BY <4>3, <4>4, <4>5
      <3>7. EachOnce(i)' /\ Complete(i)'
        BY <1>0, <1>2 DEF EachOnce, Complete, Undisturbed, ReadOut, RerunStands
      <3> QED BY <3>2, <3>3, <3>4, <3>5, <3>6, <3>7 DEF InventoryOK
    <2> QED BY <2>1, <2>2
  <1>9. SameRun'
    <2> SUFFICES ASSUME reading = "check_runs", ~rerun', NEW d \in Range(items["check_runs"]),
                        NEW l \in Range(listed'["check_runs"]), d.name = l.name
                 PROVE  d.id = l.id
      BY <1>0 DEF SameRun, Listed
    <2>1. \A x \in Listed("check_runs") : d.name = x.name => d.id = x.id
      BY <1>1, Zenon DEF SameRun, RerunStands
    <2>2. CASE h # "check_runs"
      BY <1>4, <2>1, <2>2 DEF Inventories, Listed
    <2>3. CASE h = "check_runs"
      <3>1. PICK m \in DOMAIN nl : l = nl[m]
        BY <1>4, <2>3 DEF Range
      <3>2. PICK j \in DOMAIN listed[h] : nl[m].id = listed[h][j].id /\ nl[m].name = listed[h][j].name
        BY <2>3, <3>1 DEF Moves, Entry
      <3>3. listed[h][j] \in Listed("check_runs")
        BY <2>3 DEF Listed, Range
      <3> QED BY <2>1, <3>1, <3>2, <3>3
    <2> QED BY <2>2, <2>3
  <1> QED BY <1>6, <1>7, <1>8, <1>9 DEF InventoryInv

\* A check starts, for the first time or again.
LEMMA StartRunStep ==
    ASSUME InventoryInv, NEW h \in Inventories, NEW name \in Names[h], StartRun(h, name)
    PROVE  InventoryInv'
  <1> DEFINE list == listed[h]
             new == [id |-> started + 1, name |-> name, state |-> "running"]
  <1>1. InventoryTypeOK /\ ListOK(h)
    BY DEF InventoryInv, InventoryOK
  <1>2. /\ list \in Seq(Check) /\ started \in Nat /\ started + 1 <= MaxRuns /\ MaxRuns \in Nat
        /\ DOMAIN list = 1..Len(list) /\ Len(list) \in Nat
        /\ \A k \in DOMAIN list : list[k].id \in Nat
    <2>1. \A c \in Check : c.id \in Nat
      BY CheckTypes
    <2>2. \A k \in DOMAIN list : list[k] \in Check
      BY <1>1, InventoryTypes
    <2>3. /\ list \in Seq(Check) /\ started \in Nat /\ MaxRuns \in Nat
          /\ DOMAIN list = 1..Len(list) /\ Len(list) \in Nat
      BY <1>1, InventoryTypes
    <2>4. started + 1 <= MaxRuns
      <3>1. started < MaxRuns
        BY DEF StartRun
      <3> QED BY <2>3, <3>1
    <2> QED BY <2>1, <2>2, <2>3, <2>4
  <1>3. new \in Check /\ new.id = started + 1 /\ new.name = name
    BY <1>2 DEF Check
  <1>10. rerun \in BOOLEAN
    BY <1>1, InventoryTypes
  <1>11. rerun' = (rerun \/ (h = reading /\ h = "check_runs" /\ name \in NamesOf(Range(items[h]))))
    BY DEF StartRun
  <1>4. /\ verdict = "none yet" /\ started' = started + 1
    BY DEF StartRun
  <1>5. PICK nl : /\ Changed(h, nl)
                  /\ \/ /\ \A k \in DOMAIN list : list[k].name # new.name
                        /\ nl = <<new>> \o list
                     \/ \E k \in DOMAIN list : list[k].name = new.name /\ nl = <<new>> \o RemoveAt(list, k)
    <2>1. CASE Earlier(h, name) = {} /\ Changed(h, <<new>> \o list)
      <3>1. \A k \in DOMAIN list : list[k].name # new.name
        BY <1>3, <2>1 DEF Earlier
      <3> QED BY <2>1, <3>1
    <2>2. CASE \E k \in Earlier(h, name) : Changed(h, <<new>> \o RemoveAt(list, k))
      <3>1. PICK k \in Earlier(h, name) : Changed(h, <<new>> \o RemoveAt(list, k))
        BY <2>2
      <3>2. k \in DOMAIN list /\ list[k].name = new.name
        BY <1>3 DEF Earlier
      <3> QED BY <3>1, <3>2
    <2> QED BY <2>1, <2>2 DEF StartRun
  <1> HIDE DEF new
  <1>6. /\ nl \in Seq(Check) /\ Len(nl) \in 1..(Len(list) + 1) /\ nl[1] = new /\ Keeps(list, nl)
    <2>1. Apart(list) /\ \A k \in DOMAIN list : list[k].id # new.id
      BY <1>1, <1>2, <1>3 DEF ListOK
    <2> QED BY <1>2, <1>3, <1>5, <2>1, Renewed
  <1>7. Moves(h, nl)
    <2>1. Len(nl) <= started'
      <3>1. Len(list) <= started
        BY <1>1 DEF ListOK
      <3>2. Len(nl) <= Len(list) + 1 /\ Len(nl) \in Nat /\ started' = started + 1
        <4>1. Len(nl) \in 1..(Len(list) + 1) /\ Len(list) \in Nat
          BY <1>2, <1>6
        <4>2. Len(nl) <= Len(list) + 1 /\ Len(nl) \in Nat
          BY ONLY <4>1
        <4> QED BY <1>4, <4>2
      <3> QED BY ONLY <1>2, <3>1, <3>2
    <2>2. ASSUME NEW m \in DOMAIN nl PROVE Entry(h, nl, m)
      <3>1. CASE m = 1
        <4>1. nl[m].id > started /\ nl[m].id <= started'
          <5>1. nl[m].id = started + 1 /\ started' = started + 1
            BY <1>3, <1>4, <1>6, <3>1
          <5> QED BY <1>2, <5>1
        <4>2. ASSUME h = "check_runs", reading = "check_runs", ~rerun', NEW d \in Range(items["check_runs"])
              PROVE  d.name # nl[m].name
          <5>1. name \notin NamesOf(Range(items["check_runs"]))
            BY <1>11, <4>2, Zenon
          <5>2. nl[m].name = name
            BY <1>3, <1>6, <3>1
          <5> QED BY <5>1, <5>2, Zenon DEF NamesOf
        <4> QED BY <4>1, <4>2 DEF Entry
      <3>2. CASE m # 1
        <4>1. PICK j \in DOMAIN list : j <= m /\ nl[m] = list[j]
          BY <1>6, <3>2 DEF Keeps
        <4> QED BY <4>1 DEF Entry
      <3> QED BY <3>1, <3>2
    <2>3. ASSUME NEW j \in DOMAIN list PROVE \E m \in DOMAIN nl : nl[m].name = list[j].name
      <3>1. 1 \in DOMAIN nl
        BY <1>2, <1>6
      <3> QED BY <1>6, <3>1 DEF Keeps
    <2> QED BY <1>6, <2>1, <2>2, <2>3 DEF Moves, Keeps
  <1>8. StartedGrows
    <2>1. started' = started + 1
      BY <1>4
    <2> QED BY <1>2, <2>1 DEF StartedGrows
  <1>12. ReadingStands
    BY DEF ReadingStands, StartRun
  <1>9. RerunStands
    BY <1>10, <1>11, Zenon DEF RerunStands
  <1> QED BY <1>4, <1>5, <1>7, <1>8, <1>9, <1>12, ListMoves

LEMMA StateSet == \A c \in Check, s \in {"success", "failure"} : [c EXCEPT !.state = s] \in Check
  BY DEF Check

\* A check ends.
LEMMA EndRunStep ==
    ASSUME InventoryInv, NEW h \in Inventories, NEW k \in DOMAIN listed[h], EndRun(h, k)
    PROVE  InventoryInv'
  <1> DEFINE list == listed[h]
  <1>1. InventoryTypeOK /\ ListOK(h)
    BY DEF InventoryInv, InventoryOK
  <1>2. /\ list \in Seq(Check) /\ started \in Nat /\ started <= MaxRuns
        /\ DOMAIN list = 1..Len(list) /\ Len(list) \in Nat
    BY <1>1, InventoryTypes
  <1>3. PICK s \in {"success", "failure"} : Changed(h, [list EXCEPT ![k].state = s])
    BY DEF EndRun
  <1> DEFINE nl == [list EXCEPT ![k].state = s]
  <1>4. /\ nl \in Seq(Check) /\ Len(nl) = Len(list) /\ DOMAIN nl = DOMAIN list
        /\ \A m \in DOMAIN list : /\ nl[m].id = list[m].id /\ nl[m].name = list[m].name
                                  /\ m # k => nl[m] = list[m]
    <2>1. [list[k] EXCEPT !.state = s] \in Check
      <3>1. list[k] \in Check
        BY <1>2
      <3> QED BY <3>1, StateSet
    <2>2. nl = [list EXCEPT ![k] = [list[k] EXCEPT !.state = s]]
      OBVIOUS
    <2>3. list[k] \in Check
      BY <1>2
    <2>4. /\ [list[k] EXCEPT !.state = s].id = list[k].id
          /\ [list[k] EXCEPT !.state = s].name = list[k].name
      BY <2>3 DEF Check
    <2>5. nl \in Seq(Check) /\ Len(nl) = Len(list) /\ DOMAIN nl = DOMAIN list
      BY <1>2, <2>1, <2>2
    <2> QED BY <2>2, <2>4, <2>5
  <1>5. list[k].state = "running" /\ verdict = "none yet" /\ started' = started
    BY DEF EndRun
  <1> HIDE DEF nl
  <1>6. Moves(h, nl)
    <2>1. Len(nl) <= started' /\ Apart(nl)
      BY <1>1, <1>4, <1>5 DEF ListOK, Apart
    <2>2. ASSUME NEW m \in DOMAIN nl PROVE Entry(h, nl, m)
      <3>1. m <= m
        BY <1>2, <1>4
      <3> QED BY <1>4, <1>5, <3>1 DEF Entry
    <2> QED BY <1>4, <2>1, <2>2 DEF Moves
  <1>7. StartedGrows
    <2>1. started' = started
      BY <1>5
    <2>2. started \in started..(started + 1)
      BY <1>2
    <2> QED BY <1>2, <2>1, <2>2 DEF StartedGrows
  <1>10. RerunStands
    BY <1>1, InventoryTypes DEF RerunStands, EndRun
  <1>8. ReadingStands
    BY DEF ReadingStands, EndRun
  <1>9. Changed(h, nl)
    BY <1>3 DEF nl
  <1> QED BY <1>5, <1>6, <1>7, <1>8, <1>9, <1>10, ListMoves

\* A poll begins with what is listed now.
LEMMA PollStep ==
    ASSUME InventoryInv, Poll
    PROVE  InventoryInv'
  <1>1. InventoryTypeOK /\ AtRest /\ \A i \in Inventories : ListOK(i)
    BY DEF InventoryInv, InventoryOK
  <1>2. /\ verdict = "none yet" /\ verdict' = verdict /\ reading' = "check_runs" /\ page' = page /\ page = 1
        /\ items' = items /\ items = NoItems /\ listed' = listed /\ started' = started
        /\ count' = count /\ polls' = polls
    BY <1>1 DEF Poll, AtRest
  <1>3. seen' = [i \in Inventories |-> Listed(i)]
    BY DEF Poll
  <1>9. rerun' \in BOOLEAN
    BY DEF Poll
  <1>4. ASSUME NEW i \in Inventories
        PROVE  /\ Range(items[i]) = {} /\ items[i] = <<>> /\ DOMAIN items[i] = {} /\ seen'[i] = Listed(i)
               /\ Listed(i) \subseteq Check
               /\ \A c, l \in Listed(i) : c.id = l.id => c = l
    <2>1. items[i] = <<>>
      BY <1>2 DEF NoItems
    <2>2. DOMAIN items[i] = {} /\ Range(items[i]) = {}
      BY <2>1 DEF Range
    <2>3. Listed(i) \subseteq Check
      BY <1>1, InventoryTypes DEF Listed, Range
    <2>4. ASSUME NEW c \in Listed(i), NEW l \in Listed(i), c.id = l.id PROVE c = l
      <3>1. PICK j \in DOMAIN listed[i] : c = listed[i][j]
        BY DEF Listed, Range
      <3>2. PICK k \in DOMAIN listed[i] : l = listed[i][k]
        BY DEF Listed, Range
      <3> QED BY <1>1, <2>4, <3>1, <3>2 DEF ListOK, Apart
    <2> QED BY <1>3, <2>1, <2>2, <2>3, <2>4
  <1>5. InventoryTypeOK'
    <2>1. seen' \in [Inventories -> SUBSET Check]
      BY <1>3, <1>4
    <2>2. 1 \in 1..(MaxPages + 1)
      BY InventoryAssumption
    <2>3. /\ listed' \in [Inventories -> Seq(Check)] /\ started' \in 0..MaxRuns
          /\ items' \in [Inventories -> Seq(Check)] /\ count' \in 0..MaxRuns /\ polls' \in 0..Timeout
      BY <1>1, <1>2 DEF InventoryTypeOK
    <2>4. reading' \in Inventories \cup {"classify", "none"} /\ page' \in 1..(MaxPages + 1)
      BY <1>2, <2>2 DEF Inventories
    <2>5. verdict' \in {"none yet", "success", "failure", "pending", "none", "error"}
      BY <1>2
    <2> QED BY <1>9, <2>1, <2>3, <2>4, <2>5, Zenon DEF InventoryTypeOK
  <1>6. AtRest' /\ GreenMeansGreen'
    BY <1>1, <1>2 DEF AtRest, GreenMeansGreen
  <1>7. SameRun'
    BY <1>2, <1>4 DEF SameRun, Inventories
  <1>8. ASSUME NEW i \in Inventories PROVE InventoryOK(i)'
    <2>1. ListOK(i)'
      BY <1>1, <1>2 DEF ListOK
    <2>2. Known(i)'
      <3> SUFFICES ASSUME NEW c \in Listed(i) PROVE c.id <= started /\ c.name \in NamesOf(Listed(i))
        BY <1>2, <1>4 DEF Known, Listed
      <3>1. PICK j \in DOMAIN listed[i] : c = listed[i][j]
        BY DEF Listed, Range
      <3>2. c.id <= started
        BY <1>1, <3>1 DEF ListOK
      <3> QED BY <3>2 DEF NamesOf
    <2>3. Progressed(i)'
      <3> SUFFICES ASSUME NEW c \in Listed(i), NEW l \in Listed(i), c.id = l.id
                   PROVE  c.state = "running" \/ c.state = l.state
        <4>1. seen'[i] \cup Range(items'[i]) = Listed(i)
          BY <1>2, <1>4
        <4>2. Range(listed'[i]) = Listed(i)
          BY <1>2 DEF Listed
        <4> QED BY <4>1, <4>2 DEF Progressed, Listed
      <3> QED BY <1>4
    <2>4. ReadLater(i)'
      BY <1>2, <1>4 DEF ReadLater
    <2>5. NotMissed(i)'
      <3> SUFFICES ASSUME i = "check_runs", NEW k \in DOMAIN listed[i] PROVE k > (page - 1) * PageSize
        BY <1>2 DEF NotMissed, ReadOut
      <3>1. k \in Nat /\ k >= 1 /\ PageSize \in Nat
        BY <1>1, InventoryTypes
      <3>2. (page - 1) * PageSize = 0
        <4>3. page = 1
          BY <1>2
        <4>1. page - 1 = 0
          BY ONLY <4>3
        <4>2. 0 * PageSize = 0
          BY ONLY <3>1
        <4> QED BY <4>1, <4>2
      <3> QED BY <3>1, <3>2
    <2>6. EachOnce(i)' /\ Complete(i)'
      BY <1>2, <1>4 DEF EachOnce, Complete, ReadOut
    <2> QED BY <2>1, <2>2, <2>3, <2>4, <2>5, <2>6 DEF InventoryOK
  <1> QED BY <1>5, <1>6, <1>7, <1>8 DEF InventoryInv

\* A reading that is refused, fails, or has been classified is forgotten.
Answers ==
    /\ verdict' \in {"none yet", "success", "failure", "pending", "none", "error"} /\ polls' \in 0..Timeout
    /\ listed' = listed /\ started' = started /\ seen' = seen /\ rerun' = rerun

LEMMA Forgotten ==
    ASSUME InventoryInv, Forget, GreenMeansGreen', Answers
    PROVE  InventoryInv'
  <1>1. InventoryTypeOK /\ AtRest
    BY DEF InventoryInv
  <1>2. /\ items' = NoItems /\ count' = 0 /\ page' = 1 /\ reading' = "none"
        /\ listed' = listed /\ started' = started /\ seen' = seen
    BY DEF Forget, Answers
  <1>3. \A i \in Inventories : items'[i] = <<>> /\ DOMAIN items'[i] = {} /\ Range(items'[i]) = {}
    <2>1. ASSUME NEW i \in Inventories PROVE items'[i] = <<>>
      BY <1>2 DEF NoItems
    <2>2. DOMAIN <<>> = {}
      OBVIOUS
    <2> QED BY <2>1, <2>2 DEF Range
  <1>4. InventoryTypeOK'
    <2>1. NoItems \in [Inventories -> Seq(Check)]
      BY DEF NoItems
    <2>2. 0 \in 0..MaxRuns /\ 1 \in 1..(MaxPages + 1)
      BY InventoryAssumption
    <2> QED BY <1>1, <1>2, <2>1, <2>2 DEF InventoryTypeOK, Answers
  <1>5. AtRest'
    <2>1. 1 <= MaxPages
      BY InventoryAssumption
    <2> QED BY <1>2, <2>1 DEF AtRest
  <1>6. SameRun'
    BY <1>2 DEF SameRun
  <1>7. ASSUME NEW i \in Inventories PROVE InventoryOK(i)'
    <2>1. ListOK(i) /\ Known(i) /\ Progressed(i)
      BY DEF InventoryInv, InventoryOK
    <2>2. ListOK(i)'
      BY <1>2, <2>1 DEF ListOK
    <2>3. Known(i)'
      BY <1>2, <1>3, <2>1 DEF Known, Listed
    <2>4. Progressed(i)'
      <3> SUFFICES ASSUME NEW c \in seen[i], NEW l \in Listed(i), c.id = l.id
                   PROVE  c.state = "running" \/ c.state = l.state
        BY <1>2, <1>3 DEF Progressed, Listed
      <3> QED BY <2>1 DEF Progressed
    <2>5. ReadLater(i)'
      BY <1>3 DEF ReadLater
    <2>6. NotMissed(i)' /\ Complete(i)'
      BY <1>2 DEF NotMissed, Complete, ReadOut, Inventories
    <2>7. EachOnce(i)'
      BY <1>3 DEF EachOnce
    <2> QED BY <2>2, <2>3, <2>4, <2>5, <2>6, <2>7 DEF InventoryOK
  <1> QED BY <1>4, <1>5, <1>6, <1>7 DEF InventoryInv

\* What is read is classified; a green verdict needs every check that was read
\* to be green.
LEMMA ConcludeStep ==
    ASSUME InventoryInv, Conclude
    PROVE  InventoryInv'
  <1> DEFINE all == Range(items["check_runs"]) \cup Range(items["statuses"])
  <1>1. InventoryTypeOK /\ AtRest /\ \A i \in Inventories : Progressed(i) /\ ReadLater(i) /\ NotMissed(i)
    BY DEF InventoryInv, InventoryOK
  <1>2. reading = "classify" /\ listed' = listed /\ started' = started /\ seen' = seen /\ rerun' = rerun
    BY DEF Conclude
  <1>3. \/ State(all) \in {"success", "failure"} /\ Give(State(all)) /\ polls' = polls
        \/ \E v \in {"none", "pending"} : Give(v) /\ polls' = polls
        \/ Forget /\ verdict' = verdict /\ ~GivesUp(State(all)) /\ polls' = polls + 1
    BY DEF Conclude
  <1>4. Forget
    BY <1>3 DEF Give
  <1>5. verdict = "none yet"
    BY <1>1, <1>2 DEF AtRest
  <1>6. verdict' \in {"none yet", "success", "failure", "pending", "none", "error"}
    BY <1>3, <1>5 DEF Give
  <1>7. polls' \in 0..Timeout
    <2>1. Timeout \in Nat
      BY InventoryAssumption
    <2>2. polls \in 0..Timeout
      BY <1>1 DEF InventoryTypeOK
    <2>3. CASE polls' = polls
      BY <2>2, <2>3
    <2>4. CASE ~GivesUp(State(all)) /\ polls' = polls + 1
      <3>1. ~(polls >= Timeout)
        BY <2>4 DEF GivesUp
      <3> QED BY <2>1, <2>2, <2>4, <3>1
    <2> QED BY <1>3, <2>3, <2>4
  <1>8. GreenMeansGreen'
    <2> SUFFICES ASSUME verdict' = "success", NEW i \in Inventories, NEW c \in seen[i] \cap Listed(i)
                 PROVE  c.state = "success"
      BY <1>2 DEF GreenMeansGreen, Listed
    <2>1. State(all) = "success"
      BY <1>3, <1>5 DEF Give
    <2>2. all \subseteq Check
      BY <1>1, InventoryTypes DEF Range, Inventories
    <2>3. \A d \in all : d.state \in {"running", "success", "failure"}
      BY <2>2 DEF Check
    <2>4. \A d \in all : d.state = "success"
      BY <2>1, <2>3 DEF State
    <2>5. PICK k \in DOMAIN listed[i] : c = listed[i][k]
      BY DEF Listed, Range
    <2>6. ReadById(i, c)
      BY <1>1, <1>2, <2>5 DEF NotMissed, ReadOut, Inventories
    <2>7. PICK d \in Range(items[i]) : d.id = c.id
      BY <2>6 DEF ReadById
    <2>8. d.state = "success"
      BY <2>4 DEF Inventories
    <2>9. d.state = "running" \/ d.state = c.state
      BY <1>1, <2>7 DEF Progressed
    <2> QED BY <2>8, <2>9
  <1>9. Answers
    BY <1>2, <1>6, <1>7 DEF Answers
  <1> QED BY <1>4, <1>8, <1>9, Forgotten

\* The page of a list that is read.
LEMMA MinOfTwo ==
    ASSUME NEW a \in Nat, NEW b \in Nat
    PROVE  Min({a, b}) \in {a, b} /\ Min({a, b}) <= a /\ Min({a, b}) <= b
  <1>1. \E x \in {a, b} : \A y \in {a, b} : x <= y
    BY (IF a <= b THEN a ELSE b) \in {a, b}
  <1>2. Min({a, b}) = CHOOSE x \in {a, b} : \A y \in {a, b} : x <= y
    BY DEF Min
  <1> QED BY <1>1, <1>2

LEMMA Part ==
    ASSUME NEW list \in Seq(Check), NEW lo \in Nat, NEW hi \in Nat, hi <= Len(list)
    PROVE  /\ SubSeq(list, lo + 1, hi) \in Seq(Check)
           /\ Len(SubSeq(list, lo + 1, hi)) = IF lo < hi THEN hi - lo ELSE 0
           /\ \A x \in 1..Len(SubSeq(list, lo + 1, hi)) : SubSeq(list, lo + 1, hi)[x] = list[lo + x]
  OBVIOUS

LEMMA Within ==
    ASSUME NEW lo \in Nat, NEW hi \in Nat, NEW n \in Nat, hi <= n, NEW size \in Nat,
           size = IF lo < hi THEN hi - lo ELSE 0
    PROVE  /\ \A x \in 1..size : lo + x \in 1..n
           /\ \A k \in 1..n : k > lo /\ k <= hi => k - lo \in 1..size /\ lo + (k - lo) = k
  OBVIOUS

LEMMA BatchFacts ==
    ASSUME NEW list \in Seq(Check), NEW p \in Nat, p >= 1
    PROVE  /\ Batch(list, p) \in Seq(Check) /\ (p - 1) * PageSize \in Nat
           /\ \A x \in DOMAIN Batch(list, p) :
                 /\ (p - 1) * PageSize + x \in DOMAIN list
                 /\ Batch(list, p)[x] = list[(p - 1) * PageSize + x]
           /\ \A k \in DOMAIN list :
                 k > (p - 1) * PageSize /\ k <= p * PageSize => \E x \in DOMAIN Batch(list, p) : Batch(list, p)[x] = list[k]
  <1> DEFINE lo == (p - 1) * PageSize
             top == p * PageSize
             hi == Min({top, Len(list)})
             b == SubSeq(list, lo + 1, hi)
  <1>1. PageSize \in Nat /\ Len(list) \in Nat /\ DOMAIN list = 1..Len(list)
    BY InventoryAssumption
  <1>2. lo \in Nat /\ top \in Nat
    BY <1>1
  <1>3. hi \in Nat /\ hi <= Len(list) /\ (hi = top \/ hi = Len(list))
    BY <1>1, <1>2, MinOfTwo
  <1>4. Batch(list, p) = b
    BY DEF Batch
  <1> HIDE DEF lo, top, hi
  <1>5. b \in Seq(Check) /\ Len(b) = (IF lo < hi THEN hi - lo ELSE 0) /\ \A x \in 1..Len(b) : b[x] = list[lo + x]
    BY <1>2, <1>3, Part
  <1> HIDE DEF b
  <1>6. DOMAIN b = 1..Len(b) /\ Len(b) \in Nat
    BY <1>5
  <1>10. /\ \A x \in 1..Len(b) : lo + x \in 1..Len(list)
         /\ \A k \in 1..Len(list) : k > lo /\ k <= hi => k - lo \in 1..Len(b) /\ lo + (k - lo) = k
    <2>1. Len(b) = IF lo < hi THEN hi - lo ELSE 0
      BY <1>5
    <2>2. lo \in Nat /\ hi \in Nat /\ Len(list) \in Nat /\ hi <= Len(list) /\ Len(b) \in Nat
      BY <1>1, <1>2, <1>3, <1>6
    <2> QED BY ONLY <2>1, <2>2, Within
  <1>7. ASSUME NEW x \in DOMAIN b PROVE lo + x \in DOMAIN list /\ b[x] = list[lo + x]
    <2>1. lo + x \in 1..Len(list)
      BY <1>6, <1>10
    <2> QED BY <1>1, <1>5, <1>6, <2>1
  <1>8. ASSUME NEW k \in DOMAIN list, k > lo, k <= top PROVE \E x \in DOMAIN b : b[x] = list[k]
    <2>1. k - lo \in 1..Len(b) /\ lo + (k - lo) = k
      <3>1. k \in 1..Len(list) /\ k <= hi
        <4>1. k \in 1..Len(list)
          BY <1>1
        <4>2. k \in Nat /\ k <= Len(list)
          BY ONLY <1>1, <4>1
        <4> QED BY <1>3, <1>8, <4>1, <4>2
      <3> QED BY <1>8, <1>10, <3>1
    <2> QED BY <1>5, <1>6, <2>1
  <1>9. lo = (p - 1) * PageSize /\ top = p * PageSize
    BY DEF lo, top
  <1> QED BY <1>2, <1>4, <1>5, <1>7, <1>8, <1>9

LEMMA JoinedParts ==
    ASSUME NEW S, NEW a \in Seq(S), NEW b \in Seq(S)
    PROVE  /\ Range(a \o b) = Range(a) \cup Range(b)
           /\ \A x \in DOMAIN a : (a \o b)[x] = a[x]
           /\ \A x \in DOMAIN b : (a \o b)[Len(a) + x] = b[x]
           /\ \A x \in DOMAIN (a \o b) : x \in DOMAIN a \/ (x - Len(a) \in DOMAIN b /\ Len(a) + (x - Len(a)) = x)
  <1>1. /\ Len(a) \in Nat /\ Len(b) \in Nat /\ DOMAIN a = 1..Len(a) /\ DOMAIN b = 1..Len(b)
        /\ DOMAIN (a \o b) = 1..(Len(a) + Len(b))
    OBVIOUS
  <1>2. \A x \in DOMAIN a : (a \o b)[x] = a[x] /\ x \in DOMAIN (a \o b)
    BY <1>1
  <1>3. \A x \in DOMAIN b : (a \o b)[Len(a) + x] = b[x] /\ Len(a) + x \in DOMAIN (a \o b)
    BY <1>1
  <1>4. \A x \in DOMAIN (a \o b) : x \in DOMAIN a \/ (x - Len(a) \in DOMAIN b /\ Len(a) + (x - Len(a)) = x)
    BY <1>1
  <1>5. ASSUME NEW c \in Range(a \o b) PROVE c \in Range(a) \cup Range(b)
    <2>1. PICK x \in DOMAIN (a \o b) : c = (a \o b)[x]
      BY DEF Range
    <2>2. CASE x \in DOMAIN a
      BY <1>2, <2>1, <2>2 DEF Range
    <2>3. CASE x - Len(a) \in DOMAIN b /\ Len(a) + (x - Len(a)) = x
      <3>1. (a \o b)[x] = b[x - Len(a)]
        BY <1>3, <2>3
      <3> QED BY <2>1, <2>3, <3>1 DEF Range
    <2> QED BY <1>4, <2>2, <2>3
  <1>6. Range(a) \subseteq Range(a \o b)
    BY <1>2 DEF Range
  <1>7. Range(b) \subseteq Range(a \o b)
    BY <1>3 DEF Range
  <1> QED BY <1>2, <1>3, <1>4, <1>5, <1>6, <1>7

LEMMA Neither ==
    ASSUME NEW a \in Nat, NEW b \in Nat, ~(a < b), ~(a > b)
    PROVE  a = b
  OBVIOUS

\* A page that is read and not refused.
PageRead(list, read) ==
    /\ ~Repeats(Batch(list, page))
    /\ ~(Len(read) > Len(list))
    /\ ~(Len(read) = Len(list) /\ page * PageSize < Len(list))
    /\ Len(read) < Len(list) => page # MaxPages

LEMMA ReadPageStep ==
    ASSUME InventoryInv, ReadPage, NEW i \in Inventories, reading = i
    PROVE  InventoryInv'
  <1> DEFINE list == listed[i]
             batch == Batch(list, page)
             read == items[i] \o batch
             more == Len(read) < Len(list)
  <1>1. InventoryTypeOK /\ AtRest /\ SameRun
    BY DEF InventoryInv
  <1>2. \A j \in Inventories : /\ ListOK(j) /\ Known(j) /\ Progressed(j) /\ ReadLater(j)
                               /\ NotMissed(j) /\ EachOnce(j) /\ Complete(j)
    BY DEF InventoryInv, InventoryOK
  <1>3. i \in Inventories /\ listed' = listed /\ started' = started /\ polls' = polls /\ seen' = seen
    BY DEF ReadPage
  <1>4. rerun' = rerun
    BY DEF ReadPage
  <1>5. verdict = "none yet"
    BY <1>1, <1>3 DEF AtRest, Inventories
  <1>6. CASE Give("error")
    <2>1. verdict' = "error" /\ Forget
      BY <1>6 DEF Give
    <2>2. GreenMeansGreen'
      BY <2>1 DEF GreenMeansGreen
    <2>3. polls' \in 0..Timeout
      BY <1>1, <1>3 DEF InventoryTypeOK
    <2>4. Answers
      BY <1>3, <1>4, <2>1, <2>3 DEF Answers
    <2> QED BY <2>1, <2>2, <2>4, Forgotten
  <1>7. CASE /\ PageRead(list, read) /\ count' = Len(list) /\ items' = [items EXCEPT ![i] = read]
             /\ page' = IF more THEN page + 1 ELSE 1
             /\ reading' = IF more THEN i ELSE IF i = "check_runs" THEN "statuses" ELSE "classify"
             /\ verdict' = verdict
    <2>1. /\ list \in Seq(Check) /\ items[i] \in Seq(Check) /\ page \in Nat /\ page >= 1
          /\ started \in Nat /\ started <= MaxRuns /\ PageSize \in Nat
          /\ DOMAIN list = 1..Len(list) /\ Len(list) \in Nat /\ MaxPages \in Nat
          /\ DOMAIN items[i] = 1..Len(items[i]) /\ Len(items[i]) \in Nat
      BY <1>1, <1>3, InventoryTypes
    <2>2. /\ batch \in Seq(Check) /\ (page - 1) * PageSize \in Nat
          /\ \A x \in DOMAIN batch :
                (page - 1) * PageSize + x \in DOMAIN list /\ batch[x] = list[(page - 1) * PageSize + x]
          /\ \A k \in DOMAIN list : k > (page - 1) * PageSize /\ k <= page * PageSize
                                     => \E x \in DOMAIN batch : batch[x] = list[k]
      BY <2>1, BatchFacts
    <2> HIDE DEF batch
    <2>3. /\ read \in Seq(Check) /\ DOMAIN read = 1..Len(read) /\ Len(read) \in Nat
          /\ Len(read) = Len(items[i]) + Len(batch) /\ DOMAIN batch = 1..Len(batch) /\ Len(batch) \in Nat
      BY <2>1, <2>2, Joined
    <2>4. /\ Range(read) = Range(items[i]) \cup Range(batch)
          /\ \A x \in DOMAIN items[i] : read[x] = items[i][x]
          /\ \A x \in DOMAIN batch : read[Len(items[i]) + x] = batch[x]
          /\ \A x \in DOMAIN read :
                x \in DOMAIN items[i] \/ (x - Len(items[i]) \in DOMAIN batch /\ Len(items[i]) + (x - Len(items[i])) = x)
      <3>1. items[i] \in Seq(Check) /\ batch \in Seq(Check)
        BY <2>1, <2>2
      <3> QED BY ONLY <3>1, JoinedParts
    <2>5. Range(batch) \subseteq Listed(i)
      <3> SUFFICES ASSUME NEW d \in Range(batch) PROVE d \in Listed(i)
        OBVIOUS
      <3>1. PICK x \in DOMAIN batch : d = batch[x]
        BY DEF Range
      <3> QED BY <2>2, <3>1 DEF Listed, Range
    <2>6. /\ ~Repeats(batch)
          /\ more => page' = page + 1 /\ page + 1 <= MaxPages /\ reading' = i
          /\ ~more => /\ Len(read) = Len(list) /\ page' = 1
                      /\ reading' = IF i = "check_runs" THEN "statuses" ELSE "classify"
                      /\ ~(page * PageSize < Len(list))
      <3>1. Repeats(Batch(list, page)) = Repeats(batch)
        BY DEF batch
      <3>2. ~Repeats(batch)
        BY <1>7, <3>1 DEF PageRead
      <3>3. ~(Len(read) > Len(list)) /\ ~(Len(read) = Len(list) /\ page * PageSize < Len(list))
        BY <1>7 DEF PageRead
      <3>4. ASSUME more PROVE page' = page + 1 /\ page + 1 <= MaxPages /\ reading' = i
        <4>1. page # MaxPages /\ page' = page + 1 /\ reading' = i
          BY <1>7, <3>4 DEF PageRead
        <4>2. page <= MaxPages
          BY <1>1 DEF AtRest
        <4>3. page + 1 <= MaxPages
          BY <2>1, <4>1, <4>2
        <4> QED BY <4>1, <4>3
      <3>5. ASSUME ~more PROVE Len(read) = Len(list)
        BY <2>1, <2>3, <3>3, <3>5, Neither
      <3> QED BY <1>7, <3>2, <3>3, <3>4, <3>5
    <2>7. /\ items' = [items EXCEPT ![i] = read] /\ count' = Len(list) /\ verdict' = verdict
          /\ items'[i] = read /\ \A j \in Inventories : j # i => items'[j] = items[j]
      BY <1>1, <1>3, <1>7, InventoryTypes
    <2> HIDE DEF read, more
    <2>8. InventoryTypeOK'
      <3>1. items' \in [Inventories -> Seq(Check)]
        BY <1>1, <1>3, <2>3, <2>7, InventoryTypes
      <3>2. Len(list) \in 0..MaxRuns
        <4>1. Len(list) <= started
          BY <1>2, <1>3 DEF ListOK
        <4>2. MaxRuns \in Nat
          BY InventoryAssumption
        <4> QED BY <2>1, <4>1, <4>2
      <3>3. page' \in 1..(MaxPages + 1)
        BY <2>1, <2>6
      <3>4. reading' \in Inventories \cup {"classify", "none"}
        BY <1>3, <2>6 DEF Inventories
      <3>5. /\ listed' \in [Inventories -> Seq(Check)] /\ started' \in 0..MaxRuns /\ polls' \in 0..Timeout
            /\ verdict' \in {"none yet", "success", "failure", "pending", "none", "error"}
            /\ seen' \in [Inventories -> SUBSET Check]
        BY <1>1, <1>3, <2>7 DEF InventoryTypeOK
      <3>6. rerun' \in BOOLEAN
        BY <1>1, <1>4, Zenon DEF InventoryTypeOK
      <3> QED BY <2>7, <3>1, <3>2, <3>3, <3>4, <3>5, <3>6 DEF InventoryTypeOK
    <2>9. AtRest' /\ GreenMeansGreen'
      <3>1. reading' # "none"
        BY <1>3, <2>6 DEF Inventories
      <3>2. page' <= MaxPages
        <4>1. 1 <= MaxPages
          BY InventoryAssumption
        <4> QED BY <2>6, <4>1
      <3> QED BY <1>5, <2>7, <3>1, <3>2 DEF AtRest, GreenMeansGreen
    <2>10. \A c, l \in Listed(i) : c.id = l.id \/ c.name = l.name => c = l
      <3> SUFFICES ASSUME NEW c \in Listed(i), NEW l \in Listed(i), c.id = l.id \/ c.name = l.name
                   PROVE  c = l
        OBVIOUS
      <3>1. PICK j \in DOMAIN list : c = list[j]
        BY DEF Listed, Range
      <3>2. PICK k \in DOMAIN list : l = list[k]
        BY DEF Listed, Range
      <3>3. Apart(list)
        BY <1>2, <1>3 DEF ListOK
      <3> QED BY <3>1, <3>2, <3>3 DEF Apart
    <2>11. SameRun'
      <3> SUFFICES ASSUME reading' = "check_runs", ~rerun', NEW d \in Range(items'["check_runs"]),
                          NEW l \in Listed("check_runs"), d.name = l.name
                   PROVE  d.id = l.id
        BY <1>3 DEF SameRun, Listed
      <3>1. i = "check_runs"
        BY <1>3, <2>6 DEF Inventories
      <3>2. d \in Range(items[i]) \/ d \in Range(batch)
        BY <2>4, <2>7, <3>1
      <3>3. CASE d \in Range(items[i])
        BY <1>1, <1>4, <3>1, <3>3 DEF SameRun
      <3>4. CASE d \in Range(batch)
        BY <2>5, <2>10, <3>1, <3>4
      <3> QED BY <3>2, <3>3, <3>4
    <2>12. ASSUME NEW j \in Inventories, j # i PROVE InventoryOK(j)'
      <3>1. items'[j] = items[j] /\ listed'[j] = listed[j] /\ seen'[j] = seen[j] /\ started' = started
        BY <1>3, <2>7, <2>12
      <3>2. ListOK(j)'
        BY <1>2, <3>1 DEF ListOK
      <3>3. Known(j)'
        BY <1>2, <3>1 DEF Known, Listed
      <3>4. Progressed(j)'
        <4> SUFFICES ASSUME NEW c \in seen[j] \cup Range(items[j]), NEW l \in Listed(j), c.id = l.id
                     PROVE  c.state = "running" \/ c.state = l.state
          BY <3>1 DEF Progressed, Listed
        <4> QED BY <1>2 DEF Progressed
      <3>5. ReadLater(j)'
        BY <1>2, <3>1 DEF ReadLater
      <3>6. ReadOut(j)' => ReadOut(j)
        BY <1>3, <2>6, <2>12 DEF ReadOut, Inventories
      <3>7. NotMissed(j)'
        <4> SUFFICES ASSUME reading' = j \/ ReadOut(j)', NEW c \in seen[j], NEW k \in DOMAIN listed[j],
                            listed[j][k].id = c.id
                     PROVE  ReadById(j, c) \/ (reading' = j /\ k > (page' - 1) * PageSize)
          BY <3>1 DEF NotMissed, ReadById
        <4>1. CASE ReadOut(j)'
          BY <1>2, <2>12, <3>6, <4>1 DEF NotMissed
        <4>2. CASE reading' = j
          <5>1. ~more /\ page' = 1
            BY <2>6, <2>12, <4>2
          <5>2. (page' - 1) * PageSize = 0
            <6>1. 0 * PageSize = 0 /\ page' - 1 = 0
              BY ONLY <2>1, <5>1
            <6> QED BY <6>1
          <5>3. k \in Nat /\ k >= 1
            BY <1>1, InventoryTypes
          <5>4. k > 0
            BY ONLY <5>3
          <5> QED BY <4>2, <5>2, <5>4
        <4> QED BY <4>1, <4>2
      <3>8. EachOnce(j)'
        BY <1>2, <1>4, <3>1 DEF EachOnce, Undisturbed
      <3>9. Complete(j)'
        BY <1>2, <1>4, <3>1, <3>6 DEF Complete, Undisturbed
      <3> QED BY <3>2, <3>3, <3>4, <3>5, <3>7, <3>8, <3>9 DEF InventoryOK
    <2>13. InventoryOK(i)'
      <3>1. items'[i] = read /\ listed'[i] = list /\ seen'[i] = seen[i] /\ started' = started
        BY <1>3, <2>7
      <3>2. Range(read) = Range(items[i]) \cup Range(batch) /\ Range(batch) \subseteq Listed(i)
        BY <2>4, <2>5
      <3>3. ListOK(i)'
        BY <1>2, <3>1 DEF ListOK
      <3>4. Known(i)'
        <4> SUFFICES ASSUME NEW c \in seen[i] \cup Range(items[i]) \cup Listed(i)
                     PROVE  c.id <= started /\ c.name \in NamesOf(Listed(i))
          BY <3>1, <3>2 DEF Known, Listed
        <4>1. CASE c \in seen[i] \cup Range(items[i])
          BY <1>2, <4>1 DEF Known
        <4>2. CASE c \in Listed(i)
          <5>1. PICK k \in DOMAIN list : c = list[k]
            BY <4>2 DEF Listed, Range
          <5>2. c.id <= started
            BY <1>2, <5>1 DEF ListOK
          <5> QED BY <4>2, <5>2 DEF NamesOf
        <4> QED BY <4>1, <4>2
      <3>5. Progressed(i)'
        <4> SUFFICES ASSUME NEW c \in seen[i] \cup Range(items[i]) \cup Listed(i), NEW l \in Listed(i), c.id = l.id
                     PROVE  c.state = "running" \/ c.state = l.state
          BY <3>1, <3>2 DEF Progressed, Listed
        <4>1. CASE c \in seen[i] \cup Range(items[i])
          BY <1>2, <4>1 DEF Progressed
        <4>2. CASE c \in Listed(i)
          BY <2>10, <4>2
        <4> QED BY <4>1, <4>2
      <3>6. ReadLater(i)'
        <4> SUFFICES ASSUME NEW c \in seen[i], NEW d \in Range(items[i]) \cup Range(batch), c.id = d.id
                     PROVE  c.state = "running" \/ c.state = d.state
          BY <3>1, <3>2 DEF ReadLater
        <4>1. CASE d \in Range(items[i])
          BY <1>2, <4>1 DEF ReadLater
        <4>2. CASE d \in Range(batch)
          BY <1>2, <3>2, <4>2 DEF Progressed
        <4> QED BY <4>1, <4>2
      <3>7. NotMissed(i)'
        <4> SUFFICES ASSUME NEW c \in seen[i], NEW k \in DOMAIN list, list[k].id = c.id
                     PROVE  \/ \E d \in Range(read) : d.id = c.id
                            \/ reading' = i /\ k > (page' - 1) * PageSize
          BY <3>1 DEF NotMissed, ReadById
        <4>1. ReadById(i, c) \/ k > (page - 1) * PageSize
          BY <1>2 DEF NotMissed
        <4>2. CASE ReadById(i, c)
          BY <3>2, <4>2 DEF ReadById
        <4>3. CASE k > (page - 1) * PageSize /\ k <= page * PageSize
          <5>1. PICK x \in DOMAIN batch : batch[x] = list[k]
            BY <2>2, <4>3
          <5>2. list[k] \in Range(batch)
            BY <5>1 DEF Range
          <5> QED BY <3>2, <5>2
        <4>4. CASE ~(k <= page * PageSize)
          <5> DEFINE top == page * PageSize
          <5>1. top \in Nat /\ k \in Nat /\ k <= Len(list) /\ Len(list) \in Nat
            BY <2>1
          <5>2. ~(k <= top)
            BY <4>4
          <5>3. ~more => ~(top < Len(list))
            BY <2>6
          <5> HIDE DEF top
          <5>4. k > top /\ top < Len(list)
            BY ONLY <5>1, <5>2
          <5>5. reading' = i /\ page' = page + 1
            BY <2>6, <5>3, <5>4
          <5>6. (page' - 1) = page
            BY ONLY <2>1, <5>5
          <5>7. (page' - 1) * PageSize = top
            BY <5>6 DEF top
          <5> QED BY <5>4, <5>5, <5>7
        <4> QED BY <4>1, <4>2, <4>3, <4>4
      <3>8. EachOnce(i)'
        <4> SUFFICES ASSUME Undisturbed(i), NEW x \in DOMAIN read, NEW y \in DOMAIN read, read[x].name = read[y].name
                     PROVE  x = y
          BY <1>4, <3>1 DEF EachOnce, Undisturbed
        <4>1. \A u, v \in DOMAIN items[i] : items[i][u].name = items[i][v].name => u = v
          BY <1>2 DEF EachOnce
        <4>2. \A u, v \in DOMAIN batch : batch[u].name = batch[v].name => u = v
          <5> SUFFICES ASSUME NEW u \in DOMAIN batch, NEW v \in DOMAIN batch, batch[u].name = batch[v].name
                       PROVE  u = v
            OBVIOUS
          <5>1. (page - 1) * PageSize + u = (page - 1) * PageSize + v
            <6>1. Apart(list)
              BY <1>2 DEF ListOK
            <6>2. /\ (page - 1) * PageSize + u \in DOMAIN list /\ batch[u] = list[(page - 1) * PageSize + u]
                  /\ (page - 1) * PageSize + v \in DOMAIN list /\ batch[v] = list[(page - 1) * PageSize + v]
              BY <2>2
            <6> QED BY <6>1, <6>2 DEF Apart
          <5>2. u \in Nat /\ v \in Nat
            BY <2>3
          <5> QED BY <2>2, <5>1, <5>2
        <4>3. \A c \in Range(batch), d \in Range(items[i]) : c.name # d.name
          <5> SUFFICES ASSUME NEW c \in Range(batch), NEW d \in Range(items[i]), c.name = d.name
                       PROVE  FALSE
            OBVIOUS
          <5>1. CASE i = "statuses"
            BY <2>6, <5>1 DEF Repeats, SameEntry
          <5>2. CASE i # "statuses"
            <6>1. i = "check_runs" /\ ~rerun
              BY <5>2 DEF Undisturbed, Inventories
            <6>2. c.id = d.id
              BY <1>1, <3>2, <6>1 DEF SameRun
            <6> QED BY <2>6, <5>2, <6>2 DEF Repeats, SameEntry
          <5> QED BY <5>1, <5>2
        <4> DEFINE n == Len(items[i])
        <4>4. ASSUME NEW u \in DOMAIN read, NEW v \in DOMAIN read, u \in DOMAIN items[i], v - n \in DOMAIN batch,
                     n + (v - n) = v
              PROVE  read[u].name # read[v].name
          <5>1. read[u] \in Range(items[i])
            BY <2>4, <4>4 DEF Range
          <5>2. read[v] = batch[v - n]
            BY <2>4, <4>4
          <5>3. read[v] \in Range(batch)
            BY <4>4, <5>2 DEF Range
          <5> QED BY <4>3, <5>1, <5>3
        <4>5. CASE x \in DOMAIN items[i] /\ y \in DOMAIN items[i]
          BY <2>4, <4>1, <4>5
        <4>6. CASE /\ x - n \in DOMAIN batch /\ n + (x - n) = x
                   /\ y - n \in DOMAIN batch /\ n + (y - n) = y
          <5>1. read[x] = batch[x - n] /\ read[y] = batch[y - n]
            BY <2>4, <4>6
          <5>2. x - n = y - n
            BY <4>2, <4>6, <5>1
          <5> QED BY <4>6, <5>2
        <4> QED BY <2>4, <4>4, <4>5, <4>6
      <3>9. Complete(i)'
        <4> SUFFICES ASSUME ReadOut(i)', Undisturbed(i)
                     PROVE  NamesOf(seen[i]) \subseteq NamesOf(Range(read))
          BY <1>4, <3>1 DEF Complete, Undisturbed
        <4>1. ~more
          BY <2>6 DEF ReadOut, Inventories
        <4>2. \A x, y \in DOMAIN read : read[x].name = read[y].name => x = y
          BY <1>4, <3>1, <3>8 DEF EachOnce, Undisturbed
        <4>3. \A x \in DOMAIN read : \E k \in DOMAIN list : list[k].name = read[x].name
          <5> SUFFICES ASSUME NEW x \in DOMAIN read PROVE \E k \in DOMAIN list : list[k].name = read[x].name
            OBVIOUS
          <5>1. read[x] \in Range(items[i]) \cup Listed(i)
            BY <3>2 DEF Range
          <5>2. read[x].name \in NamesOf(Listed(i))
            BY <1>2, <5>1 DEF Known, NamesOf
          <5> QED BY <5>2 DEF NamesOf, Listed, Range
        <4>4. Len(read) = Len(list)
          BY <2>6, <4>1
        <4>5. \A k \in DOMAIN list : \E x \in DOMAIN read : read[x].name = list[k].name
          BY <2>1, <2>3, <4>2, <4>3, <4>4, AllNamed
        <4> SUFFICES ASSUME NEW c \in seen[i] PROVE c.name \in NamesOf(Range(read))
          BY DEF NamesOf
        <4>6. c.name \in NamesOf(Listed(i))
          BY <1>2 DEF Known
        <4>7. PICK k \in DOMAIN list : c.name = list[k].name
          BY <4>6 DEF NamesOf, Listed, Range
        <4>8. PICK x \in DOMAIN read : read[x].name = list[k].name
          BY <4>5
        <4> QED BY <4>7, <4>8 DEF NamesOf, Range
      <3> QED BY <3>3, <3>4, <3>5, <3>6, <3>7, <3>8, <3>9 DEF InventoryOK
    <2>14. \A j \in Inventories : InventoryOK(j)'
      BY <2>12, <2>13
    <2> QED BY <2>8, <2>9, <2>11, <2>14 DEF InventoryInv
  <1>8. Give("error") \/ /\ PageRead(list, read) /\ count' = Len(list) /\ items' = [items EXCEPT ![i] = read]
                         /\ page' = IF more THEN page + 1 ELSE 1
                         /\ reading' = IF more THEN i ELSE IF i = "check_runs" THEN "statuses" ELSE "classify"
                         /\ verdict' = verdict
    BY DEF ReadPage, Inconsistent, PageRead
  <1> QED BY <1>6, <1>7, <1>8

LEMMA InventoryStart == InventoryInit => InventoryInv
  <1> SUFFICES ASSUME InventoryInit PROVE InventoryInv
    OBVIOUS
  <1>1. /\ listed = [i \in Inventories |-> <<>>] /\ started = 0 /\ reading = "none" /\ page = 1
        /\ items = [i \in Inventories |-> <<>>] /\ count = 0 /\ polls = 0 /\ verdict = "none yet"
        /\ seen = [i \in Inventories |-> {}]
    BY DEF InventoryInit
  <1>2. rerun = FALSE
    BY DEF InventoryInit
  <1>3. MaxRuns \in Nat /\ MaxPages \in Nat /\ MaxPages >= 1 /\ Timeout \in Nat
    BY InventoryAssumption
  <1>4. ASSUME NEW i \in Inventories
        PROVE  /\ listed[i] = <<>> /\ Len(listed[i]) = 0 /\ DOMAIN listed[i] = {} /\ Range(listed[i]) = {}
               /\ DOMAIN items[i] = {} /\ Range(items[i]) = {} /\ seen[i] = {}
    <2>1. listed[i] = <<>> /\ items[i] = <<>> /\ seen[i] = {}
      BY <1>1
    <2> QED BY <2>1 DEF Range
  <1>5. InventoryTypeOK
    <2>1. [i \in Inventories |-> <<>>] \in [Inventories -> Seq(Check)]
      OBVIOUS
    <2>2. 0 \in 0..MaxRuns /\ 1 \in 1..(MaxPages + 1) /\ 0 \in 0..Timeout
      BY <1>3
    <2>3. [i \in Inventories |-> {}] \in [Inventories -> SUBSET Check]
      OBVIOUS
    <2> QED BY <1>1, <1>2, <2>1, <2>2, <2>3 DEF InventoryTypeOK
  <1>6. AtRest /\ SameRun /\ GreenMeansGreen
    BY <1>1, <1>3 DEF AtRest, SameRun, GreenMeansGreen, NoItems
  <1>7. ASSUME NEW i \in Inventories PROVE InventoryOK(i)
    <2>1. ListOK(i)
      <3>1. Len(listed[i]) <= started
        <4>1. Len(listed[i]) = 0 /\ started = 0
          BY <1>1, <1>4
        <4> QED BY ONLY <4>1
      <3>2. \A j \in DOMAIN listed[i] : FALSE
        BY <1>4
      <3> QED BY <3>1, <3>2 DEF ListOK, Apart
    <2>2. Known(i) /\ Progressed(i) /\ ReadLater(i) /\ NotMissed(i) /\ EachOnce(i) /\ Complete(i)
      BY <1>1, <1>4 DEF Known, Progressed, ReadLater, NotMissed, EachOnce, Complete, ReadOut
    <2> QED BY <2>1, <2>2 DEF InventoryOK
  <1> QED BY <1>5, <1>6, <1>7 DEF InventoryInv

\* A request that fails ends the wait.
LEMMA RequestFailedStep ==
    ASSUME InventoryInv, RequestFailed
    PROVE  InventoryInv'
  <1>1. InventoryTypeOK
    BY DEF InventoryInv
  <1>2. Forget /\ verdict' = "error" /\ polls' = polls
    BY DEF RequestFailed, Give
  <1>3. polls' \in 0..Timeout
    BY <1>1, <1>2 DEF InventoryTypeOK
  <1>4. Answers
    BY <1>2, <1>3 DEF Answers, RequestFailed
  <1>5. GreenMeansGreen'
    BY <1>2 DEF GreenMeansGreen
  <1> QED BY <1>2, <1>4, <1>5, Forgotten

LEMMA InventoryStutter ==
    ASSUME InventoryInv, UNCHANGED inventoryVars
    PROVE  InventoryInv'
  <1>1. /\ listed' = listed /\ started' = started /\ reading' = reading /\ page' = page /\ items' = items
        /\ count' = count /\ polls' = polls /\ verdict' = verdict /\ seen' = seen
    BY DEF inventoryVars
  <1>2. rerun' = rerun
    BY DEF inventoryVars
  <1>3. InventoryTypeOK'
    BY <1>1, <1>2 DEF InventoryInv, InventoryTypeOK
  <1>4. AtRest' /\ GreenMeansGreen'
    BY <1>1 DEF InventoryInv, AtRest, GreenMeansGreen, Listed
  <1>5. SameRun'
    BY <1>1, <1>2 DEF InventoryInv, SameRun, Listed
  <1>6. ASSUME NEW i \in Inventories PROVE InventoryOK(i)'
    <2>1. /\ ListOK(i) /\ Known(i) /\ Progressed(i) /\ ReadLater(i) /\ NotMissed(i) /\ EachOnce(i) /\ Complete(i)
      BY DEF InventoryInv, InventoryOK
    <2>2. ListOK(i)' /\ Known(i)'
      BY <1>1, <2>1 DEF ListOK, Known, Listed
    <2>3. Progressed(i)' /\ ReadLater(i)'
      BY <1>1, <2>1 DEF Progressed, ReadLater, Listed
    <2>4. NotMissed(i)'
      BY <1>1, <2>1 DEF NotMissed, ReadOut, ReadById
    <2>5. EachOnce(i)' /\ Complete(i)'
      BY <1>1, <1>2, <2>1 DEF EachOnce, Complete, Undisturbed, ReadOut
    <2> QED BY <2>2, <2>3, <2>4, <2>5 DEF InventoryOK
  <1> QED BY <1>3, <1>4, <1>5, <1>6 DEF InventoryInv

\* A verdict on CI rests on everything that was listed while it was read: a
\* reading that is not refused holds every check listed when it began, under
\* its name, unless check runs were run again behind it; and "success" is
\* never given while a check listed at both ends of the last reading was red or
\* under way.  Whatever the sizes of pages and lists, and however CI and the
\* pages read alternate (_check_inventory, fetch_checks, wait_for_checks).
THEOREM InventorySafety == InventorySpec => []ChecksAreRead
  <1>1. InventoryInit => InventoryInv
    BY InventoryStart
  <1>2. InventoryInv /\ [InventoryNext]_inventoryVars => InventoryInv'
    <2> SUFFICES ASSUME InventoryInv, [InventoryNext]_inventoryVars PROVE InventoryInv'
      OBVIOUS
    <2>1. CASE Poll
      BY <2>1, PollStep
    <2>2. CASE ReadPage
      <3>1. reading \in Inventories
        BY <2>2 DEF ReadPage
      <3> QED BY <2>2, <3>1, ReadPageStep
    <2>3. CASE Conclude
      BY <2>3, ConcludeStep
    <2>4. CASE RequestFailed
      BY <2>4, RequestFailedStep
    <2>5. CASE \E i \in Inventories : \/ \E name \in Names[i] : StartRun(i, name)
                                      \/ \E k \in DOMAIN listed[i] : EndRun(i, k)
      BY <2>5, StartRunStep, EndRunStep
    <2>6. CASE UNCHANGED inventoryVars
      BY <2>6, InventoryStutter
    <2> QED BY <2>1, <2>2, <2>3, <2>4, <2>5, <2>6 DEF InventoryNext, Wait
  <1>3. InventoryInv => ChecksAreRead
    <2> SUFFICES ASSUME InventoryInv PROVE ChecksAreRead
      OBVIOUS
    <2>1. InventoryTypeOK /\ GreenMeansGreen /\ \A i \in Inventories : Complete(i)
      BY DEF InventoryInv, InventoryOK
    <2>2. ReadingIsComplete
      BY <2>1 DEF ReadingIsComplete, Complete, ReadOut, Undisturbed
    <2> QED BY <2>1, <2>2 DEF ChecksAreRead
  <1> QED BY <1>1, <1>2, <1>3, PTL DEF InventorySpec

----------------------------------------------------------------------------
(* The commits, branch and pull requests of a delivery. *)

\* What a commit is since it was made: others' work that its parent had it has,
\* a commit of the workflow changes something, and what is marked with an intent
\* was made over the pinned base.
CommitInv(c) ==
    /\ commits[c].parent \in 0..(c - 1)
    /\ pinned /\ commits[c].intent # <<>> => ~commits[c].others
    /\ commits[c].parent # 0 =>
          /\ commits[commits[c].parent].others => commits[c].others
          /\ ~commits[c].pushed => ~SameTree(commits[c], commits[commits[c].parent])

\* On a pinned base the workflow's commits hold none of what others did.
Own(c) == pinned => ~commits[c].others

\* How far a publication is.  What it builds on is the base or on the branch, and
\* so is, once the branch was moved, what it made.
PubInv ==
    /\ pub.step \notin {"idle", "read_head"} =>
          /\ pub.base # 0 /\ Own(pub.base)
          /\ IF pub.existed THEN pub.base \in History(branch) ELSE pub.base = 1
    /\ pub.step \notin {"idle", "read_head", "write_commit"} =>
          pub.commit # 0 /\ Own(pub.commit) /\ commits[pub.commit].value = wanted
    /\ pub.step \in {"find_pull", "create_pull", "recover_pull", "wait_checks"} =>
          pub.commit \in History(branch)
    /\ pub.step = "create_pull" /\ pinned => pulls = <<>>
    /\ pub.step = "wait_checks" => pub.pull # 0

ResultInv ==
    /\ result.state # "none" => pub = Idle
    /\ result.state = "none" => result.commit = 0 /\ result.ci = "none"
    /\ result.commit # 0 => Own(result.commit)
    /\ result.state = "published" =>
          /\ result.pull # 0 /\ result.commit # 0
          /\ result.commit \in History(branch) /\ commits[result.commit].value = wanted

\* Others push to a branch that is there, which keeps their commits.
BranchInv ==
    /\ Len(commits) # 0 /\ ~commits[1].others
    /\ \A c \in DOMAIN commits : commits[c].pushed => c \in History(branch)
    /\ expected # 0 => Own(expected)
    /\ OnePullPerDelivery

PublicationInv ==
    /\ PublicationTypeOK
    /\ \A c \in DOMAIN commits : CommitInv(c)
    /\ BranchInv /\ PubInv /\ ResultInv

\* f gives each of the first k commits its history.
Histories(f, cs, k) == f = [n \in 0..k |-> IF n = 0 THEN {} ELSE {n} \cup f[cs[n].parent]]
Parents(cs) == \A n \in 1..Len(cs) : cs[n].parent \in 0..(n - 1)

\* Every non-empty set of naturals has a least element.
LEMMA LeastNumber ==
    ASSUME NEW S, S \subseteq Nat, S # {}
    PROVE  \E low \in S : \A j \in S : low <= j
  <1>1. PICK low \in S : \A j \in S : ~(<<j, low>> \in OpToRel(<, Nat))
    BY WFMin, NatLessThanWellFounded
  <1>2. ASSUME NEW j \in S PROVE low <= j
    <2>1. ~(j < low)
      BY <1>1 DEF OpToRel
    <2> QED BY <2>1
  <1> QED BY <1>2

\* Parents come before their children, so that the recursion has a solution.
LEMMA HistoriesExist ==
    ASSUME NEW cs, Len(cs) \in Nat, Parents(cs), NEW k \in 0..Len(cs)
    PROVE  \E f : Histories(f, cs, k)
  <1> DEFINE Bad == {n \in 0..Len(cs) : ~\E f : Histories(f, cs, n)}
  <1>1. SUFFICES ASSUME Bad # {} PROVE FALSE
    OBVIOUS
  <1>2. PICK n \in Bad : \A j \in Bad : n <= j
    <2>1. Bad \subseteq Nat
      OBVIOUS
    <2> QED BY <1>1, <2>1, LeastNumber
  <1>3. n # 0
    <2>1. Histories([m \in 0..0 |-> {}], cs, 0)
      BY DEF Histories
    <2> QED BY <1>2, <2>1
  <1>4. n \in 1..Len(cs) /\ n - 1 \in 0..Len(cs) /\ n - 1 \notin Bad
    BY <1>2, <1>3
  <1>5. PICK f : Histories(f, cs, n - 1)
    BY <1>4
  <1> DEFINE g == [m \in 0..n |-> IF m = n THEN {n} \cup f[cs[n].parent] ELSE f[m]]
  <1>6. cs[n].parent \in 0..(n - 1)
    BY <1>4 DEF Parents
  <1>7. ASSUME NEW m \in 0..n PROVE g[m] = IF m = 0 THEN {} ELSE {m} \cup g[cs[m].parent]
    <2>1. CASE m = n
      <3>1. cs[m].parent \in 0..n /\ cs[m].parent # n
        BY <1>4, <1>6, <2>1
      <3> QED BY <1>3, <2>1, <3>1
    <2>2. CASE m = 0
      <3>1. f[m] = {}
        BY <1>4, <1>5, <2>2 DEF Histories
      <3> QED BY <1>3, <2>2, <3>1
    <2>3. CASE m \notin {0, n}
      <3>1. m \in 1..Len(cs) /\ m \in 0..(n - 1)
        BY <1>4, <2>3
      <3>2. cs[m].parent \in 0..(m - 1)
        BY <3>1 DEF Parents
      <3>3. cs[m].parent \in 0..n /\ cs[m].parent # n
        BY <1>4, <3>1, <3>2
      <3>4. f[m] = {m} \cup f[cs[m].parent]
        BY <1>5, <2>3, <3>1 DEF Histories
      <3> QED BY <2>3, <3>3, <3>4
    <2> QED BY <2>1, <2>2, <2>3
  <1>8. Histories(g, cs, n)
    BY <1>7 DEF Histories
  <1> QED BY <1>2, <1>8

HistoryIn(cs, c) == (CHOOSE f : Histories(f, cs, Len(cs)))[c]

\* A history, one commit after the other.
LEMMA HistoryStep ==
    ASSUME NEW cs, Len(cs) \in Nat, Parents(cs)
    PROVE  /\ HistoryIn(cs, 0) = {}
           /\ \A c \in 1..Len(cs) : HistoryIn(cs, c) = {c} \cup HistoryIn(cs, cs[c].parent)
  <1> DEFINE h == CHOOSE f : Histories(f, cs, Len(cs))
             K == 0..Len(cs)
  <1>1. Histories(h, cs, Len(cs))
    BY HistoriesExist
  <1>2. \A c : HistoryIn(cs, c) = h[c]
    BY DEF HistoryIn
  <1>3. h = [n \in K |-> IF n = 0 THEN {} ELSE {n} \cup h[cs[n].parent]]
    BY <1>1 DEF Histories
  <1>4. 0 \in K /\ \A c \in 1..Len(cs) : c \in K /\ c # 0
    OBVIOUS
  <1> HIDE DEF h, K
  <1>5. h[0] = {}
    BY <1>3, <1>4
  <1>6. ASSUME NEW c \in 1..Len(cs) PROVE h[c] = {c} \cup h[cs[c].parent]
    BY <1>3, <1>4
  <1> QED BY <1>2, <1>5, <1>6

\* Commits that are added change no history.
LEMMA HistoriesKept ==
    ASSUME NEW cs, NEW ds, Len(cs) \in Nat, Len(ds) \in Nat, Parents(cs), Parents(ds),
           Len(cs) <= Len(ds), \A c \in 1..Len(cs) : ds[c] = cs[c],
           NEW k \in 0..Len(cs)
    PROVE  HistoryIn(ds, k) = HistoryIn(cs, k)
  <1>1. /\ HistoryIn(cs, 0) = {}
        /\ \A n \in 1..Len(cs) : HistoryIn(cs, n) = {n} \cup HistoryIn(cs, cs[n].parent)
    BY HistoryStep
  <1>2. /\ HistoryIn(ds, 0) = {}
        /\ \A n \in 1..Len(ds) : HistoryIn(ds, n) = {n} \cup HistoryIn(ds, ds[n].parent)
    BY HistoryStep
  <1> DEFINE Bad == {n \in 0..Len(cs) : HistoryIn(ds, n) # HistoryIn(cs, n)}
  <1>3. SUFFICES ASSUME Bad # {} PROVE FALSE
    OBVIOUS
  <1>4. PICK n \in Bad : \A j \in Bad : n <= j
    <2>1. Bad \subseteq Nat
      OBVIOUS
    <2> QED BY <1>3, <2>1, LeastNumber
  <1>5. n \in 0..Len(cs) /\ HistoryIn(ds, n) # HistoryIn(cs, n)
    BY <1>4
  <1>6. \A m \in 0..Len(cs) : m < n => HistoryIn(ds, m) = HistoryIn(cs, m)
    BY <1>4
  <1> HIDE DEF Bad
  <1>7. n # 0
    BY <1>1, <1>2, <1>5
  <1>8. n \in 1..Len(cs) /\ n \in 1..Len(ds)
    BY <1>5, <1>7
  <1>9. cs[n].parent \in 0..(n - 1) /\ ds[n] = cs[n]
    BY <1>8 DEF Parents
  <1>10. cs[n].parent \in 0..Len(cs) /\ cs[n].parent < n
    BY <1>8, <1>9
  <1>11. HistoryIn(ds, cs[n].parent) = HistoryIn(cs, cs[n].parent)
    BY <1>6, <1>10
  <1> QED BY <1>1, <1>2, <1>5, <1>8, <1>9, <1>11

\* A history is of commits.
LEMMA HistoryWithin ==
    ASSUME NEW cs, Len(cs) \in Nat, Parents(cs), NEW k \in 0..Len(cs)
    PROVE  HistoryIn(cs, k) \subseteq 1..Len(cs)
  <1>1. /\ HistoryIn(cs, 0) = {}
        /\ \A n \in 1..Len(cs) : HistoryIn(cs, n) = {n} \cup HistoryIn(cs, cs[n].parent)
    BY HistoryStep
  <1> DEFINE Bad == {n \in 0..Len(cs) : ~(HistoryIn(cs, n) \subseteq 1..Len(cs))}
  <1>2. SUFFICES ASSUME Bad # {} PROVE FALSE
    OBVIOUS
  <1>3. PICK n \in Bad : \A j \in Bad : n <= j
    <2>1. Bad \subseteq Nat
      OBVIOUS
    <2> QED BY <1>2, <2>1, LeastNumber
  <1>4. n \in 0..Len(cs) /\ ~(HistoryIn(cs, n) \subseteq 1..Len(cs))
    BY <1>3
  <1>5. \A m \in 0..Len(cs) : m < n => HistoryIn(cs, m) \subseteq 1..Len(cs)
    BY <1>3
  <1> HIDE DEF Bad
  <1>6. n # 0
    BY <1>1, <1>4
  <1>7. n \in 1..Len(cs)
    BY <1>4, <1>6
  <1>8. cs[n].parent \in 0..(n - 1)
    BY <1>7 DEF Parents
  <1>9. cs[n].parent \in 0..Len(cs) /\ cs[n].parent < n
    BY <1>7, <1>8
  <1> QED BY <1>1, <1>4, <1>5, <1>7, <1>9

PubType == [step : Steps, base : 0..Len(commits), existed : BOOLEAN, recovering : BOOLEAN,
            commit : 0..Len(commits), pull : 0..Len(pulls)]
ResultType == [state : {"none", "error", "published"}, commit : 0..Len(commits),
               pull : 0..Len(pulls), ci : {"none", "success", "failure", "unknown"}]

LEMMA PublicationTypes ==
    ASSUME PublicationTypeOK
    PROVE  /\ commits \in Seq(Commit) /\ Len(commits) \in Nat /\ DOMAIN commits = 1..Len(commits)
           /\ \A c \in DOMAIN commits : commits[c] \in Commit
           /\ pulls \in Seq({"open", "closed"}) /\ Len(pulls) \in Nat /\ DOMAIN pulls = 1..Len(pulls)
           /\ branch \in 0..Len(commits) /\ expected \in 0..Len(commits)
           /\ pub \in PubType /\ result \in ResultType /\ pinned \in BOOLEAN /\ wanted \in Content
  BY DEF PublicationTypeOK, PubType, ResultType

LEMMA HistoryOfBranch ==
    /\ History(branch) = HistoryIn(commits, branch)
    /\ History(branch)' = HistoryIn(commits', branch')
  BY DEF History, HistoryIn, Histories

LEMMA HistoryOf ==
    ASSUME PublicationTypeOK, \A c \in DOMAIN commits : CommitInv(c)
    PROVE  /\ Parents(commits) /\ HistoryIn(commits, 0) = {}
           /\ \A c \in DOMAIN commits : HistoryIn(commits, c) = {c} \cup HistoryIn(commits, commits[c].parent)
  <1>1. Len(commits) \in Nat /\ DOMAIN commits = 1..Len(commits)
    BY PublicationTypes
  <1>2. Parents(commits)
    BY <1>1 DEF Parents, CommitInv
  <1> QED BY <1>1, <1>2, HistoryStep

LEMMA HistoryListed ==
    ASSUME PublicationTypeOK, \A c \in DOMAIN commits : CommitInv(c)
    PROVE  History(branch) \subseteq DOMAIN commits
  BY PublicationTypes, HistoryOf, HistoryOfBranch, HistoryWithin

\* What is on GitHub stays, and the branch only moves forward.
Grows ==
    /\ pinned' = pinned /\ History(branch) \subseteq History(branch)'
    /\ \A c \in DOMAIN commits : c \in DOMAIN commits' /\ commits'[c] = commits[c]

\* A commit of the workflow or of others is made.
Made(c, new) ==
    /\ commits' = Append(commits, new) /\ new \in Commit
    /\ new.parent \in DOMAIN commits
    /\ pinned /\ new.intent # <<>> => ~new.others
    /\ commits[new.parent].others => new.others
    /\ ~new.pushed => ~SameTree(new, commits[new.parent])
    /\ c = Len(commits) + 1

LEMMA CommitMade ==
    ASSUME PublicationTypeOK, \A c \in DOMAIN commits : CommitInv(c), pinned' = pinned,
           NEW new, NEW n, Made(n, new)
    PROVE  /\ commits' \in Seq(Commit) /\ Len(commits') = n /\ n \in Nat
           /\ DOMAIN commits' = DOMAIN commits \cup {n} /\ n \notin DOMAIN commits
           /\ commits'[n] = new /\ \A c \in DOMAIN commits : commits'[c] = commits[c]
           /\ \A c \in DOMAIN commits' : CommitInv(c)'
           /\ HistoryIn(commits', n) = {n} \cup HistoryIn(commits, new.parent)
           /\ \A c \in 0..Len(commits) : HistoryIn(commits', c) = HistoryIn(commits, c)
  <1>1. commits \in Seq(Commit) /\ Len(commits) \in Nat /\ DOMAIN commits = 1..Len(commits)
    BY PublicationTypes
  <1>2. new \in Commit /\ new.parent \in 1..Len(commits) /\ n = Len(commits) + 1 /\ commits' = Append(commits, new)
    BY <1>1 DEF Made
  <1>3. /\ commits' \in Seq(Commit) /\ Len(commits') = n /\ n \in Nat /\ DOMAIN commits' = 1..n
        /\ commits'[n] = new /\ \A c \in 1..Len(commits) : commits'[c] = commits[c]
    BY <1>1, <1>2
  <1>4. DOMAIN commits' = DOMAIN commits \cup {n} /\ n \notin DOMAIN commits
    BY <1>1, <1>2, <1>3
  <1>5. ASSUME NEW c \in DOMAIN commits PROVE CommitInv(c)'
    <2>1. CommitInv(c) /\ commits'[c] = commits[c] /\ commits[c].parent \in 0..(c - 1) /\ c \in 1..Len(commits)
      BY <1>1, <1>3 DEF CommitInv
    <2>2. commits[c].parent # 0 => commits'[commits[c].parent] = commits[commits[c].parent]
      BY <1>1, <1>3, <2>1
    <2> QED BY <2>1, <2>2 DEF CommitInv, SameTree
  <1>6. CommitInv(n)'
    <2>1. new.parent \in 0..(n - 1) /\ commits'[new.parent] = commits[new.parent]
      BY <1>1, <1>2, <1>3
    <2> QED BY <1>3, <2>1 DEF CommitInv, Made, SameTree
  <1>7. \A c \in DOMAIN commits' : CommitInv(c)'
    BY <1>4, <1>5, <1>6
  <1>8. Parents(commits)
    BY HistoryOf
  <1>9. Parents(commits')
    BY <1>3, <1>7 DEF Parents, CommitInv
  <1>10. Len(commits) <= Len(commits') /\ Len(commits') \in Nat /\ n \in 1..Len(commits')
    BY <1>1, <1>2, <1>3
  <1>11. \A c \in 0..Len(commits) : HistoryIn(commits', c) = HistoryIn(commits, c)
    BY <1>1, <1>3, <1>8, <1>9, <1>10, HistoriesKept
  <1>12. HistoryIn(commits', n) = {n} \cup HistoryIn(commits', new.parent)
    BY <1>3, <1>9, <1>10, HistoryStep
  <1>13. new.parent \in 0..Len(commits)
    BY <1>1, <1>2
  <1>14. HistoryIn(commits', n) = {n} \cup HistoryIn(commits, new.parent)
    BY <1>11, <1>12, <1>13
  <1>15. n \in Nat /\ Len(commits') = n /\ commits'[n] = new /\ commits' \in Seq(Commit)
    BY <1>3
  <1> QED BY <1>1, <1>3, <1>4, <1>7, <1>11, <1>14, <1>15

LEMMA PubKeeps ==
    ASSUME PublicationTypeOK, PubInv, Grows, pub' = pub, wanted' = wanted,
           pub.step = "create_pull" /\ pinned /\ pulls = <<>> => pulls' = pulls
    PROVE  PubInv'
  <1>1. pub.base \in 0..Len(commits) /\ pub.commit \in 0..Len(commits)
    BY PublicationTypes DEF PubType
  <1>2. /\ pub.base # 0 => pub.base \in DOMAIN commits
        /\ pub.commit # 0 => pub.commit \in DOMAIN commits
    BY <1>1, PublicationTypes
  <1>3. /\ pub.base # 0 => commits'[pub.base] = commits[pub.base]
        /\ pub.commit # 0 => commits'[pub.commit] = commits[pub.commit]
    BY <1>2 DEF Grows
  <1> QED BY <1>3 DEF PubInv, Own, Grows

LEMMA ResultKeeps ==
    ASSUME PublicationTypeOK, ResultInv, Grows, result' = result, wanted' = wanted,
           result.state # "none" => pub' = pub
    PROVE  ResultInv'
  <1>1. result.commit \in 0..Len(commits)
    BY PublicationTypes DEF ResultType
  <1>2. result.commit # 0 => result.commit \in DOMAIN commits
    BY <1>1, PublicationTypes
  <1>3. result.commit # 0 => commits'[result.commit] = commits[result.commit]
    BY <1>2 DEF Grows
  <1> QED BY <1>3 DEF ResultInv, Own, Grows, Idle

\* A step that leaves GitHub alone.
LEMMA QuietGrows ==
    ASSUME pinned' = pinned, commits' = commits, branch' = branch
    PROVE  Grows /\ \A c : History(c)' = History(c)
  <1>1. \A c : History(c)' = History(c)
    BY DEF History
  <1>2. History(branch)' = History(branch)
    BY HistoryOfBranch
  <1> QED BY <1>1, <1>2 DEF Grows

LEMMA CommitsKeep ==
    ASSUME PublicationInv, pinned' = pinned, commits' = commits, branch' = branch
    PROVE  /\ \A c \in DOMAIN commits' : CommitInv(c)'
           /\ expected' = expected /\ (pinned => Len(pulls') <= 1) => BranchInv'
           /\ result.commit = expected' /\ pulls' = pulls => BranchInv'
  <1>1. \A c \in DOMAIN commits' : CommitInv(c)'
    BY DEF PublicationInv, CommitInv
  <1>2. History(branch)' = History(branch)
    BY HistoryOfBranch
  <1>3. (expected' # 0 => Own(expected)') /\ (pinned => Len(pulls') <= 1) => BranchInv'
    BY <1>2 DEF PublicationInv, BranchInv, OnePullPerDelivery
  <1>4. expected' = expected => (expected' # 0 => Own(expected)')
    BY DEF PublicationInv, BranchInv, Own
  <1>5. result.commit = expected' => (expected' # 0 => Own(expected)')
    BY DEF PublicationInv, ResultInv, Own
  <1>6. pulls' = pulls => (pinned => Len(pulls') <= 1)
    BY DEF PublicationInv, BranchInv, OnePullPerDelivery
  <1> QED BY <1>1, <1>3, <1>4, <1>5, <1>6

\* A publication that fails leaves the recorded commit.
LEMMA FailKeeps ==
    ASSUME PublicationInv, Fail, pinned' = pinned, expected' = expected, commits' = commits
    PROVE  PubInv' /\ ResultInv'
  <1>1. pub'.step = "idle" /\ result'.state = "error" /\ result'.commit = expected /\ pub' = Idle
    BY DEF Fail, Idle, NoResult
  <1>2. PubInv'
    BY <1>1 DEF PubInv
  <1>3. result'.commit # 0 => (pinned' => ~commits'[result'.commit].others)
    BY <1>1 DEF PublicationInv, BranchInv, Own
  <1>4. ResultInv'
    BY <1>1, <1>3 DEF ResultInv, Own, Idle
  <1> QED BY <1>2, <1>4

----------------------------------------------------------------------------
\* The steps that leave GitHub alone.
Quiet == pinned' = pinned /\ commits' = commits /\ branch' = branch /\ expected' = expected

LEMMA QuietKeeps ==
    ASSUME PublicationInv, Quiet, pinned => Len(pulls') <= 1,
           PublicationTypeOK', PubInv', ResultInv'
    PROVE  PublicationInv'
  BY CommitsKeep DEF Quiet, PublicationInv

LEMMA TypesKeep ==
    ASSUME PublicationTypeOK, Quiet, pulls' = pulls, wanted' \in Content, rounds' \in 0..MaxRounds,
           foreign' = foreign, faults' \in 0..MaxFaults, pub' \in PubType, result' \in ResultType
    PROVE  PublicationTypeOK'
  BY DEF PublicationTypeOK, Quiet, PubType, ResultType

\* The local variables of a publication.
Locals(s, b, e, r, c, p) ==
    [step |-> s, base |-> b, existed |-> e, recovering |-> r, commit |-> c, pull |-> p]

LEMMA LocalsAre ==
    ASSUME PublicationTypeOK
    PROVE  /\ pub = Locals(pub.step, pub.base, pub.existed, pub.recovering, pub.commit, pub.pull)
           /\ pub.step \in Steps /\ pub.base \in 0..Len(commits) /\ pub.existed \in BOOLEAN
           /\ pub.recovering \in BOOLEAN /\ pub.commit \in 0..Len(commits) /\ pub.pull \in 0..Len(pulls)
  BY DEF PublicationTypeOK, Locals

LEMMA LocalsTyped ==
    ASSUME NEW s \in Steps, NEW b \in 0..Len(commits), NEW e \in BOOLEAN, NEW r \in BOOLEAN,
           NEW c \in 0..Len(commits), NEW p \in 0..Len(pulls)
    PROVE  Locals(s, b, e, r, c, p) \in PubType
  BY DEF Locals, PubType

LEMMA FailTyped ==
    ASSUME PublicationTypeOK, Fail
    PROVE  pub' \in PubType /\ result' \in ResultType
  <1>1. Len(commits) \in Nat /\ Len(pulls) \in Nat /\ expected \in 0..Len(commits)
    BY PublicationTypes
  <1>2. pub' \in PubType
    BY <1>1 DEF Fail, Idle, PubType, Steps
  <1>3. result' = [state |-> "error", commit |-> expected, pull |-> 0, ci |-> "none"]
    BY DEF Fail, NoResult
  <1>4. result' \in ResultType
    BY <1>1, <1>3 DEF ResultType
  <1> QED BY <1>2, <1>4

LEMMA BoundsTyped ==
    ASSUME PublicationTypeOK
    PROVE  /\ faults \in 0..MaxFaults /\ rounds \in 0..MaxRounds /\ wanted \in Content
           /\ Fault => faults' \in 0..MaxFaults
  BY PublicationAssumption DEF PublicationTypeOK, Fault

\* What fails leaves everything in order.
LEMMA Fails ==
    ASSUME PublicationInv, Quiet, Fail, pulls' = pulls, wanted' = wanted, rounds' = rounds,
           foreign' = foreign, faults' \in 0..MaxFaults
    PROVE  PublicationInv'
  <1>1. PublicationTypeOK'
    BY FailTyped, TypesKeep, BoundsTyped DEF PublicationInv
  <1>2. PubInv' /\ ResultInv'
    BY FailKeeps DEF Quiet
  <1> QED BY <1>1, <1>2, QuietKeeps DEF PublicationInv, BranchInv, OnePullPerDelivery

LEMMA RequestFailsKeeps == ASSUME PublicationInv, RequestFails PROVE PublicationInv'
  BY Fails, BoundsTyped DEF RequestFails, github, Quiet, PublicationInv

LEMMA StartPublicationKeeps == ASSUME PublicationInv, StartPublication PROVE PublicationInv'
  <1>1. /\ Quiet /\ pulls' = pulls /\ result' = result /\ result.state = "none" /\ wanted' = wanted
        /\ faults' = faults /\ rounds' = rounds /\ foreign' = foreign
        /\ pub' = Locals("read_head", 0, FALSE, FALSE, 0, 0) /\ PublicationTypeOK
    BY DEF StartPublication, github, bounds, Quiet, Idle, Locals, PublicationInv
  <1>2. pub' \in PubType /\ result' \in ResultType /\ pub'.step = "read_head"
    <2>1. Len(commits) \in Nat /\ Len(pulls) \in Nat /\ "read_head" \in Steps
      BY <1>1, PublicationTypes DEF Steps
    <2>2. 0 \in 0..Len(commits) /\ 0 \in 0..Len(pulls)
      BY <2>1
    <2>3. pub' \in PubType
      BY <1>1, <2>1, <2>2, LocalsTyped
    <2> QED BY <1>1, <2>3, PublicationTypes DEF Locals
  <1>3. PublicationTypeOK'
    BY <1>1, <1>2, TypesKeep, BoundsTyped
  <1>4. PubInv'
    BY <1>2 DEF PubInv
  <1>5. ResultInv'
    BY <1>1 DEF ResultInv, PublicationInv
  <1> QED BY <1>1, <1>3, <1>4, <1>5, QuietKeeps DEF PublicationInv, BranchInv, OnePullPerDelivery

LEMMA ReadHeadKeeps == ASSUME PublicationInv, ReadHead PROVE PublicationInv'
  <1>1. /\ Quiet /\ pulls' = pulls /\ wanted' = wanted /\ PublicationTypeOK
        /\ faults' = faults /\ rounds' = rounds /\ foreign' = foreign
    BY DEF ReadHead, github, bounds, Quiet, PublicationInv
  <1>2. CASE HeadMismatch
    <2>1. Fail
      BY <1>2 DEF ReadHead
    <2> QED BY <1>1, <2>1, Fails, BoundsTyped
  <1>3. CASE ~HeadMismatch
    <2>0. /\ branch \in 0..Len(commits) /\ Len(commits) \in Nat
          /\ Len(commits) # 0 /\ pinned \in BOOLEAN /\ BranchInv /\ ResultInv
          /\ DOMAIN commits = 1..Len(commits) /\ \A c \in DOMAIN commits : commits[c] \in Commit /\ CommitInv(c)
      BY <1>1, PublicationTypes DEF PublicationInv, BranchInv
    <2>1. PICK r \in BOOLEAN, b \in 0..Len(commits), e \in BOOLEAN :
              /\ pub' = [pub EXCEPT !.step = "write_commit", !.existed = e, !.recovering = r, !.base = b]
              /\ b = (IF branch # 0 THEN branch ELSE 1) /\ (e <=> branch # 0)
      <3>1. (pinned /\ branch # expected) \in BOOLEAN /\ (branch # 0) \in BOOLEAN
        OBVIOUS
      <3>2. (IF branch # 0 THEN branch ELSE 1) \in 0..Len(commits)
        BY <2>0
      <3> QED BY <1>3, <3>1, <3>2 DEF ReadHead
    <2>2. result' = result /\ pub.step = "read_head"
      BY <1>3 DEF ReadHead
    <2>3. pub' = Locals("write_commit", b, e, r, pub.commit, pub.pull)
      BY <1>1, <2>1, LocalsAre DEF Locals
    <2>4. PublicationTypeOK'
      <3>1. pub' \in PubType
        BY <1>1, <2>3, LocalsAre, LocalsTyped DEF Steps
      <3> QED BY <1>1, <2>2, <3>1, TypesKeep, BoundsTyped, PublicationTypes
    <2>5. Own(b)
      <3>1. CASE branch = 0
        BY <2>0, <2>1, <3>1 DEF Own, BranchInv
      <3>2. CASE branch # 0 /\ pinned /\ branch # expected
        <4>1. commits[branch].intent = <<wanted, expected>>
          BY <1>3, <3>2 DEF HeadMismatch, Recognised, Intent
        <4>2. branch \in DOMAIN commits /\ commits[branch].intent # <<>>
          BY <2>0, <3>2, <4>1
        <4> QED BY <2>0, <2>1, <3>2, <4>2 DEF Own, CommitInv
      <3>3. CASE branch # 0 /\ (pinned => branch = expected)
        BY <2>0, <2>1, <3>3 DEF Own, BranchInv
      <3> QED BY <3>1, <3>2, <3>3
    <2>6. branch # 0 => branch \in History(branch)
      <3>1. branch # 0 => branch \in DOMAIN commits
        BY <2>0
      <3>2. branch # 0 => HistoryIn(commits, branch) = {branch} \cup HistoryIn(commits, commits[branch].parent)
        BY <1>1, <2>0, <3>1, HistoryOf
      <3> QED BY <3>2, HistoryOfBranch
    <2>7. History(branch)' = History(branch)
      BY <1>1, HistoryOfBranch DEF Quiet
    <2>8. PubInv'
      <3>1. pub'.step = "write_commit" /\ pub'.base = b /\ pub'.existed = e
        BY <2>3 DEF Locals
      <3>2. b # 0 /\ (e => b \in History(branch)') /\ (~e => b = 1)
        <4>1. CASE branch = 0
          BY <2>1, <4>1
        <4>2. CASE branch # 0
          BY <2>1, <2>6, <2>7, <4>2
        <4> QED BY <4>1, <4>2
      <3>3. pinned' => ~commits'[b].others
        BY <1>1, <2>5 DEF Own, Quiet
      <3> QED BY <3>1, <3>2, <3>3 DEF PubInv, Own
    <2>9. ResultInv'
      <3>1. result.state = "none"
        BY <2>0, <2>2 DEF ResultInv, Idle
      <3> QED BY <2>0, <2>2, <3>1 DEF ResultInv
    <2> QED BY <1>1, <2>4, <2>8, <2>9, QuietKeeps DEF PublicationInv, BranchInv, OnePullPerDelivery
  <1> QED BY <1>2, <1>3

\* A request that leaves the branch alone and goes on.
LEMMA GoesOn ==
    ASSUME PublicationInv, Quiet, wanted' = wanted, result' = result,
           pub.step \in {"find_pull", "create_pull", "recover_pull"},
           NEW s \in {"find_pull", "create_pull", "recover_pull", "wait_checks"}, NEW p,
           pub' = [pub EXCEPT !.step = s, !.pull = p], s = "create_pull" /\ pinned => pulls' = <<>>,
           p \in 0..Len(pulls)', s = "wait_checks" => p # 0,
           pulls' \in Seq({"open", "closed"}), pinned => Len(pulls') <= 1, Len(pulls) <= Len(pulls'),
           rounds' = rounds, foreign' = foreign, faults' \in 0..MaxFaults
    PROVE  PublicationInv'
  <1>1. History(branch)' = History(branch) /\ PublicationTypeOK
    BY HistoryOfBranch DEF Quiet, PublicationInv
  <1>2. pub' = Locals(s, pub.base, pub.existed, pub.recovering, pub.commit, p)
    BY <1>1, LocalsAre DEF Locals
  <1>3. /\ pub'.step = s /\ pub'.base = pub.base /\ pub'.existed = pub.existed
        /\ pub'.commit = pub.commit /\ pub'.pull = p
    BY <1>2 DEF Locals
  <1>4. PubInv'
    BY <1>1, <1>3 DEF PublicationInv, PubInv, Own, Quiet
  <1>5. result.state = "none"
    BY DEF PublicationInv, ResultInv, Idle
  <1>6. ResultInv'
    BY <1>5 DEF PublicationInv, ResultInv
  <1>7. PublicationTypeOK'
    <2>1. pub' \in [step : Steps, base : 0..Len(commits), existed : BOOLEAN, recovering : BOOLEAN,
                    commit : 0..Len(commits), pull : 0..Len(pulls')]
      BY <1>1, <1>2, LocalsAre DEF Locals, Steps
    <2>2. result' \in [state : {"none", "error", "published"}, commit : 0..Len(commits),
                   pull : 0..Len(pulls'), ci : {"none", "success", "failure", "unknown"}]
      <3>1. 0..Len(pulls) \subseteq 0..Len(pulls')
        BY <1>1, PublicationTypes
      <3> QED BY <1>1, <3>1 DEF PublicationTypeOK
    <2> QED BY <1>1, <2>1, <2>2 DEF PublicationTypeOK, Quiet
  <1> QED BY <1>4, <1>6, <1>7, QuietKeeps

LEMMA FindPullKeeps == ASSUME PublicationInv, FindPull PROVE PublicationInv'
  <1>1. /\ Quiet /\ pulls' = pulls /\ wanted' = wanted /\ PublicationTypeOK
        /\ faults' = faults /\ rounds' = rounds /\ foreign' = foreign /\ faults' \in 0..MaxFaults
        /\ pub.step \in {"find_pull", "recover_pull"}
        /\ pulls \in Seq({"open", "closed"}) /\ Len(pulls) \in Nat /\ DOMAIN pulls = 1..Len(pulls)
        /\ pinned => Len(pulls') <= 1
    BY PublicationTypes, BoundsTyped
       DEF FindPull, github, bounds, Quiet, PublicationInv, BranchInv, OnePullPerDelivery
  <1>2. CASE Fail
    BY <1>1, <1>2, Fails
  <1>3. CASE /\ ~AlreadyClosed /\ Open = {} /\ pub.step = "find_pull"
             /\ pub' = [pub EXCEPT !.step = "create_pull"] /\ UNCHANGED result
    <2>1. pub' = [pub EXCEPT !.step = "create_pull", !.pull = pub.pull]
      BY <1>1, <1>3, LocalsAre DEF Locals
    <2>2. pinned => pulls = <<>>
      <3>1. pinned => \A i \in DOMAIN pulls : pulls[i] \notin {"open", "closed"}
        BY <1>3 DEF AlreadyClosed, Open
      <3>2. pinned => DOMAIN pulls = {}
        BY <1>1, <3>1
      <3> QED BY <1>1, <3>2
    <2>3. /\ pub.pull \in 0..Len(pulls') /\ Len(pulls) <= Len(pulls') /\ pulls' \in Seq({"open", "closed"})
          /\ pinned => pulls' = <<>>
      BY <1>1, <2>2, LocalsAre
    <2>4. pub.step \in {"find_pull", "create_pull", "recover_pull"} /\ result' = result
      BY <1>1, <1>3
    <2>5. faults' \in 0..MaxFaults /\ rounds' = rounds /\ foreign' = foreign /\ Quiet /\ wanted' = wanted
      BY <1>1
    <2>6. pinned => Len(pulls') <= 1
      BY <1>1
    <2> QED BY <2>1, <2>3, <2>4, <2>5, <2>6, GoesOn
  <1>4. CASE UNCHANGED result /\ \E i \in Open : pub' = [pub EXCEPT !.step = "wait_checks", !.pull = i]
    <2>1. PICK i \in Open : pub' = [pub EXCEPT !.step = "wait_checks", !.pull = i]
      BY <1>4
    <2>2. i \in 0..Len(pulls') /\ i # 0 /\ Len(pulls) <= Len(pulls') /\ pulls' \in Seq({"open", "closed"})
      BY <1>1 DEF Open
    <2>4. pub.step \in {"find_pull", "create_pull", "recover_pull"} /\ result' = result
      BY <1>1, <1>4
    <2>5. faults' \in 0..MaxFaults /\ rounds' = rounds /\ foreign' = foreign /\ Quiet /\ wanted' = wanted
      BY <1>1
    <2>6. pinned => Len(pulls') <= 1
      BY <1>1
    <2> QED BY <2>1, <2>2, <2>4, <2>5, <2>6, GoesOn
  <1> QED BY <1>2, <1>3, <1>4 DEF FindPull

LEMMA CreatePullKeeps == ASSUME PublicationInv, CreatePull PROVE PublicationInv'
  <1>1. /\ Quiet /\ wanted' = wanted /\ result' = result /\ PublicationTypeOK
        /\ rounds' = rounds /\ foreign' = foreign /\ pub.step = "create_pull"
        /\ pulls \in Seq({"open", "closed"}) /\ Len(pulls) \in Nat /\ DOMAIN pulls = 1..Len(pulls)
        /\ pinned => pulls = <<>>
    BY PublicationTypes DEF CreatePull, Quiet, PublicationInv, PubInv
  <1>2. faults' \in 0..MaxFaults
    BY <1>1, BoundsTyped DEF CreatePull, Clear
  <1>3. pub.pull \in 0..Len(pulls)
    BY <1>1, LocalsAre
  <1> DEFINE more == Append(pulls, "open")
  <1>4. more \in Seq({"open", "closed"}) /\ Len(more) = Len(pulls) + 1 /\ (pinned => Len(more) <= 1)
    <2>1. more \in Seq({"open", "closed"}) /\ Len(more) = Len(pulls) + 1
      BY <1>1
    <2>2. pinned => Len(pulls) = 0
      BY <1>1
    <2> QED BY <1>1, <2>1, <2>2
  <1>5. CASE pulls' = more /\ pub' = [pub EXCEPT !.step = "wait_checks", !.pull = NewPull]
    <2>1. NewPull \in 0..Len(pulls') /\ NewPull # 0 /\ Len(pulls) <= Len(pulls')
      BY <1>1, <1>4, <1>5 DEF NewPull
    <2> QED BY <1>1, <1>2, <1>4, <1>5, <2>1, GoesOn
  <1>6. CASE pulls' \in {pulls, more} /\ pub' = [pub EXCEPT !.step = "recover_pull"]
    <2>1. pub' = [pub EXCEPT !.step = "recover_pull", !.pull = pub.pull]
      BY <1>1, <1>6, LocalsAre DEF Locals
    <2>2. /\ pub.pull \in 0..Len(pulls') /\ Len(pulls) <= Len(pulls')
          /\ pulls' \in Seq({"open", "closed"}) /\ (pinned => Len(pulls') <= 1)
      <3>1. CASE pulls' = more
        BY <1>1, <1>3, <1>4, <3>1
      <3>2. CASE pulls' = pulls
        <4>1. pinned => Len(pulls) = 0
          BY <1>1
        <4> QED BY <1>1, <1>3, <3>2, <4>1
      <3> QED BY <1>6, <3>1, <3>2
    <2> QED BY <1>1, <1>2, <2>1, <2>2, GoesOn
  <1> QED BY <1>5, <1>6 DEF CreatePull

LEMMA WaitChecksKeeps == ASSUME PublicationInv, WaitChecks PROVE PublicationInv'
  <1>1. /\ Quiet /\ pulls' = pulls /\ wanted' = wanted /\ PublicationTypeOK /\ pub' = Idle
        /\ faults' = faults /\ rounds' = rounds /\ foreign' = foreign /\ pub.step = "wait_checks"
    BY DEF WaitChecks, github, bounds, Quiet, PublicationInv
  <1>2. PICK ci \in {"success", "failure", "unknown"} :
            result' = [state |-> "published", commit |-> pub.commit, pull |-> pub.pull, ci |-> ci]
    BY DEF WaitChecks
  <1>3. /\ pub.commit \in 0..Len(commits) /\ pub.pull \in 0..Len(pulls)
        /\ Len(commits) \in Nat /\ Len(pulls) \in Nat
    BY <1>1, LocalsAre, PublicationTypes
  <1>4. result' \in ResultType
    BY <1>2, <1>3 DEF ResultType
  <1>5. pub' \in PubType /\ pub'.step = "idle"
    BY <1>1, <1>3 DEF Idle, PubType, Steps
  <1>6. PublicationTypeOK'
    BY <1>1, <1>4, <1>5, TypesKeep, BoundsTyped
  <1>7. PubInv'
    BY <1>5 DEF PubInv
  <1>8. /\ pub.commit # 0 /\ pub.pull # 0 /\ Own(pub.commit) /\ pub.commit \in History(branch)
        /\ commits[pub.commit].value = wanted
    BY <1>1 DEF PublicationInv, PubInv
  <1>9. History(branch)' = History(branch)
    BY <1>1, HistoryOfBranch DEF Quiet
  <1>10. /\ result'.state = "published" /\ result'.commit = pub.commit /\ result'.pull = pub.pull
    BY <1>2
  <1>11. ResultInv'
    <2>1. pinned' => ~commits'[result'.commit].others
      BY <1>1, <1>8, <1>10 DEF Own, Quiet
    <2>2. result'.commit \in History(branch)' /\ commits'[result'.commit].value = wanted'
      BY <1>1, <1>8, <1>9, <1>10 DEF Quiet
    <2> QED BY <1>1, <1>8, <1>10, <2>1, <2>2 DEF ResultInv, Own, Idle
  <1> QED BY <1>1, <1>6, <1>7, <1>11, QuietKeeps DEF PublicationInv, BranchInv, OnePullPerDelivery

\* The result is dropped, and the publication with it.
LEMMA Restarts ==
    ASSUME PublicationInv, Quiet, pulls' = pulls, wanted' \in Content, faults' \in 0..MaxFaults,
           rounds' \in 0..MaxRounds, foreign' = foreign, pub' = Idle, result' = NoResult
    PROVE  PublicationInv'
  <1>1. Len(commits) \in Nat /\ Len(pulls) \in Nat /\ PublicationTypeOK
    BY PublicationTypes DEF PublicationInv
  <1>2. pub' \in PubType /\ pub'.step = "idle"
    BY <1>1 DEF Idle, PubType, Steps
  <1>3. /\ result' \in ResultType /\ result'.state = "none" /\ result'.commit = 0 /\ result'.ci = "none"
    BY <1>1 DEF NoResult, ResultType
  <1>4. PublicationTypeOK'
    BY <1>1, <1>2, <1>3, TypesKeep
  <1>5. PubInv' /\ ResultInv'
    BY <1>2, <1>3 DEF PubInv, ResultInv
  <1> QED BY <1>4, <1>5, QuietKeeps DEF PublicationInv, BranchInv, OnePullPerDelivery

LEMMA CrashKeeps == ASSUME PublicationInv, Crash PROVE PublicationInv'
  <1>1. /\ Quiet /\ pulls' = pulls /\ wanted' = wanted /\ PublicationTypeOK /\ pub' = Idle /\ result' = NoResult
        /\ rounds' = rounds /\ foreign' = foreign /\ Fault
    BY DEF Crash, github, Quiet, PublicationInv
  <1> QED BY <1>1, BoundsTyped, Restarts

LEMMA RetryKeeps ==
    ASSUME PublicationInv, RetryDelivery \/ NextRound PROVE PublicationInv'
  <1>1. /\ Quiet /\ pulls' = pulls /\ PublicationTypeOK /\ pub' = pub /\ result' = NoResult
        /\ faults' = faults /\ foreign' = foreign /\ wanted' \in Content
        /\ result.state # "none"
    BY BoundsTyped DEF RetryDelivery, NextRound, github, bounds, Quiet, PublicationInv, ResultInv
  <1>2. rounds' \in 0..MaxRounds
    <2>1. rounds \in 0..MaxRounds /\ MaxRounds \in Nat
      BY <1>1, PublicationAssumption DEF PublicationTypeOK
    <2>2. rounds' = rounds \/ (rounds < MaxRounds /\ rounds' = rounds + 1)
      BY DEF RetryDelivery, NextRound, bounds
    <2> QED BY <2>1, <2>2
  <1>3. pub' = Idle
    BY <1>1 DEF PublicationInv, ResultInv
  <1> QED BY <1>1, <1>2, <1>3, BoundsTyped, Restarts

LEMMA SaveResultKeeps == ASSUME PublicationInv, SaveResult PROVE PublicationInv'
  <1>1. /\ pinned' = pinned /\ commits' = commits /\ branch' = branch /\ pulls' = pulls /\ wanted' = wanted
        /\ result' = result /\ pub' = pub /\ expected' = result.commit /\ UNCHANGED bounds
        /\ PublicationTypeOK /\ PubInv /\ ResultInv
    BY DEF SaveResult, github, PublicationInv
  <1>2. Grows
    BY <1>1, QuietGrows
  <1>3. PubInv' /\ ResultInv'
    BY <1>1, <1>2, PubKeeps, ResultKeeps
  <1>4. PublicationTypeOK'
    <2>1. result.commit \in 0..Len(commits)
      BY <1>1, PublicationTypes DEF ResultType
    <2> QED BY <1>1, <2>1 DEF PublicationTypeOK, bounds
  <1>5. (\A c \in DOMAIN commits' : CommitInv(c)') /\ BranchInv'
    BY <1>1, CommitsKeep
  <1> QED BY <1>3, <1>4, <1>5 DEF PublicationInv

LEMMA MoveBranchKeeps == ASSUME PublicationInv, MoveBranch PROVE PublicationInv'
  <1>1. /\ pinned' = pinned /\ commits' = commits /\ pulls' = pulls /\ wanted' = wanted /\ expected' = expected
        /\ foreign' = foreign /\ rounds' = rounds /\ faults' \in 0..MaxFaults /\ pub.step = "move_branch"
        /\ PublicationTypeOK /\ PubInv /\ ResultInv /\ BranchInv /\ \A c \in DOMAIN commits : CommitInv(c)
    BY BoundsTyped DEF MoveBranch, PublicationInv, Clear
  <1>2. CASE branch' = branch /\ Fail
    BY <1>1, <1>2, Fails DEF Quiet
  <1>3. CASE ~Refused /\ branch' = pub.commit /\ (AfterMove(TRUE) \/ Fail)
    <2>1. /\ pub.base # 0 /\ Own(pub.base) /\ (IF pub.existed THEN pub.base \in History(branch) ELSE pub.base = 1)
          /\ pub.commit # 0 /\ Own(pub.commit) /\ commits[pub.commit].value = wanted
      BY <1>1 DEF PubInv
    <2>2. /\ pub.commit \in DOMAIN commits /\ DOMAIN commits = 1..Len(commits) /\ Len(commits) \in Nat
          /\ branch \in 0..Len(commits) /\ pub.existed \in BOOLEAN /\ pub.commit \in 0..Len(commits)
      BY <1>1, <2>1, LocalsAre, PublicationTypes
    <2>3. /\ HistoryIn(commits, pub.commit) = {pub.commit} \cup HistoryIn(commits, commits[pub.commit].parent)
          /\ HistoryIn(commits, 0) = {}
      BY <1>1, <2>2, HistoryOf
    <2>4. History(branch) \subseteq History(branch)'
      <3>1. CASE pub.existed
        BY <1>1, <1>3, <2>3, <3>1, HistoryOfBranch DEF Refused
      <3>2. CASE ~pub.existed
        BY <1>3, <2>3, <3>2, HistoryOfBranch DEF Refused
      <3> QED BY <2>2, <3>1, <3>2
    <2>5. pub.commit \in History(branch)'
      BY <1>1, <1>3, <2>3, HistoryOfBranch
    <2>6. Grows
      BY <1>1, <2>4 DEF Grows
    <2>7. \A c \in DOMAIN commits' : CommitInv(c)'
      BY <1>1 DEF CommitInv
    <2>8. BranchInv'
      BY <1>1, <2>4 DEF BranchInv, Own, OnePullPerDelivery
    <2>9. CASE Fail
      <3>1. PubInv' /\ ResultInv'
        BY <1>1, <2>9, FailKeeps
      <3>2. PublicationTypeOK'
        <4>1. pub' \in PubType /\ result' \in ResultType
          BY <1>1, <2>9, FailTyped
        <4> QED BY <1>1, <1>3, <2>2, <4>1 DEF PublicationTypeOK, PubType, ResultType
      <3> QED BY <2>7, <2>8, <3>1, <3>2 DEF PublicationInv
    <2>10. CASE pub' = [pub EXCEPT !.step = "find_pull"] /\ result' = result
      <3>1. pub' = Locals("find_pull", pub.base, pub.existed, pub.recovering, pub.commit, pub.pull)
        BY <1>1, <2>10, LocalsAre DEF Locals
      <3>2. PublicationTypeOK'
        <4>1. pub' \in PubType
          BY <1>1, <3>1, LocalsAre, LocalsTyped DEF Steps
        <4> QED BY <1>1, <1>3, <2>2, <2>10, <4>1 DEF PublicationTypeOK, PubType, ResultType
      <3>3. /\ pub'.step = "find_pull" /\ pub'.base = pub.base /\ pub'.existed = pub.existed
            /\ pub'.commit = pub.commit
        BY <3>1 DEF Locals
      <3>4. PubInv'
        BY <1>1, <2>1, <2>4, <2>5, <3>3 DEF PubInv, Own
      <3>5. result.state = "none"
        BY <1>1 DEF ResultInv, Idle
      <3>6. ResultInv'
        BY <1>1, <2>6, <2>10, <3>5, ResultKeeps
      <3> QED BY <2>7, <2>8, <3>2, <3>4, <3>6 DEF PublicationInv
    <2> QED BY <1>3, <2>9, <2>10 DEF AfterMove
  <1> QED BY <1>2, <1>3 DEF MoveBranch, AfterMove

LEMMA WriteCommitKeeps == ASSUME PublicationInv, WriteCommit PROVE PublicationInv'
  <1> DEFINE tree == Tree(pub.base)
             made == [tree EXCEPT !.parent = pub.base, !.pushed = FALSE, !.intent = Intent]
             n == Len(commits) + 1
  <1>1. /\ pinned' = pinned /\ branch' = branch /\ pulls' = pulls /\ wanted' = wanted /\ expected' = expected
        /\ foreign' = foreign /\ rounds' = rounds /\ faults' = faults /\ pub.step = "write_commit"
        /\ PublicationTypeOK /\ PubInv /\ ResultInv /\ BranchInv /\ \A c \in DOMAIN commits : CommitInv(c)
    BY DEF WriteCommit, PublicationInv, bounds
  <1>2. /\ pub.base # 0 /\ Own(pub.base) /\ (IF pub.existed THEN pub.base \in History(branch) ELSE pub.base = 1)
    BY <1>1 DEF PubInv
  <1>3. /\ pub.base \in DOMAIN commits /\ DOMAIN commits = 1..Len(commits) /\ Len(commits) \in Nat
        /\ branch \in 0..Len(commits) /\ pub.existed \in BOOLEAN /\ pub.base \in 0..Len(commits)
        /\ 1 \in DOMAIN commits /\ pinned \in BOOLEAN /\ Len(commits) # 0
        /\ \A c \in DOMAIN commits : commits[c] \in Commit
    BY <1>1, <1>2, LocalsAre, PublicationTypes DEF BranchInv
  <1>4. /\ tree \in Commit /\ tree.value = wanted
        /\ tree.others = (IF pinned THEN commits[1].others ELSE commits[pub.base].others)
    <2>1. PICK c \in DOMAIN commits : tree = [commits[c] EXCEPT !.value = wanted] /\ c = (IF pinned THEN 1 ELSE pub.base)
      BY <1>3 DEF Tree, TreeOver
    <2>2. commits[c] \in Commit /\ wanted \in Content
      BY <1>1, <1>3, PublicationTypes
    <2> HIDE DEF tree
    <2>3. tree \in Commit /\ tree.value = wanted /\ tree.others = commits[c].others
      BY <2>1, <2>2 DEF Commit
    <2> QED BY <2>1, <2>3
  <1>5. CASE Fail /\ UNCHANGED commits
    BY <1>1, <1>5, Fails, BoundsTyped DEF Quiet
  <1>6. CASE /\ NeedsCommit(tree) /\ commits' = Append(commits, made)
             /\ pub' = [pub EXCEPT !.step = "move_branch", !.commit = n] /\ UNCHANGED result
    <2>1. Intent \in Seq(Content \cup Nat)
      <3>1. wanted \in Content \cup Nat /\ expected \in Content \cup Nat
        BY <1>1, <1>3, PublicationTypes
      <3>2. <<wanted, expected>> \in Seq(Content \cup Nat) /\ <<>> \in Seq(Content \cup Nat)
        BY <3>1
      <3> QED BY <3>2 DEF Intent
    <2>2. /\ made \in Commit /\ made.parent = pub.base /\ made.value = wanted /\ ~made.pushed
          /\ made.others = tree.others
      <3> HIDE DEF tree
      <3> DEFINE some == [tree EXCEPT !.parent = pub.base, !.pushed = FALSE]
      <3>1. tree \in Commit /\ tree.value = wanted /\ pub.base \in Nat
        BY <1>3, <1>4
      <3>2. /\ some \in Commit /\ some.parent = pub.base /\ some.value = wanted /\ ~some.pushed
            /\ some.others = tree.others
        BY <3>1 DEF Commit
      <3>3. made = [some EXCEPT !.intent = Intent]
        BY <1>4 DEF Commit
      <3> HIDE DEF some, made
      <3> QED BY <2>1, <3>2, <3>3 DEF Commit
    <2>3. Made(n, made)
      <3>1. pinned => ~made.others
        BY <1>1, <1>4, <2>2 DEF BranchInv
      <3>2. commits[pub.base].others => made.others
        BY <1>2, <1>4, <2>2 DEF Own
      <3>3. ~SameTree(made, commits[pub.base])
        BY <1>4, <1>6, <2>2 DEF NeedsCommit, SameTree
      <3> HIDE DEF made
      <3> QED BY <1>3, <1>6, <2>2, <3>1, <3>2, <3>3 DEF Made
    <2> HIDE DEF made, tree
    <2>4. /\ commits' \in Seq(Commit) /\ Len(commits') = n /\ n \in Nat
          /\ DOMAIN commits' = DOMAIN commits \cup {n} /\ n \notin DOMAIN commits
          /\ commits'[n] = made /\ \A c \in DOMAIN commits : commits'[c] = commits[c]
          /\ \A c \in DOMAIN commits' : CommitInv(c)'
          /\ HistoryIn(commits', n) = {n} \cup HistoryIn(commits, made.parent)
          /\ \A c \in 0..Len(commits) : HistoryIn(commits', c) = HistoryIn(commits, c)
      <3> HIDE DEF n
      <3>1. PublicationTypeOK /\ pinned' = pinned /\ \A c \in DOMAIN commits : CommitInv(c)
        BY <1>1
      <3> QED BY <2>3, <3>1, CommitMade
    <2>5. History(branch)' = History(branch)
      BY <1>1, <1>3, <2>4, HistoryOfBranch
    <2>6. Grows
      BY <1>1, <2>4, <2>5 DEF Grows
    <2>7. BranchInv'
      <3>1. Len(commits') # 0 /\ ~commits'[1].others
        BY <1>1, <1>3, <2>4 DEF BranchInv
      <3>2. \A c \in DOMAIN commits' : commits'[c].pushed => c \in History(branch)'
        BY <1>1, <2>2, <2>4, <2>5 DEF BranchInv
      <3>3. expected # 0 => expected \in DOMAIN commits
        BY <1>1, PublicationTypes
      <3>4. expected' # 0 => (pinned' => ~commits'[expected'].others)
        BY <1>1, <2>4, <3>3 DEF BranchInv, Own
      <3> QED BY <1>1, <3>1, <3>2, <3>4 DEF BranchInv, Own, OnePullPerDelivery
    <2>8. pub' = Locals("move_branch", pub.base, pub.existed, pub.recovering, n, pub.pull)
      BY <1>1, <1>6, LocalsAre DEF Locals
    <2>9. /\ pub'.step = "move_branch" /\ pub'.base = pub.base /\ pub'.existed = pub.existed /\ pub'.commit = n
      BY <2>8 DEF Locals
    <2>10. PubInv'
      <3>1. /\ pinned' => ~commits'[n].others
            /\ commits'[n].value = wanted' /\ n # 0
        BY <1>1, <1>3, <1>4, <2>2, <2>4 DEF BranchInv
      <3>2. pinned' => ~commits'[pub.base].others
        BY <1>1, <1>2, <1>3, <2>4 DEF Own
      <3> QED BY <1>2, <2>5, <2>9, <3>1, <3>2 DEF PubInv, Own
    <2>11. ResultInv'
      <3>1. result.state = "none"
        BY <1>1 DEF ResultInv, Idle
      <3> QED BY <1>1, <1>6, <2>6, <3>1, ResultKeeps
    <2>12. PublicationTypeOK'
      <3>1. 0..Len(commits) \subseteq 0..Len(commits') /\ n \in 0..Len(commits')
        BY <1>3, <2>4
      <3>2. pub' \in [step : Steps, base : 0..Len(commits'), existed : BOOLEAN, recovering : BOOLEAN,
                      commit : 0..Len(commits'), pull : 0..Len(pulls)]
        BY <1>1, <2>8, <3>1, LocalsAre DEF Locals, Steps
      <3>3. result' \in [state : {"none", "error", "published"}, commit : 0..Len(commits'),
                         pull : 0..Len(pulls), ci : {"none", "success", "failure", "unknown"}]
        BY <1>1, <1>6, <3>1 DEF PublicationTypeOK
      <3> QED BY <1>1, <2>4, <3>1, <3>2, <3>3 DEF PublicationTypeOK
    <2> QED BY <2>4, <2>7, <2>10, <2>11, <2>12 DEF PublicationInv
  <1>7. CASE /\ ~NeedsCommit(tree) /\ UNCHANGED <<commits, result>>
             /\ pub' = [pub EXCEPT !.commit = pub.base, !.step = IF pub.existed THEN "find_pull" ELSE "move_branch"]
    <2>1. PICK s \in {"find_pull", "move_branch"} :
              /\ pub' = [pub EXCEPT !.commit = pub.base, !.step = s]
              /\ s = "find_pull" <=> pub.existed
      BY <1>7
    <2>2. pub' = Locals(s, pub.base, pub.existed, pub.recovering, pub.base, pub.pull)
      BY <1>1, <2>1, LocalsAre DEF Locals
    <2>3. pub'.step = s /\ pub'.base = pub.base /\ pub'.existed = pub.existed /\ pub'.commit = pub.base
      BY <2>2 DEF Locals
    <2>4. commits[pub.base].value = wanted
      BY <1>4, <1>7 DEF NeedsCommit, SameTree
    <2>5. History(branch)' = History(branch)
      BY <1>1, <1>7, HistoryOfBranch
    <2>6. PubInv'
      <3>1. pinned' => ~commits'[pub.base].others
        BY <1>1, <1>2, <1>7 DEF Own
      <3> QED BY <1>1, <1>2, <1>7, <2>1, <2>3, <2>4, <2>5, <3>1 DEF PubInv, Own
    <2>7. ResultInv'
      <3>1. result.state = "none"
        BY <1>1 DEF ResultInv, Idle
      <3> QED BY <1>1, <1>7, <3>1 DEF ResultInv
    <2>8. PublicationTypeOK'
      <3>1. pub' \in PubType
        BY <1>1, <2>2, LocalsAre, LocalsTyped DEF Steps
      <3> QED BY <1>1, <1>7, <3>1, TypesKeep, BoundsTyped, PublicationTypes DEF Quiet
    <2> QED BY <1>1, <1>7, <2>6, <2>7, <2>8, QuietKeeps DEF BranchInv, OnePullPerDelivery, Quiet
  <1> QED BY <1>5, <1>6, <1>7 DEF WriteCommit

LEMMA InterfereKeeps == ASSUME PublicationInv, Interfere PROVE PublicationInv'
  <1>1. /\ pinned' = pinned /\ wanted' = wanted /\ expected' = expected /\ result' = result /\ pub' = pub
        /\ foreign' \in 0..MaxForeign /\ rounds' = rounds /\ faults' = faults
        /\ PublicationTypeOK /\ PubInv /\ ResultInv /\ BranchInv /\ \A c \in DOMAIN commits : CommitInv(c)
    <2>1. MaxForeign \in Nat /\ foreign \in 0..MaxForeign /\ foreign < MaxForeign /\ foreign' = foreign + 1
      BY PublicationAssumption DEF Interfere, PublicationInv, PublicationTypeOK
    <2>2. foreign' \in 0..MaxForeign
      BY <2>1
    <2> QED BY <2>2 DEF Interfere, PublicationInv
  <1>2. CASE /\ \E i \in Open : pulls' = [pulls EXCEPT ![i] = "closed"]
             /\ UNCHANGED <<commits, branch>>
    <2>1. PICK i \in Open : pulls' = [pulls EXCEPT ![i] = "closed"]
      BY <1>2
    <2>2. pulls \in Seq({"open", "closed"}) /\ Len(pulls) \in Nat /\ DOMAIN pulls = 1..Len(pulls) /\ i \in DOMAIN pulls
      BY <1>1, <2>1, PublicationTypes DEF Open
    <2>3. pulls' \in Seq({"open", "closed"}) /\ Len(pulls') = Len(pulls)
      BY <2>1, <2>2
    <2>4. pulls # <<>>
      BY <2>2
    <2>5. Grows
      BY <1>1, <1>2, QuietGrows
    <2>6. PubInv' /\ ResultInv'
      BY <1>1, <2>4, <2>5, PubKeeps, ResultKeeps
    <2>7. PublicationTypeOK'
      BY <1>1, <1>2, <2>3 DEF PublicationTypeOK
    <2>8. pinned => Len(pulls') <= 1
      BY <1>1, <2>3 DEF BranchInv, OnePullPerDelivery
    <2> QED BY <1>1, <1>2, <2>6, <2>7, <2>8, QuietKeeps DEF Quiet
  <1> DEFINE n == Len(commits) + 1
             made == [commits[branch] EXCEPT !.parent = branch, !.others = TRUE, !.pushed = TRUE, !.intent = <<>>]
  <1>3. CASE branch # 0 /\ branch' = n /\ commits' = Append(commits, made) /\ UNCHANGED pulls
    <2>1. /\ branch \in DOMAIN commits /\ DOMAIN commits = 1..Len(commits) /\ Len(commits) \in Nat
          /\ Len(commits) # 0 /\ commits[branch] \in Commit /\ branch \in Nat
      BY <1>1, <1>3, PublicationTypes DEF BranchInv
    <2>2. /\ made \in Commit /\ made.parent = branch /\ made.pushed /\ made.others /\ made.intent = <<>>
      <3> DEFINE some == [commits[branch] EXCEPT !.parent = branch, !.others = TRUE]
      <3>1. some \in Commit /\ some.parent = branch /\ some.others
        BY <2>1 DEF Commit
      <3>2. made = [some EXCEPT !.pushed = TRUE, !.intent = <<>>]
        BY <2>1 DEF Commit
      <3>3. <<>> \in Seq(Content \cup Nat)
        OBVIOUS
      <3> HIDE DEF some, made
      <3> QED BY <3>1, <3>2, <3>3 DEF Commit
    <2> HIDE DEF made
    <2>3. Made(n, made)
      BY <1>3, <2>1, <2>2 DEF Made
    <2>4. /\ commits' \in Seq(Commit) /\ Len(commits') = n /\ n \in Nat
          /\ DOMAIN commits' = DOMAIN commits \cup {n} /\ n \notin DOMAIN commits
          /\ commits'[n] = made /\ \A c \in DOMAIN commits : commits'[c] = commits[c]
          /\ \A c \in DOMAIN commits' : CommitInv(c)'
          /\ HistoryIn(commits', n) = {n} \cup HistoryIn(commits, made.parent)
          /\ \A c \in 0..Len(commits) : HistoryIn(commits', c) = HistoryIn(commits, c)
      <3> HIDE DEF n
      <3>1. PublicationTypeOK /\ pinned' = pinned /\ \A c \in DOMAIN commits : CommitInv(c)
        BY <1>1
      <3> QED BY <2>3, <3>1, CommitMade
    <2>5. History(branch)' = {n} \cup History(branch)
      BY <1>3, <2>2, <2>4, HistoryOfBranch
    <2>6. Grows
      BY <1>1, <2>4, <2>5 DEF Grows
    <2>7. BranchInv'
      <3>1. Len(commits') # 0 /\ ~commits'[1].others
        BY <1>1, <2>1, <2>4 DEF BranchInv
      <3>2. \A c \in DOMAIN commits' : commits'[c].pushed => c \in History(branch)'
        BY <1>1, <2>4, <2>5 DEF BranchInv
      <3>3. expected # 0 => expected \in DOMAIN commits
        BY <1>1, PublicationTypes
      <3>4. expected' # 0 => (pinned' => ~commits'[expected'].others)
        BY <1>1, <2>4, <3>3 DEF BranchInv, Own
      <3> QED BY <1>1, <1>3, <3>1, <3>2, <3>4 DEF BranchInv, Own, OnePullPerDelivery
    <2>8. PubInv' /\ ResultInv'
      BY <1>1, <1>3, <2>6, PubKeeps, ResultKeeps
    <2>9. PublicationTypeOK'
      <3>1. 0..Len(commits) \subseteq 0..Len(commits') /\ n \in 0..Len(commits')
        BY <2>1, <2>4
      <3> QED BY <1>1, <1>3, <2>4, <3>1 DEF PublicationTypeOK
    <2> QED BY <2>4, <2>7, <2>8, <2>9 DEF PublicationInv
  <1> QED BY <1>2, <1>3 DEF Interfere

LEMMA PublicationStarts == ASSUME PublicationInit PROVE PublicationInv
  <1> DEFINE first == [parent |-> 0, value |-> Nothing, others |-> FALSE, pushed |-> FALSE, intent |-> <<>>]
  <1>1. /\ commits = <<first>> /\ branch = 0 /\ pulls = <<>> /\ expected = 0 /\ result = NoResult /\ pub = Idle
        /\ pinned \in BOOLEAN /\ wanted \in Content /\ faults = 0 /\ foreign = 0 /\ rounds = 0
    BY DEF PublicationInit
  <1>2. first \in Commit
    BY DEF Commit
  <1>3. commits \in Seq(Commit) /\ Len(commits) = 1 /\ DOMAIN commits = {1} /\ commits[1] = first
    <2> HIDE DEF first
    <2> QED BY <1>1, <1>2
  <1>4. pulls \in Seq({"open", "closed"}) /\ Len(pulls) = 0
    BY <1>1
  <1>5. PublicationTypeOK
    <2>1. result \in ResultType
      BY <1>1, <1>3, <1>4 DEF NoResult, ResultType
    <2>2. pub \in PubType
      BY <1>1, <1>3, <1>4 DEF Idle, Steps, PubType
    <2> HIDE DEF first
    <2> QED BY <1>1, <1>3, <1>4, <2>1, <2>2, PublicationAssumption DEF PublicationTypeOK, PubType, ResultType
  <1>6. \A c \in DOMAIN commits : CommitInv(c)
    BY <1>3 DEF CommitInv
  <1>7. BranchInv
    BY <1>1, <1>3, <1>4 DEF BranchInv, OnePullPerDelivery
  <1>8. PubInv /\ ResultInv
    BY <1>1 DEF PubInv, ResultInv, Idle, NoResult
  <1> QED BY <1>5, <1>6, <1>7, <1>8 DEF PublicationInv

\* What is on GitHub of a delivery, the publication under way and the result of
\* the last, on a pinned base and on a branch that others push to.
THEOREM PublicationInvariance == PublicationSpec => []PublicationInv
  <1>1. PublicationInv /\ [PublicationNext]_publicationVars => PublicationInv'
    <2>1. ASSUME PublicationInv, UNCHANGED publicationVars PROVE PublicationInv'
      <3>1. Quiet /\ pulls' = pulls /\ pub' = pub /\ result' = result /\ wanted' = wanted /\ UNCHANGED bounds
        BY <2>1 DEF publicationVars, github, Quiet
      <3>2. Grows /\ PublicationTypeOK
        BY <2>1, <3>1, QuietGrows DEF Quiet, PublicationInv
      <3>3. PubInv' /\ ResultInv'
        BY <2>1, <3>1, <3>2, PubKeeps, ResultKeeps DEF PublicationInv
      <3>4. PublicationTypeOK'
        BY <3>1, <3>2 DEF PublicationTypeOK, bounds, Quiet
      <3> QED BY <2>1, <3>1, <3>3, <3>4, QuietKeeps DEF PublicationInv, BranchInv, OnePullPerDelivery
    <2> QED BY <2>1, StartPublicationKeeps, ReadHeadKeeps, WriteCommitKeeps, MoveBranchKeeps, FindPullKeeps,
              CreatePullKeeps, WaitChecksKeeps, SaveResultKeeps, RequestFailsKeeps, CrashKeeps, RetryKeeps,
              InterfereKeeps DEF PublicationNext, Publish
  <1> QED BY <1>1, PublicationStarts, PTL DEF PublicationSpec

\* The branch only moves forward and the workflow's commits keep what others
\* pushed, wherever they pushed in between.
THEOREM ForeignWorkSafety == PublicationSpec => []ForeignWorkIsKept
  <1>1. PublicationInv => ForeignWorkIsKept
    <2> SUFFICES ASSUME PublicationInv PROVE ForeignWorkIsKept
      OBVIOUS
    <2>1. ASSUME NEW c \in History(branch), commits[c].parent # 0, commits[commits[c].parent].others
          PROVE  commits[c].others
      <3>1. c \in DOMAIN commits
        BY HistoryListed DEF PublicationInv
      <3> QED BY <2>1, <3>1 DEF PublicationInv, CommitInv
    <2>2. \A c \in DOMAIN commits : commits[c].pushed => c \in History(branch)
      BY DEF PublicationInv, BranchInv
    <2> QED BY <2>1, <2>2 DEF ForeignWorkIsKept
  <1> QED BY <1>1, PublicationInvariance, PTL

\* However often a delivery is interrupted and repeated, it is published once,
\* as it was approved.
THEOREM PublicationSafety == PublicationSpec => []PublishedOnce
  <1>1. PublicationInv => PublishedOnce
    <2> SUFFICES ASSUME PublicationInv PROVE PublishedOnce
      OBVIOUS
    <2>1. NoEmptyCommits
      <3> SUFFICES ASSUME NEW c \in History(branch), commits[c].parent # 0, ~commits[c].pushed
                   PROVE  ~SameTree(commits[c], commits[commits[c].parent])
        BY DEF NoEmptyCommits
      <3>1. c \in DOMAIN commits
        BY HistoryListed DEF PublicationInv
      <3> QED BY <3>1 DEF PublicationInv, CommitInv
    <2>2. ResultIsPublished
      <3> SUFFICES ASSUME result.state = "published"
                   PROVE  /\ result.pull \in DOMAIN pulls /\ result.commit \in History(branch)
                          /\ commits[result.commit].value = wanted
                          /\ pinned => ~commits[result.commit].others
        BY DEF ResultIsPublished
      <3>1. result.pull \in 0..Len(pulls) /\ result.pull # 0 /\ DOMAIN pulls = 1..Len(pulls) /\ Len(pulls) \in Nat
        BY PublicationTypes DEF PublicationInv, ResultInv, ResultType
      <3> QED BY <3>1 DEF PublicationInv, ResultInv, Own
    <2> QED BY <2>1, <2>2 DEF PublicationInv, BranchInv, PublishedOnce
  <1> QED BY <1>1, PublicationInvariance, PTL
=============================================================================
