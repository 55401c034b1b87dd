------------------------ MODULE DatabaseClientProofs ------------------------
(***************************************************************************)
(* Proofs about the database client, for any number of writes, entries of  *)
(* other devices, refusals, revoked listens, lost connections and ends of  *)
(* the process.                                                            *)
(***************************************************************************)
EXTENDS DatabaseClient, FiniteSetTheorems, SequenceTheorems, TLAPS

(***************************************************************************)
(* The inductive invariant.  Pending is about the writes of this client,   *)
(* Asking about its listen and the answers under way to it, Streaming      *)
(* about the data: each accepted write is covered by what the client has,  *)
(* by a child message before its answer or by the data message of the      *)
(* listen, as long as the server serves the listen and, for the messages   *)
(* sent until then, after it revoked it.                                   *)
(***************************************************************************)
Pending ==
  /\ writeIdCounter \in Nat
  /\ outstandingPuts \subseteq 1..writeIdCounter
  /\ putsToAck \in Seq(1..writeIdCounter)
  /\ PendingWritesAreAnswerable

IsSeq(s) == \E S : s \in Seq(S)

Kind(s, n, kind) == n \in 1..Len(s) /\ s[n].kind = kind

Has(s, kind) == \E n \in 1..Len(s) : s[n].kind = kind

Sole(s, kind) == \A m, n \in 1..Len(s) : Kind(s, m, kind) /\ Kind(s, n, kind) => m = n

\* Messages that tell the client nothing of entries: answers to puts, and
\* refusals.
Quiet(s, n) == Kind(s, n, "putReply") \/ (Kind(s, n, "listenReply") /\ ~s[n].ok)

\* The answers under way to the listen l, and to listens before it.
Current(s, l) == \E n \in 1..Len(s) : Kind(s, n, "listenReply") /\ s[n].spec = l
Stale(s, l)   == \E n \in 1..Len(s) : Kind(s, n, "listenReply") /\ s[n].spec # l
Refusal(s, l, n) == Kind(s, n, "listenReply") /\ s[n].spec = l /\ ~s[n].ok

\* The listen l will be cancelled.
Ending(s, l) == \E n \in 1..Len(s) : Kind(s, n, "listenRevoked") \/ Refusal(s, l, n)

\* The client, with the listen l of the c it started, and the server, to which
\* it is on its way or which looks up its data (out), or serves it (on).
Talk(s, l, c, out, on) ==
  /\ \A n \in 1..Len(s) : Kind(s, n, "listenReply") => s[n].spec \in 1..c
  /\ \A m, n \in 1..Len(s) : Kind(s, m, "listenReply") /\ Kind(s, n, "listenReply") =>
       ((s[m].spec = l <=> s[n].spec = l) => m = n)
  /\ out \/ l = 0 => \A n \in 1..Len(s) : Quiet(s, n)
  /\ out => ~Current(s, l)
  /\ out \/ on => l # 0
  /\ ~(out /\ on)
  /\ Ending(s, l) => ~on
  /\ \A m, n \in 1..Len(s) : Kind(s, m, "listenRevoked") /\ Kind(s, n, "listenReply") /\ m < n =>
       s[n].spec = l
  /\ \A m, n \in 1..Len(s) : Refusal(s, l, m) /\ m < n => Quiet(s, n)

One(b) == IF b THEN 1 ELSE 0

Unanswered(s, l, out) == One(out) + One(Current(s, l)) + One(Stale(s, l))

Asked == Has(toServer, "listen")
Out == Asked \/ fetching # 0

Asking ==
  /\ IsSeq(toServer) /\ Sole(toServer, "listen")
  /\ \A n \in 1..Len(toServer) : Kind(toServer, n, "listen") => toServer[n].spec = listens
  /\ listenSpecs \in Nat /\ listens \in 0..listenSpecs /\ fetching \in {0, listens}
  /\ {listening, complete} \subseteq BOOLEAN
  /\ connectionState # "Connected" =>
       toServer = <<>> /\ toClient = <<>> /\ fetching = 0 /\ ~listening
  /\ connectionState = "Connected" /\ listens # 0 => Out \/ listening \/ Ending(toClient, listens)
  /\ complete => listens # 0
  /\ ~(Asked /\ fetching # 0)
  /\ Talk(toClient, listens, listenSpecs, Out, listening)
  /\ unackedListensCount = Unanswered(toClient, listens, Out)

\* The messages s that change what the client knows, its cache.
InData(s, id) == \E n \in 1..Len(s) : Kind(s, n, "data") /\ id \in s[n].entries

ToldBefore(s, id, k) == \E n \in 1..Len(s) : n < k /\ Kind(s, n, "child") /\ s[n].id = id

\* The server serves the listen, or it did when it sent message n and all
\* until the one that revokes it, with no answer to a listen left after that.
Live(s, on, n) ==
  \/ on
  \/ \E m \in 1..Len(s) : /\ n < m /\ Kind(s, m, "listenRevoked")
                          /\ \A k \in 1..Len(s) : m < k => ~Kind(s, k, "listenReply")

Arranged(s) ==
  /\ IsSeq(s)
  /\ \A n \in 1..Len(s) : s[n].kind \in {"data", "child", "putReply", "listenReply", "listenRevoked"}
  /\ Sole(s, "data") /\ Sole(s, "listenRevoked")
  /\ \A m \in 1..Len(s) : Kind(s, m, "data") =>
       \E n \in 1..Len(s) : m < n /\ Kind(s, n, "listenReply")
  /\ \A m, n \in 1..Len(s) : Kind(s, m, "data") /\ Kind(s, n, "child") => m < n
  /\ \A m, n \in 1..Len(s) : Kind(s, m, "listenRevoked") /\ m < n => Quiet(s, n)

Covered(s, cache, db, on) ==
  /\ cache \subseteq db
  /\ \A n \in 1..Len(s) : Kind(s, n, "data") => cache \subseteq s[n].entries
  /\ \A n \in 1..Len(s) : Kind(s, n, "data") => s[n].entries \subseteq db
  /\ \A n \in 1..Len(s) : Kind(s, n, "child") => s[n].id \in db
  /\ on => \A id \in db : id \in cache \/ InData(s, id) \/ ToldBefore(s, id, Len(s) + 1)

Answered(s, cache, db, on) ==
  \A n \in 1..Len(s) : Kind(s, n, "putReply") =>
    \/ s[n].id \in Refused
    \/ /\ s[n].id \in db
       /\ Live(s, on, n) => s[n].id \in cache \/ InData(s, s[n].id) \/ ToldBefore(s, s[n].id, n)

Held(s, cache, db, on, held) ==
  \A id \in held \ Refused : id \in db /\ (Live(s, on, 0) => id \in cache \/ InData(s, id))

Flow(s, cache, db, on, held) ==
  /\ Arranged(s)
  /\ Covered(s, cache, db, on)
  /\ Answered(s, cache, db, on)
  /\ Held(s, cache, db, on, held)

Streaming == Flow(toClient, serverCache, serverDb, listening, Range(putsToAck))

IInv == Pending /\ NothingForgotten /\ Asking /\ Streaming

-----------------------------------------------------------------------------
(* Sequences of messages of any kind *)

\* t is s without its first message.
Dropped(s, t) ==
  /\ IsSeq(t) /\ Len(s) \in Nat /\ Len(s) >= 1
  /\ Len(t) = Len(s) - 1
  /\ \A n \in 1..Len(s) - 1 : t[n] = s[n + 1]

\* t is s with the message e behind it.
Extended(s, e, t) ==
  /\ IsSeq(t) /\ Len(s) \in Nat
  /\ Len(t) = Len(s) + 1
  /\ t[Len(s) + 1] = e
  /\ \A n \in 1..Len(s) : t[n] = s[n]

\* What Head and Tail are, whatever the messages.
LEMMA TailSeq ==
  ASSUME NEW s, IsSeq(s), s # <<>>
  PROVE  Dropped(s, Tail(s)) /\ Head(s) = s[1]
<1>1. PICK S : s \in Seq(S)
  BY DEF IsSeq
<1>2. Tail(s) \in Seq(S) /\ Len(s) \in Nat /\ Len(s) >= 1 /\ Len(Tail(s)) = Len(s) - 1
  BY <1>1
<1>3. \A n \in 1..Len(s) - 1 : Tail(s)[n] = s[n + 1]
  BY <1>1, <1>2
<1>4. Head(s) = s[1]
  BY <1>1
<1> QED
  BY <1>2, <1>3, <1>4 DEF Dropped, IsSeq

\* What one more message behind the others makes.
LEMMA AppendSeq ==
  ASSUME NEW s, IsSeq(s), NEW e
  PROVE  Extended(s, e, Append(s, e)) /\ Append(s, e) = s \o <<e>>
<1>1. PICK S : s \in Seq(S)
  BY DEF IsSeq
<1> DEFINE T == S \cup {e}
<1>2. s \in Seq(T) /\ e \in T /\ Len(s) \in Nat
  BY <1>1
<1> HIDE DEF T
<1>3. Append(s, e) \in Seq(T) /\ Len(Append(s, e)) = Len(s) + 1
  BY <1>2
<1>4. Append(s, e)[Len(s) + 1] = e /\ \A n \in 1..Len(s) : Append(s, e)[n] = s[n]
  BY <1>2
<1>5. Append(s, e) = s \o <<e>>
  BY <1>2, AppendIsConcat
<1> QED
  BY <1>2, <1>3, <1>4, <1>5 DEF Extended, IsSeq

\* Two messages put behind the others at once.
LEMMA AppendTwo ==
  ASSUME NEW s, IsSeq(s), NEW e, NEW f
  PROVE  s \o <<e, f>> = (s \o <<e>>) \o <<f>>
<1>1. PICK S : s \in Seq(S)
  BY DEF IsSeq
<1> DEFINE T == S \cup {e, f}
<1>2. s \in Seq(T) /\ e \in T /\ f \in T
  BY <1>1
<1> HIDE DEF T
<1>3. <<e>> \in Seq(T) /\ <<f>> \in Seq(T) /\ <<e, f>> = Append(<<e>>, f)
  BY <1>2
<1>4. <<e, f>> = <<e>> \o <<f>>
  BY <1>2, <1>3, AppendIsConcat
<1> QED
  BY <1>2, <1>3, <1>4, ConcatAssociative

-----------------------------------------------------------------------------
(* The client takes the first message *)

\* The other messages keep their order and their places but for one.
LEMMA DropPlaces ==
  ASSUME NEW s, NEW t, Dropped(s, t)
  PROVE  /\ Len(t) \in Nat /\ Len(s) = Len(t) + 1 /\ 1 \in 1..Len(s)
         /\ \A n \in 1..Len(t) : n + 1 \in 1..Len(s) /\ t[n] = s[n + 1]
         /\ \A n \in 1..Len(s) : n # 1 => n - 1 \in 1..Len(t) /\ s[n] = t[n - 1]
         /\ \A kind : \A n \in 1..Len(t) : Kind(t, n, kind) <=> Kind(s, n + 1, kind)
         /\ \A n \in 1..Len(t) : Quiet(t, n) <=> Quiet(s, n + 1)
<1>1. Len(t) \in Nat /\ Len(s) = Len(t) + 1 /\ 1 \in 1..Len(s)
  BY DEF Dropped
<1>2. \A n \in 1..Len(t) : n + 1 \in 1..Len(s) /\ t[n] = s[n + 1]
  BY DEF Dropped
<1>3. \A n \in 1..Len(s) : n # 1 => n - 1 \in 1..Len(t) /\ s[n] = t[n - 1]
  BY DEF Dropped
<1>4. \A kind : \A n \in 1..Len(t) : Kind(t, n, kind) <=> Kind(s, n + 1, kind)
  BY <1>2 DEF Kind
<1>5. \A n \in 1..Len(t) : Quiet(t, n) <=> Quiet(s, n + 1)
  BY <1>2, <1>4 DEF Quiet
<1> QED
  BY <1>1, <1>2, <1>3, <1>4, <1>5

\* Which kinds of messages are left when the first one is taken.
LEMMA DropHas ==
  ASSUME NEW s, NEW t, Dropped(s, t), NEW kind
  PROVE  /\ Has(s, kind) <=> Has(t, kind) \/ s[1].kind = kind
         /\ Sole(s, kind) => Sole(t, kind) /\ ~(Has(t, kind) /\ s[1].kind = kind)
<1>1. \A n \in 1..Len(t) : n + 1 \in 1..Len(s) /\ t[n] = s[n + 1] /\ n + 1 # 1
  BY DEF Dropped
<1>2. \A n \in 1..Len(s) : n # 1 => n - 1 \in 1..Len(t) /\ s[n] = t[n - 1]
  BY DEF Dropped
<1>3. 1 \in 1..Len(s)
  BY DEF Dropped
<1>4. Has(s, kind) <=> Has(t, kind) \/ s[1].kind = kind
  BY <1>1, <1>2, <1>3, ZenonT(30) DEF Has
<1>5. ASSUME Sole(s, kind)
      PROVE  Sole(t, kind) /\ ~(Has(t, kind) /\ s[1].kind = kind)
  <2>1. \A m, n \in 1..Len(s) : s[m].kind = kind /\ s[n].kind = kind => m = n
    BY <1>5 DEF Sole, Kind
  <2>2. \A m, n \in 1..Len(t) : t[m].kind = kind /\ t[n].kind = kind => m = n
    BY <2>1, <1>1, SMTT(30)
  <2>3. ~(Has(t, kind) /\ s[1].kind = kind)
    BY <2>1, <1>1, <1>3 DEF Has
  <2> QED
    BY <2>2, <2>3 DEF Sole, Kind
<1> QED
  BY <1>4, <1>5

\* They stay arranged.
LEMMA DropArranged ==
  ASSUME NEW s, NEW t, Arranged(s), Dropped(s, t)
  PROVE  Arranged(t)
<1>1. /\ \A n \in 1..Len(t) : n + 1 \in 1..Len(s) /\ t[n] = s[n + 1]
      /\ \A n \in 1..Len(s) : n # 1 => n - 1 \in 1..Len(t) /\ s[n] = t[n - 1]
  BY DropPlaces
<1>2. \A kind : \A n \in 1..Len(t) : Kind(t, n, kind) <=> Kind(s, n + 1, kind)
  BY DropPlaces
<1>3. \A n \in 1..Len(t) : Quiet(t, n) <=> Quiet(s, n + 1)
  BY DropPlaces
<1>4. Sole(t, "data") /\ Sole(t, "listenRevoked")
  BY DropHas DEF Arranged
<1>5. ASSUME NEW m \in 1..Len(t), Kind(t, m, "data")
      PROVE  \E n \in 1..Len(t) : m < n /\ Kind(t, n, "listenReply")
  <2>1. m + 1 \in 1..Len(s) /\ Kind(s, m + 1, "data")
    BY <1>1, <1>2, <1>5
  <2>2. PICK n \in 1..Len(s) : m + 1 < n /\ Kind(s, n, "listenReply")
    BY <2>1 DEF Arranged
  <2>3. n - 1 \in 1..Len(t) /\ m < n - 1 /\ (n - 1) + 1 = n
    BY <1>1, <2>2
  <2> QED
    BY <1>2, <2>2, <2>3
<1>6. \A m, n \in 1..Len(t) : Kind(t, m, "data") /\ Kind(t, n, "child") => m < n
  <2> TAKE m, n \in 1..Len(t)
  <2>1. m + 1 \in 1..Len(s) /\ n + 1 \in 1..Len(s) /\ (m + 1 < n + 1 => m < n)
    BY <1>1
  <2> QED
    BY <1>2, <2>1 DEF Arranged
<1>7. \A m, n \in 1..Len(t) : Kind(t, m, "listenRevoked") /\ m < n => Quiet(t, n)
  <2> TAKE m, n \in 1..Len(t)
  <2>1. m + 1 \in 1..Len(s) /\ n + 1 \in 1..Len(s) /\ (m < n => m + 1 < n + 1)
    BY <1>1
  <2> QED
    BY <1>2, <1>3, <2>1 DEF Arranged
<1>8. \A n \in 1..Len(t) : t[n].kind \in {"data", "child", "putReply", "listenReply", "listenRevoked"}
  BY <1>1 DEF Arranged
<1> QED
  BY <1>4, <1>5, <1>6, <1>7, <1>8 DEF Arranged, Dropped

\* What was sent while the listen was served still was.
LEMMA LiveDrop ==
  ASSUME NEW s, NEW t, NEW on, Dropped(s, t), NEW n \in Int, Live(t, on, n)
  PROVE  Live(s, on, n) /\ Live(s, on, n + 1)
<1>1. CASE on
  BY <1>1 DEF Live
<1>2. CASE ~on
  <2>1. PICK m \in 1..Len(t) : /\ n < m /\ Kind(t, m, "listenRevoked")
                               /\ \A k \in 1..Len(t) : m < k => ~Kind(t, k, "listenReply")
    BY <1>2 DEF Live
  <2>2. m + 1 \in 1..Len(s) /\ n < m + 1 /\ n + 1 < m + 1 /\ Kind(s, m + 1, "listenRevoked")
    BY <2>1, DropPlaces
  <2>3. ASSUME NEW k \in 1..Len(s), m + 1 < k
        PROVE  ~Kind(s, k, "listenReply")
    <3>1. k - 1 \in 1..Len(t) /\ m < k - 1 /\ (k - 1) + 1 = k
      BY <2>1, <2>3, DropPlaces
    <3>2. Kind(t, k - 1, "listenReply") <=> Kind(s, (k - 1) + 1, "listenReply")
      BY <3>1, DropPlaces
    <3> QED
      BY <2>1, <3>1, <3>2
  <2> QED
    BY <2>2, <2>3 DEF Live
<1> QED
  BY <1>1, <1>2

\* What the other messages still say of an entry.
LEMMA DropSays ==
  ASSUME NEW s, NEW t, Dropped(s, t), NEW id
  PROVE  /\ InData(s, id) => InData(t, id) \/ (Kind(s, 1, "data") /\ id \in s[1].entries)
         /\ \A k \in 1..Len(t) + 1 :
              ToldBefore(s, id, k + 1) => ToldBefore(t, id, k) \/ (Kind(s, 1, "child") /\ s[1].id = id)
<1>1. \A n \in 1..Len(s) : n # 1 => n - 1 \in 1..Len(t) /\ s[n] = t[n - 1]
  BY DEF Dropped
<1>2. \A n \in 1..Len(s) : n # 1 => \A kind : Kind(s, n, kind) => Kind(t, n - 1, kind)
  BY <1>1 DEF Kind
<1>3. ASSUME InData(s, id)
      PROVE  InData(t, id) \/ (Kind(s, 1, "data") /\ id \in s[1].entries)
  <2>1. PICK n \in 1..Len(s) : Kind(s, n, "data") /\ id \in s[n].entries
    BY <1>3 DEF InData
  <2> QED
    BY <2>1, <1>1, <1>2 DEF InData
<1>4. ASSUME NEW k \in 1..Len(t) + 1, ToldBefore(s, id, k + 1)
      PROVE  ToldBefore(t, id, k) \/ (Kind(s, 1, "child") /\ s[1].id = id)
  <2>1. PICK n \in 1..Len(s) : n < k + 1 /\ Kind(s, n, "child") /\ s[n].id = id
    BY <1>4 DEF ToldBefore
  <2>2. CASE n = 1
    BY <2>1, <2>2
  <2>3. CASE n # 1
    <3>1. n - 1 \in 1..Len(t) /\ n - 1 < k /\ Kind(t, n - 1, "child") /\ t[n - 1].id = id
      BY <2>1, <2>3, <1>1, <1>2
    <3> QED
      BY <3>1 DEF ToldBefore
  <2> QED
    BY <2>2, <2>3
<1> QED
  BY <1>3, <1>4

\* The client knows as much as before when it has taken the first message.
Taken(s, cache, new) ==
  \/ /\ Kind(s, 1, "data")
     /\ new = s[1].entries
  \/ /\ Kind(s, 1, "child")
     /\ new = cache \cup {s[1].id}
  \/ /\ s[1].kind \notin {"data", "child"}
     /\ new = cache

LEMMA DropFlow ==
  ASSUME NEW s, NEW t, NEW cache, NEW new, NEW db, NEW on, NEW held,
         Flow(s, cache, db, on, held), Dropped(s, t), Taken(s, cache, new)
  PROVE  Flow(t, new, db, on, held) /\ cache \subseteq new
<1>1. \A n \in 1..Len(t) : n + 1 \in 1..Len(s) /\ t[n] = s[n + 1]
  BY DEF Dropped
<1>2. 1 \in 1..Len(s) /\ Len(s) = Len(t) + 1 /\ Len(t) \in Nat
  BY DEF Dropped
<1>3. \A kind : \A n \in 1..Len(t) : Kind(t, n, kind) => Kind(s, n + 1, kind)
  BY <1>1 DEF Kind
<1>4. Arranged(s) /\ Covered(s, cache, db, on) /\ Answered(s, cache, db, on) /\ Held(s, cache, db, on, held)
  BY DEF Flow
<1>5. Arranged(t)
  BY <1>4, DropArranged
<1>6. cache \subseteq new /\ new \subseteq db
  <2>1. CASE Kind(s, 1, "data") /\ new = s[1].entries
    BY <1>2, <1>4, <2>1 DEF Covered
  <2>2. CASE Kind(s, 1, "child") /\ new = cache \cup {s[1].id}
    BY <1>2, <1>4, <2>2 DEF Covered
  <2>3. CASE s[1].kind \notin {"data", "child"} /\ new = cache
    BY <1>4, <2>3 DEF Covered
  <2> QED
    BY <2>1, <2>2, <2>3 DEF Taken
<1>7. /\ \A id : Kind(s, 1, "data") /\ id \in s[1].entries => id \in new
      /\ \A id : Kind(s, 1, "child") /\ s[1].id = id => id \in new
  BY <1>2 DEF Taken, Kind
<1>8. ASSUME NEW id
      PROVE  /\ InData(s, id) => InData(t, id) \/ id \in new
             /\ \A k \in 1..Len(t) + 1 : ToldBefore(s, id, k + 1) => ToldBefore(t, id, k) \/ id \in new
  BY <1>7, DropSays
<1>9. \A n \in 1..Len(t) : Kind(t, n, "data") => new \subseteq t[n].entries
  <2>1. SUFFICES ASSUME NEW n \in 1..Len(t), Kind(t, n, "data")
                 PROVE  new \subseteq t[n].entries
    OBVIOUS
  <2>2. n + 1 \in 1..Len(s) /\ Kind(s, n + 1, "data") /\ t[n] = s[n + 1] /\ n + 1 # 1
    BY <1>1, <1>3, <2>1
  <2>3. cache \subseteq t[n].entries
    BY <1>4, <2>2 DEF Covered
  <2>4. ~Kind(s, 1, "data")
    BY <1>2, <1>4, <2>2 DEF Arranged, Sole
  <2>5. ~Kind(s, 1, "child")
    BY <1>2, <1>4, <2>2 DEF Arranged
  <2> QED
    BY <2>3, <2>4, <2>5 DEF Taken
<1>10. \A n \in 1..Len(t) : Kind(t, n, "data") => t[n].entries \subseteq db
  BY <1>1, <1>3, <1>4 DEF Covered
<1>11. \A n \in 1..Len(t) : Kind(t, n, "child") => t[n].id \in db
  BY <1>1, <1>3, <1>4 DEF Covered
<1>12. on => \A id \in db : id \in new \/ InData(t, id) \/ ToldBefore(t, id, Len(t) + 1)
  <2>1. SUFFICES ASSUME on, NEW id \in db
                 PROVE  id \in new \/ InData(t, id) \/ ToldBefore(t, id, Len(t) + 1)
    OBVIOUS
  <2>2. id \in cache \/ InData(s, id) \/ ToldBefore(s, id, (Len(t) + 1) + 1)
    BY <1>2, <1>4, <2>1 DEF Covered
  <2>3. Len(t) + 1 \in 1..Len(t) + 1
    BY <1>2
  <2> QED
    BY <2>2, <2>3, <1>6, <1>8
<1>13. Answered(t, new, db, on)
  <2>1. SUFFICES ASSUME NEW n \in 1..Len(t), Kind(t, n, "putReply"), t[n].id \notin Refused
                 PROVE  /\ t[n].id \in db
                        /\ Live(t, on, n) => t[n].id \in new \/ InData(t, t[n].id) \/ ToldBefore(t, t[n].id, n)
    BY DEF Answered
  <2>2. n + 1 \in 1..Len(s) /\ Kind(s, n + 1, "putReply") /\ t[n] = s[n + 1]
    BY <1>1, <1>3, <2>1
  <2>3. /\ t[n].id \in db
        /\ Live(s, on, n + 1) => t[n].id \in cache \/ InData(s, t[n].id) \/ ToldBefore(s, t[n].id, n + 1)
    BY <1>4, <2>1, <2>2 DEF Answered
  <2>4. n \in 1..Len(t) + 1
    BY <1>2, <2>1
  <2>5. Live(t, on, n) => Live(s, on, n + 1)
    BY LiveDrop
  <2> QED
    BY <2>3, <2>4, <2>5, <1>6, <1>8
<1>14. Held(t, new, db, on, held)
  <2>1. Live(t, on, 0) => Live(s, on, 0)
    BY LiveDrop
  <2> QED
    BY <1>4, <1>6, <1>8, <2>1 DEF Held
<1> QED
  BY <1>5, <1>6, <1>9, <1>10, <1>11, <1>12, <1>13, <1>14 DEF Flow, Covered

\* While the server does not serve the listen, only answers to puts count: each
\* is about an entry that is stored or refused.
LEMMA UnservedFlow ==
  ASSUME NEW s, NEW t, NEW cache, NEW new, NEW db, NEW on, NEW held,
         Flow(s, cache, db, on, held), new \subseteq cache, Arranged(t),
         \A n \in 1..Len(t) : ~Kind(t, n, "data") /\ ~Kind(t, n, "child"),
         \A n \in 1..Len(t) : Kind(t, n, "putReply") =>
           \E m \in 1..Len(s) : Kind(s, m, "putReply") /\ s[m].id = t[n].id,
         \A n : ~Live(t, FALSE, n)
  PROVE  Flow(t, new, db, FALSE, held)
<1>1. Covered(s, cache, db, on) /\ Answered(s, cache, db, on) /\ Held(s, cache, db, on, held)
  BY DEF Flow
<1>2. Covered(t, new, db, FALSE)
  BY <1>1 DEF Covered
<1>3. Answered(t, new, db, FALSE)
  <2>1. SUFFICES ASSUME NEW n \in 1..Len(t), Kind(t, n, "putReply")
                 PROVE  t[n].id \in db \cup Refused
    BY DEF Answered
  <2>2. PICK m \in 1..Len(s) : Kind(s, m, "putReply") /\ s[m].id = t[n].id
    BY <2>1
  <2> QED
    BY <1>1, <2>2 DEF Answered
<1>4. Held(t, new, db, FALSE, held)
  BY <1>1 DEF Held
<1> QED
  BY <1>2, <1>3, <1>4 DEF Flow

\* When the listen is cancelled nothing is known, and all that is left under
\* way are answers to puts and refusals.
LEMMA QuietFlow ==
  ASSUME NEW s, NEW t, NEW cache, NEW db, NEW on, NEW held,
         Flow(s, cache, db, on, held), Dropped(s, t), \A n \in 1..Len(t) : Quiet(t, n)
  PROVE  Flow(t, {}, db, FALSE, held)
<1>1. Arranged(t)
  BY DropArranged DEF Flow
<1>2. \A n \in 1..Len(t) : ~Kind(t, n, "listenRevoked") /\ ~Kind(t, n, "data") /\ ~Kind(t, n, "child")
  BY DEF Quiet, Kind
<1>3. \A n : ~Live(t, FALSE, n)
  BY <1>2 DEF Live
<1>4. ASSUME NEW n \in 1..Len(t), Kind(t, n, "putReply")
      PROVE  \E m \in 1..Len(s) : Kind(s, m, "putReply") /\ s[m].id = t[n].id
  BY <1>4, DropPlaces
<1> QED
  BY <1>1, <1>2, <1>3, <1>4, UnservedFlow

\* An answer that is the first message is about an entry the client has or
\* will get with the data of the listen.
LEMMA AnsweredFirst ==
  ASSUME NEW s, NEW cache, NEW db, NEW on, NEW held,
         Flow(s, cache, db, on, held), Len(s) \in Nat, Len(s) >= 1, s[1].kind = "putReply"
  PROVE  /\ s[1].id \in db \cup Refused
         /\ Held(s, cache, db, on, held \cup {s[1].id})
<1>1. Kind(s, 1, "putReply") /\ 1 \in 1..Len(s)
  BY DEF Kind
<1>2. ~ToldBefore(s, s[1].id, 1)
  BY DEF ToldBefore
<1>3. Answered(s, cache, db, on) /\ Held(s, cache, db, on, held)
  BY DEF Flow
<1>4. Live(s, on, 0) => Live(s, on, 1)
  <2>1. \A m \in 1..Len(s) : Kind(s, m, "listenRevoked") => 1 < m
    BY DEF Kind
  <2> QED
    BY <2>1 DEF Live
<1>5. \/ s[1].id \in Refused
      \/ s[1].id \in db /\ (Live(s, on, 0) => s[1].id \in cache \/ InData(s, s[1].id))
  BY <1>1, <1>2, <1>3, <1>4 DEF Answered
<1> QED
  BY <1>3, <1>5 DEF Held

-----------------------------------------------------------------------------
(* The server sends one more message *)

\* The messages before it are the same and say the same.
LEMMA ExtendSays ==
  ASSUME NEW s, NEW e, NEW t, Extended(s, e, t)
  PROVE  /\ \A n \in 1..Len(t) : n \in 1..Len(s) \/ n = Len(s) + 1
         /\ \A n \in 1..Len(s) : n \in 1..Len(t) /\ t[n] = s[n] /\ n < Len(s) + 1
         /\ Len(s) + 1 \in 1..Len(t) /\ t[Len(s) + 1] = e
         /\ \A kind : \A n \in 1..Len(s) : Kind(t, n, kind) <=> Kind(s, n, kind)
         /\ \A kind : Kind(t, Len(s) + 1, kind) <=> e.kind = kind
         /\ \A id : InData(s, id) => InData(t, id)
         /\ \A id, k : ToldBefore(s, id, k) => ToldBefore(t, id, k)
         /\ \A kind : Has(t, kind) <=> Has(s, kind) \/ e.kind = kind
<1>1. \A n \in 1..Len(t) : n \in 1..Len(s) \/ n = Len(s) + 1
  BY DEF Extended
<1>2. \A n \in 1..Len(s) : n \in 1..Len(t) /\ t[n] = s[n] /\ n < Len(s) + 1
  BY DEF Extended
<1>3. Len(s) + 1 \in 1..Len(t) /\ t[Len(s) + 1] = e
  BY DEF Extended
<1>4. \A kind : \A n \in 1..Len(s) : Kind(t, n, kind) <=> Kind(s, n, kind)
  BY <1>2 DEF Kind
<1>5. \A kind : Kind(t, Len(s) + 1, kind) <=> e.kind = kind
  BY <1>3 DEF Kind
<1>6. \A id : InData(s, id) => InData(t, id)
  BY <1>2, <1>4 DEF InData
<1>7. \A id, k : ToldBefore(s, id, k) => ToldBefore(t, id, k)
  BY <1>2, <1>4 DEF ToldBefore
<1>8. \A kind : Has(t, kind) <=> Has(s, kind) \/ e.kind = kind
  BY <1>1, <1>2, <1>3 DEF Has
<1> QED
  BY <1>1, <1>2, <1>3, <1>4, <1>5, <1>6, <1>7, <1>8

\* Only a message behind which the listen is revoked was sent while it was
\* served.
LEMMA LiveExtend ==
  ASSUME NEW s, NEW e, NEW t, Extended(s, e, t), e.kind # "listenRevoked",
         NEW on, NEW n, Live(t, on, n)
  PROVE  Live(s, on, n) /\ (n = Len(s) + 1 => on)
<1>1. CASE on
  BY <1>1 DEF Live
<1>2. CASE ~on
  <2>1. PICK m \in 1..Len(t) : /\ n < m /\ Kind(t, m, "listenRevoked")
                               /\ \A k \in 1..Len(t) : m < k => ~Kind(t, k, "listenReply")
    BY <1>2 DEF Live
  <2>2. m \in 1..Len(s) /\ Kind(s, m, "listenRevoked")
    BY <2>1, ExtendSays
  <2>3. \A k \in 1..Len(s) : m < k => ~Kind(s, k, "listenReply")
    BY <2>1, ExtendSays
  <2>4. n # Len(s) + 1
    BY <2>1, <2>2 DEF Extended
  <2> QED
    BY <2>1, <2>2, <2>3, <2>4 DEF Live
<1> QED
  BY <1>1, <1>2

\* An answer to a put is always in place behind the others, a child as long as
\* the listen is not revoked.
LEMMA ExtendArranged ==
  ASSUME NEW s, NEW e, NEW t, Arranged(s), Extended(s, e, t),
         \/ e.kind = "putReply"
         \/ e.kind = "child" /\ ~Has(s, "listenRevoked")
         \/ e.kind = "listenRevoked" /\ ~Has(s, "listenRevoked")
         \/ e.kind = "listenReply" /\ (~e.ok \/ ~Has(s, "listenRevoked"))
  PROVE  Arranged(t)
<1> DEFINE last == Len(s) + 1
<1>1. /\ \A n \in 1..Len(t) : n \in 1..Len(s) \/ n = last
      /\ \A n \in 1..Len(s) : n \in 1..Len(t) /\ t[n] = s[n] /\ n < last
      /\ last \in 1..Len(t) /\ t[last] = e
      /\ \A kind : \A n \in 1..Len(s) : Kind(t, n, kind) <=> Kind(s, n, kind)
      /\ \A kind : Kind(t, last, kind) <=> e.kind = kind
  BY ExtendSays
<1>2. IsSeq(t) /\ last \in Int /\ \A n \in 1..Len(t) : n \in Int /\ (last < n => FALSE)
  BY DEF Extended
<1> HIDE DEF last
<1>3. \A n \in 1..Len(s) : Quiet(s, n) => Quiet(t, n)
  BY <1>1 DEF Quiet
<1>4. Has(s, "listenRevoked") => Quiet(t, last)
  BY <1>1 DEF Quiet
<1>5. \A n \in 1..Len(s) : ~Has(s, "listenRevoked") => ~Kind(s, n, "listenRevoked")
  BY DEF Has, Kind
<1>6. Sole(t, "data") /\ Sole(t, "listenRevoked")
  BY <1>1, <1>5 DEF Arranged, Sole
<1>7. \A n \in 1..Len(t) : t[n].kind \in {"data", "child", "putReply", "listenReply", "listenRevoked"}
  BY <1>1 DEF Arranged
<1>8. ASSUME NEW m \in 1..Len(t), Kind(t, m, "data")
      PROVE  \E n \in 1..Len(t) : m < n /\ Kind(t, n, "listenReply")
  <2>1. m \in 1..Len(s) /\ Kind(s, m, "data")
    BY <1>1, <1>8
  <2>2. PICK n \in 1..Len(s) : m < n /\ Kind(s, n, "listenReply")
    BY <2>1 DEF Arranged
  <2> QED
    BY <1>1, <2>2
<1>9. ASSUME NEW m \in 1..Len(t), NEW n \in 1..Len(t), Kind(t, m, "data"), Kind(t, n, "child")
      PROVE  m < n
  <2>1. m \in 1..Len(s) /\ Kind(s, m, "data")
    BY <1>1, <1>9
  <2>2. CASE n = last
    BY <1>1, <2>1, <2>2
  <2>3. CASE n \in 1..Len(s)
    BY <1>1, <1>9, <2>1, <2>3 DEF Arranged
  <2> QED
    BY <1>1, <2>2, <2>3
<1>10. ASSUME NEW m \in 1..Len(t), NEW n \in 1..Len(t), Kind(t, m, "listenRevoked"), m < n
       PROVE  Quiet(t, n)
  <2>1. m # last
    BY <1>2, <1>10
  <2>2. m \in 1..Len(s) /\ Kind(s, m, "listenRevoked") /\ Has(s, "listenRevoked")
    BY <1>1, <1>5, <1>10, <2>1
  <2>3. CASE n = last
    BY <1>4, <2>2, <2>3
  <2>4. CASE n \in 1..Len(s)
    BY <1>3, <1>10, <2>2, <2>4 DEF Arranged
  <2> QED
    BY <1>1, <2>3, <2>4
<1> QED
  BY <1>2, <1>6, <1>7, <1>8, <1>9, <1>10 DEF Arranged

\* An answer to a put of an entry that is stored or refused.
LEMMA AnswerFlow ==
  ASSUME NEW s, NEW t, NEW cache, NEW db, NEW on, NEW held, NEW id,
         Flow(s, cache, db, on, held), Extended(s, PutReply(id), t), id \in db \cup Refused
  PROVE  Flow(t, cache, db, on, held)
<1> DEFINE e == PutReply(id)
           last == Len(s) + 1
<1>1. e.kind = "putReply" /\ e.id = id
  BY DEF PutReply
<1>2. /\ \A n \in 1..Len(t) : n \in 1..Len(s) \/ n = last
      /\ \A n \in 1..Len(s) : n \in 1..Len(t) /\ t[n] = s[n] /\ n < last
      /\ last \in 1..Len(t) /\ t[last] = e
      /\ \A kind : \A n \in 1..Len(s) : Kind(t, n, kind) <=> Kind(s, n, kind)
      /\ \A kind : Kind(t, last, kind) <=> e.kind = kind
      /\ \A x : InData(s, x) => InData(t, x)
      /\ \A x, k : ToldBefore(s, x, k) => ToldBefore(t, x, k)
  BY ONLY ExtendSays, Extended(s, PutReply(id), t)
<1>3. Len(t) = last /\ IsSeq(t)
  BY DEF Extended
<1>4. \A n : Live(t, on, n) => Live(s, on, n) /\ (n = last => on)
  BY <1>1, LiveExtend
<1>5. Arranged(s) /\ Covered(s, cache, db, on) /\ Answered(s, cache, db, on) /\ Held(s, cache, db, on, held)
  BY DEF Flow
<1>6. Arranged(t)
  BY <1>1, <1>5, ExtendArranged
<1> HIDE DEF e, last
<1>7. on => \A x \in db : x \in cache \/ InData(t, x) \/ ToldBefore(t, x, last)
  BY <1>2, <1>5 DEF Covered, last
<1>8. \A x : ToldBefore(t, x, last) => ToldBefore(t, x, Len(t) + 1)
  <2> SUFFICES ASSUME NEW x, NEW n \in 1..Len(t), n < last, Kind(t, n, "child"), t[n].id = x
               PROVE  ToldBefore(t, x, Len(t) + 1)
    BY DEF ToldBefore
  <2> n < Len(t) + 1
    BY <1>3
  <2> QED
    BY DEF ToldBefore
<1>9. \A n \in 1..Len(t) : t[n].kind # "putReply" => n \in 1..Len(s) /\ t[n] = s[n]
  BY <1>1, <1>2
<1>10. Covered(t, cache, db, on)
  BY <1>2, <1>5, <1>7, <1>8, <1>9 DEF Covered, Kind
<1>11. Answered(t, cache, db, on)
  <2>1. SUFFICES ASSUME NEW n \in 1..Len(t), Kind(t, n, "putReply"), t[n].id \notin Refused
                 PROVE  /\ t[n].id \in db
                        /\ Live(t, on, n) => t[n].id \in cache \/ InData(t, t[n].id) \/ ToldBefore(t, t[n].id, n)
    BY DEF Answered
  <2>2. CASE n = last
    BY <1>1, <1>2, <1>4, <1>7, <2>1, <2>2
  <2>3. CASE n \in 1..Len(s)
    BY <1>2, <1>4, <1>5, <2>1, <2>3 DEF Answered
  <2> QED
    BY <1>2, <2>2, <2>3
<1>12. Held(t, cache, db, on, held)
  BY <1>2, <1>4, <1>5 DEF Held
<1> QED
  BY <1>6, <1>10, <1>11, <1>12 DEF Flow

\* An entry is stored, and the listener is told if there is one.
LEMMA StoreUntold ==
  ASSUME NEW s, NEW cache, NEW db, NEW on, NEW held, NEW id,
         Flow(s, cache, db, on, held), on => id \in db
  PROVE  Flow(s, cache, db \cup {id}, on, held)
<1>1. CASE id \in db
  <2>1. db \cup {id} = db
    BY <1>1
  <2> QED
    BY <2>1
<1>2. CASE ~on
  BY <1>2 DEF Flow, Covered, Answered, Held
<1> QED
  BY <1>1, <1>2

LEMMA StoreTold ==
  ASSUME NEW s, NEW t, NEW cache, NEW db, NEW on, NEW held, NEW id,
         Flow(s, cache, db, on, held), Extended(s, Child(id), t), on, ~Has(s, "listenRevoked")
  PROVE  Flow(t, cache, db \cup {id}, on, held)
<1> DEFINE e == Child(id)
           last == Len(s) + 1
           more == db \cup {id}
<1>1. e.kind = "child" /\ e.id = id
  BY DEF Child
<1>2. /\ \A n \in 1..Len(t) : n \in 1..Len(s) \/ n = last
      /\ \A n \in 1..Len(s) : n \in 1..Len(t) /\ t[n] = s[n] /\ n < last
      /\ last \in 1..Len(t) /\ t[last] = e
      /\ \A kind : \A n \in 1..Len(s) : Kind(t, n, kind) <=> Kind(s, n, kind)
      /\ \A kind : Kind(t, last, kind) <=> e.kind = kind
      /\ \A x : InData(s, x) => InData(t, x)
      /\ \A x, k : ToldBefore(s, x, k) => ToldBefore(t, x, k)
  BY ONLY ExtendSays, Extended(s, Child(id), t)
<1>3. Len(t) = last /\ IsSeq(t) /\ last < Len(t) + 1 /\ \A n \in 1..Len(t) : n < Len(t) + 1
  BY DEF Extended
<1>4. db \subseteq more /\ id \in more /\ \A x \in more : x \in db \/ x = id
  OBVIOUS
<1>5. Arranged(s) /\ Covered(s, cache, db, on) /\ Answered(s, cache, db, on) /\ Held(s, cache, db, on, held)
  BY DEF Flow
<1>6. Arranged(t)
  BY <1>1, <1>5, ExtendArranged
<1>7. \A n : Live(s, on, n)
  BY DEF Live
<1> HIDE DEF e, last, more
<1>8. \A n \in 1..Len(t) : t[n].kind # "child" => n \in 1..Len(s) /\ t[n] = s[n]
  BY <1>1, <1>2
<1>9. \A x \in db : x \in cache \/ InData(t, x) \/ ToldBefore(t, x, last)
  BY <1>2, <1>5 DEF Covered, last
<1>10. \A x : ToldBefore(t, x, last) => ToldBefore(t, x, Len(t) + 1)
  BY <1>2, <1>3 DEF ToldBefore
<1>11. ToldBefore(t, id, Len(t) + 1)
  BY <1>1, <1>2, <1>3 DEF ToldBefore
<1>12. Covered(t, cache, more, on)
  <2>1. \A n \in 1..Len(t) : Kind(t, n, "data") => cache \subseteq t[n].entries /\ t[n].entries \subseteq db
    BY <1>5, <1>8 DEF Covered, Kind
  <2>2. \A n \in 1..Len(t) : Kind(t, n, "child") => t[n].id \in more
    BY <1>1, <1>2, <1>4, <1>5 DEF Covered
  <2>3. cache \subseteq db
    BY <1>5 DEF Covered
  <2> QED
    BY <2>1, <2>2, <2>3, <1>4, <1>9, <1>10, <1>11 DEF Covered
<1>13. Answered(t, cache, more, on)
  <2>1. SUFFICES ASSUME NEW n \in 1..Len(t), Kind(t, n, "putReply"), t[n].id \notin Refused
                 PROVE  /\ t[n].id \in more
                        /\ t[n].id \in cache \/ InData(t, t[n].id) \/ ToldBefore(t, t[n].id, n)
    BY DEF Answered
  <2>2. n \in 1..Len(s) /\ t[n] = s[n] /\ Kind(s, n, "putReply")
    BY <1>8, <2>1 DEF Kind
  <2>3. /\ t[n].id \in db
        /\ t[n].id \in cache \/ InData(s, t[n].id) \/ ToldBefore(s, t[n].id, n)
    BY <1>5, <1>7, <2>1, <2>2 DEF Answered
  <2> QED
    BY <1>2, <1>4, <2>3
<1>14. Held(t, cache, more, on, held)
  BY <1>2, <1>4, <1>5, <1>7 DEF Held
<1>15. Flow(t, cache, more, on, held)
  BY <1>6, <1>12, <1>13, <1>14 DEF Flow
<1> QED
  BY <1>15 DEF more

\* The data of the listen and its answer.
LEMMA FetchFlow ==
  ASSUME NEW s, NEW u, NEW t, NEW cache, NEW db, NEW held, NEW l,
         Flow(s, cache, db, FALSE, held), \A n \in 1..Len(s) : Quiet(s, n),
         Extended(s, Data(db), u), Extended(u, ListenReply(l, TRUE), t)
  PROVE  Flow(t, cache, db, TRUE, held)
<1> DEFINE d == Data(db)
           r == ListenReply(l, TRUE)
           k == Len(s) + 1
           z == Len(s) + 2
<1>1. d.kind = "data" /\ d.entries = db /\ r.kind = "listenReply" /\ r.ok
  BY DEF Data, ListenReply
<1>2. /\ \A n \in 1..Len(u) : n \in 1..Len(s) \/ n = k
      /\ \A n \in 1..Len(s) : n \in 1..Len(u) /\ u[n] = s[n]
      /\ k \in 1..Len(u) /\ u[k] = d
  BY ONLY ExtendSays, Extended(s, Data(db), u)
<1>3. Len(u) + 1 = z /\ k < z /\ IsSeq(t) /\ Extended(u, r, t)
  BY DEF Extended
<1>4. Arranged(s) /\ Covered(s, cache, db, FALSE) /\ Answered(s, cache, db, FALSE) /\ Held(s, cache, db, FALSE, held)
  BY DEF Flow
<1> HIDE DEF d, r, k, z
<1>5. /\ \A n \in 1..Len(t) : n \in 1..Len(u) \/ n = Len(u) + 1
      /\ \A n \in 1..Len(u) : n \in 1..Len(t) /\ t[n] = u[n]
      /\ Len(u) + 1 \in 1..Len(t) /\ t[Len(u) + 1] = r
  BY <1>3, ExtendSays
<1>6. /\ \A n \in 1..Len(t) : n \in 1..Len(u) \/ n = z
      /\ \A n \in 1..Len(u) : n \in 1..Len(t) /\ t[n] = u[n]
      /\ z \in 1..Len(t) /\ t[z] = r
  BY <1>3, <1>5
<1>7. /\ \A n \in 1..Len(t) : (n \in 1..Len(s) /\ t[n] = s[n]) \/ n = k \/ n = z
      /\ k \in 1..Len(t) /\ t[k] = d
      /\ z \in 1..Len(t) /\ t[z] = r
  BY <1>2, <1>6
<1>8. \A n \in 1..Len(s) : s[n].kind \in {"putReply", "listenReply"}
  BY DEF Quiet, Kind
<1>9. /\ \A n \in 1..Len(t) : Kind(t, n, "data") => n = k
      /\ \A n \in 1..Len(t) : ~Kind(t, n, "child") /\ ~Kind(t, n, "listenRevoked")
      /\ \A n \in 1..Len(t) : Kind(t, n, "putReply") => n \in 1..Len(s) /\ t[n] = s[n] /\ Kind(s, n, "putReply")
      /\ \A n \in 1..Len(t) : t[n].kind \in {"data", "child", "putReply", "listenReply", "listenRevoked"}
      /\ Kind(t, z, "listenReply")
  BY <1>1, <1>7, <1>8 DEF Kind
<1>10. \A id \in db : InData(t, id)
  BY <1>1, <1>7 DEF InData, Kind
<1>11. Arranged(t)
  BY <1>3, <1>7, <1>9 DEF Arranged, Sole
<1>12. Covered(t, cache, db, TRUE)
  BY <1>1, <1>4, <1>7, <1>9, <1>10 DEF Covered
<1>13. Answered(t, cache, db, TRUE)
  BY <1>4, <1>9, <1>10 DEF Answered
<1>14. Held(t, cache, db, TRUE, held)
  BY <1>4, <1>10 DEF Held
<1> QED
  BY <1>11, <1>12, <1>13, <1>14 DEF Flow

\* A listen that is not served yet is refused, or revoked and refused.
LEMMA RefuseFlow ==
  ASSUME NEW s, NEW t, NEW cache, NEW db, NEW held, NEW l,
         Flow(s, cache, db, FALSE, held), \A n \in 1..Len(s) : Quiet(s, n),
         \/ Extended(s, ListenReply(l, FALSE), t)
         \/ \E u : Extended(s, ListenRevoked, u) /\ Extended(u, ListenReply(l, FALSE), t)
  PROVE  Flow(t, cache, db, FALSE, held)
<1> DEFINE r == ListenReply(l, FALSE)
           v == ListenRevoked
           last == Len(t)
           Placed == /\ Arranged(t)
                     /\ last \in 1..Len(t) /\ Kind(t, last, "listenReply")
                     /\ \A n \in 1..Len(t) : n <= last
                     /\ \A n \in 1..Len(t) : ~Kind(t, n, "data") /\ ~Kind(t, n, "child")
                     /\ \A n \in 1..Len(t) : Kind(t, n, "putReply") => n \in 1..Len(s) /\ t[n] = s[n]
<1>1. r.kind = "listenReply" /\ ~r.ok /\ v.kind = "listenRevoked"
  BY DEF ListenReply, ListenRevoked
<1>2. Extended(s, r, t) \/ \E u : Extended(s, v, u) /\ Extended(u, r, t)
  OBVIOUS
<1> HIDE DEF r, v
<1>3. Arranged(s) /\ \A n \in 1..Len(s) : s[n].kind \in {"putReply", "listenReply"}
  BY DEF Flow, Quiet, Kind
<1>4. ~Has(s, "listenRevoked")
  BY <1>3 DEF Has
<1>5. Placed
  <2>1. CASE Extended(s, r, t)
    <3>1. Arranged(t)
      BY <1>1, <1>3, <2>1, ExtendArranged
    <3>2. /\ \A n \in 1..Len(t) : (n \in 1..Len(s) /\ t[n] = s[n]) \/ t[n] = r
          /\ last \in 1..Len(t) /\ t[last] = r /\ \A n \in 1..Len(t) : n <= last
      BY <2>1 DEF Extended
    <3> QED
      BY <1>1, <1>3, <3>1, <3>2 DEF Kind
  <2>2. ASSUME NEW u, Extended(s, v, u), Extended(u, r, t)
        PROVE  Placed
    <3>1. Arranged(u)
      BY <1>1, <1>3, <1>4, <2>2, ExtendArranged
    <3>2. Arranged(t)
      BY <1>1, <2>2, <3>1, ExtendArranged
    <3>3. /\ \A n \in 1..Len(t) : (n \in 1..Len(s) /\ t[n] = s[n]) \/ t[n] = v \/ t[n] = r
          /\ last \in 1..Len(t) /\ t[last] = r /\ \A n \in 1..Len(t) : n <= last
      BY <2>2 DEF Extended
    <3> QED
      BY <1>1, <1>3, <3>2, <3>3 DEF Kind
  <2> QED
    BY <1>2, <2>1, <2>2
<1>6. \A n : ~Live(t, FALSE, n)
  <2>1. SUFFICES ASSUME NEW m \in 1..Len(t), Kind(t, m, "listenRevoked"),
                        \A k \in 1..Len(t) : m < k => ~Kind(t, k, "listenReply")
                 PROVE  FALSE
    BY DEF Live
  <2>2. m # last
    BY <1>5, <2>1 DEF Kind
  <2>3. m < last
    BY <1>5, <2>2
  <2> QED
    BY <1>5, <2>1, <2>3
<1>7. \A n \in 1..Len(t) : Kind(t, n, "putReply") => Kind(s, n, "putReply") /\ s[n].id = t[n].id /\ n \in 1..Len(s)
  BY <1>5 DEF Kind
<1> QED
  BY <1>5, <1>6, <1>7, UnservedFlow

\* A listen that is served is revoked.
LEMMA RevokeFlow ==
  ASSUME NEW s, NEW t, NEW cache, NEW db, NEW held,
         Flow(s, cache, db, TRUE, held), ~Has(s, "listenRevoked"),
         Extended(s, ListenRevoked, t)
  PROVE  Flow(t, cache, db, FALSE, held)
<1> DEFINE e == ListenRevoked
<1>1. e.kind = "listenRevoked"
  BY DEF ListenRevoked
<1>2. /\ \A n \in 1..Len(t) : n \in 1..Len(s) \/ n = Len(s) + 1
      /\ \A n \in 1..Len(s) : n \in 1..Len(t) /\ t[n] = s[n]
      /\ t[Len(s) + 1] = e
      /\ \A x : InData(s, x) => InData(t, x)
      /\ \A x, k : ToldBefore(s, x, k) => ToldBefore(t, x, k)
  BY ONLY ExtendSays, Extended(s, ListenRevoked, t)
<1>3. Arranged(s) /\ Covered(s, cache, db, TRUE) /\ Answered(s, cache, db, TRUE) /\ Held(s, cache, db, TRUE, held)
  BY DEF Flow
<1>4. Arranged(t)
  BY <1>1, <1>3, ExtendArranged
<1>5. \A n : Live(s, TRUE, n)
  BY DEF Live
<1> HIDE DEF e
<1>6. \A n \in 1..Len(t) : t[n].kind # "listenRevoked" => n \in 1..Len(s) /\ t[n] = s[n]
  BY <1>1, <1>2
<1>7. Covered(t, cache, db, FALSE)
  BY <1>3, <1>6 DEF Covered, Kind
<1>8. Answered(t, cache, db, FALSE)
  <2>1. SUFFICES ASSUME NEW n \in 1..Len(t), Kind(t, n, "putReply"), t[n].id \notin Refused
                 PROVE  /\ t[n].id \in db
                        /\ t[n].id \in cache \/ InData(t, t[n].id) \/ ToldBefore(t, t[n].id, n)
    BY DEF Answered
  <2>2. n \in 1..Len(s) /\ t[n] = s[n] /\ Kind(s, n, "putReply")
    BY <1>6, <2>1 DEF Kind
  <2> QED
    BY <1>2, <1>3, <1>5, <2>1, <2>2 DEF Answered
<1>9. Held(t, cache, db, FALSE, held)
  BY <1>2, <1>3, <1>5 DEF Held
<1> QED
  BY <1>4, <1>7, <1>8, <1>9 DEF Flow

\* A connection that is gone has no messages, no listener and no data.
LEMMA EmptyFlow ==
  ASSUME NEW s, NEW cache, NEW db, NEW on, NEW held, Flow(s, cache, db, on, held)
  PROVE  Flow(<<>>, cache, db, FALSE, held) /\ Flow(<<>>, {}, db, FALSE, {})
<1>1. IsSeq(<<>>) /\ ~\E n \in 1..Len(<<>>) : TRUE
  <2>1. <<>> \in Seq({}) /\ Len(<<>>) = 0
    BY EmptySeq
  <2> QED
    BY <2>1 DEF IsSeq
<1>2. Arranged(<<>>)
  BY <1>1 DEF Arranged, Sole
<1>3. \A n : ~Live(<<>>, FALSE, n)
  BY <1>1 DEF Live
<1>4. Flow(<<>>, cache, db, FALSE, held)
  BY <1>1, <1>2, <1>3, UnservedFlow
<1>5. Flow(<<>>, {}, db, FALSE, held)
  BY <1>1, <1>2, <1>3, UnservedFlow
<1>6. Flow(<<>>, {}, db, FALSE, {})
  BY <1>5 DEF Flow, Held
<1> QED
  BY <1>4, <1>6

-----------------------------------------------------------------------------
(* The talk about the listen *)

\* The client takes the first message.
LEMMA DropTalk ==
  ASSUME NEW s, NEW t, NEW l, NEW c, NEW out, NEW on, Talk(s, l, c, out, on), Dropped(s, t)
  PROVE  /\ Talk(t, l, c, out, on)
         /\ Current(s, l) <=> Current(t, l) \/ (Kind(s, 1, "listenReply") /\ s[1].spec = l)
         /\ Stale(s, l) <=> Stale(t, l) \/ (Kind(s, 1, "listenReply") /\ s[1].spec # l)
         /\ Kind(s, 1, "listenReply") => ~(IF s[1].spec = l THEN Current(t, l) ELSE Stale(t, l))
         /\ Ending(s, l) <=> Ending(t, l) \/ Kind(s, 1, "listenRevoked") \/ Refusal(s, l, 1)
<1>1. /\ 1 \in 1..Len(s)
      /\ \A n \in 1..Len(t) : n + 1 \in 1..Len(s) /\ t[n] = s[n + 1] /\ n + 1 # 1
      /\ \A n \in 1..Len(s) : n # 1 => n - 1 \in 1..Len(t) /\ s[n] = t[n - 1] /\ (n - 1) + 1 = n
      /\ \A m, n \in 1..Len(t) : (m < n <=> m + 1 < n + 1) /\ (m + 1 = n + 1 => m = n)
  BY DropPlaces
<1>2. \A kind : \A n \in 1..Len(t) : Kind(t, n, kind) <=> Kind(s, n + 1, kind)
  BY DropPlaces
<1>3. \A n \in 1..Len(t) : Quiet(t, n) <=> Quiet(s, n + 1)
  BY DropPlaces
<1>4. \A n \in 1..Len(t) : Refusal(t, l, n) <=> Refusal(s, l, n + 1)
  BY <1>1, <1>2 DEF Refusal
<1>5. Current(s, l) <=> Current(t, l) \/ (Kind(s, 1, "listenReply") /\ s[1].spec = l)
  <2>1. ASSUME Current(s, l)
        PROVE  Current(t, l) \/ (Kind(s, 1, "listenReply") /\ s[1].spec = l)
    <3>1. PICK n \in 1..Len(s) : Kind(s, n, "listenReply") /\ s[n].spec = l
      BY <2>1 DEF Current
    <3> QED
      BY <3>1, <1>1, <1>2 DEF Current
  <2> QED
    BY <1>1, <1>2, <2>1 DEF Current
<1>6. Stale(s, l) <=> Stale(t, l) \/ (Kind(s, 1, "listenReply") /\ s[1].spec # l)
  <2>1. ASSUME Stale(s, l)
        PROVE  Stale(t, l) \/ (Kind(s, 1, "listenReply") /\ s[1].spec # l)
    <3>1. PICK n \in 1..Len(s) : Kind(s, n, "listenReply") /\ s[n].spec # l
      BY <2>1 DEF Stale
    <3> QED
      BY <3>1, <1>1, <1>2 DEF Stale
  <2> QED
    BY <1>1, <1>2, <2>1 DEF Stale
<1>7. Ending(s, l) <=> Ending(t, l) \/ Kind(s, 1, "listenRevoked") \/ Refusal(s, l, 1)
  <2>1. ASSUME Ending(s, l)
        PROVE  Ending(t, l) \/ Kind(s, 1, "listenRevoked") \/ Refusal(s, l, 1)
    <3>1. PICK n \in 1..Len(s) : Kind(s, n, "listenRevoked") \/ Refusal(s, l, n)
      BY <2>1 DEF Ending
    <3>2. CASE n = 1
      BY <3>1, <3>2
    <3>3. CASE n # 1
      <4>1. n - 1 \in 1..Len(t) /\ (n - 1) + 1 = n
        BY <1>1, <3>3
      <4>2. Kind(t, n - 1, "listenRevoked") \/ Refusal(t, l, n - 1)
        BY <1>2, <1>4, <3>1, <4>1
      <4> QED
        BY <4>1, <4>2 DEF Ending
    <3> QED
      BY <3>2, <3>3
  <2> QED
    BY <1>1, <1>2, <1>4, <2>1 DEF Ending
<1>8. \A m, n \in 1..Len(s) : Kind(s, m, "listenReply") /\ Kind(s, n, "listenReply") =>
        ((s[m].spec = l <=> s[n].spec = l) => m = n)
  BY DEF Talk
<1>9. Kind(s, 1, "listenReply") => ~(IF s[1].spec = l THEN Current(t, l) ELSE Stale(t, l))
  BY <1>1, <1>2, <1>8 DEF Current, Stale
<1>10. \A m, n \in 1..Len(t) : Kind(t, m, "listenReply") /\ Kind(t, n, "listenReply") =>
         ((t[m].spec = l <=> t[n].spec = l) => m = n)
  <2> TAKE m, n \in 1..Len(t)
  <2>1. m + 1 \in 1..Len(s) /\ n + 1 \in 1..Len(s) /\ t[m] = s[m + 1] /\ t[n] = s[n + 1]
    BY <1>1
  <2> QED
    BY <1>1, <1>2, <1>8, <2>1
<1>11. \A m, n \in 1..Len(t) : Kind(t, m, "listenRevoked") /\ Kind(t, n, "listenReply") /\ m < n =>
         t[n].spec = l
  <2> TAKE m, n \in 1..Len(t)
  <2>1. m + 1 \in 1..Len(s) /\ n + 1 \in 1..Len(s) /\ t[n] = s[n + 1] /\ (m < n => m + 1 < n + 1)
    BY <1>1
  <2> QED
    BY <1>2, <2>1 DEF Talk
<1>12. \A m, n \in 1..Len(t) : Refusal(t, l, m) /\ m < n => Quiet(t, n)
  <2> TAKE m, n \in 1..Len(t)
  <2>1. m + 1 \in 1..Len(s) /\ n + 1 \in 1..Len(s) /\ (m < n => m + 1 < n + 1)
    BY <1>1
  <2> QED
    BY <1>3, <1>4, <2>1 DEF Talk
<1>13. \A n \in 1..Len(t) : Kind(t, n, "listenReply") => t[n].spec \in 1..c
  BY <1>1, <1>2 DEF Talk
<1>14. out \/ l = 0 => \A n \in 1..Len(t) : Quiet(t, n)
  BY <1>1, <1>3 DEF Talk
<1>15. Talk(t, l, c, out, on)
  BY <1>5, <1>7, <1>10, <1>11, <1>12, <1>13, <1>14 DEF Talk
<1> QED
  BY <1>5, <1>6, <1>7, <1>9, <1>15

\* It takes the message that cancels the listen.
LEMMA CancelTalk ==
  ASSUME NEW s, NEW t, NEW l, NEW c \in Nat, NEW out, NEW on,
         Talk(s, l, c, out, on), Arranged(s), Dropped(s, t),
         Kind(s, 1, "listenRevoked") \/ Refusal(s, l, 1)
  PROVE  /\ \A n \in 1..Len(t) : Quiet(t, n)
         /\ ~out /\ ~on /\ Talk(t, 0, c, FALSE, FALSE) /\ ~Current(t, 0)
         /\ Kind(s, 1, "listenRevoked") => (Stale(t, 0) <=> Current(s, l)) /\ ~Stale(s, l)
         /\ Refusal(s, l, 1) => (Stale(t, 0) <=> Stale(s, l)) /\ Current(s, l)
<1>1. /\ 1 \in 1..Len(s)
      /\ \A n \in 1..Len(t) : n + 1 \in 1..Len(s) /\ t[n] = s[n + 1] /\ n + 1 # 1 /\ 1 < n + 1
      /\ \A n \in 1..Len(s) : n # 1 => n - 1 \in 1..Len(t) /\ s[n] = t[n - 1] /\ (n - 1) + 1 = n
      /\ \A m, n \in 1..Len(t) : m + 1 = n + 1 => m = n
  BY DropPlaces
<1>2. \A kind : \A n \in 1..Len(t) : Kind(t, n, kind) <=> Kind(s, n + 1, kind)
  BY DropPlaces
<1>3. \A n \in 1..Len(t) : Quiet(t, n) <=> Quiet(s, n + 1)
  BY DropPlaces
<1>4. \A n \in 1..Len(t) : Quiet(t, n)
  <2>1. CASE Kind(s, 1, "listenRevoked")
    BY <1>1, <1>3, <2>1 DEF Arranged
  <2>2. CASE Refusal(s, l, 1)
    BY <1>1, <1>3, <2>2 DEF Talk
  <2> QED
    BY <2>1, <2>2
<1>5. ~out /\ ~on
  <2>1. ~on
    BY <1>1 DEF Talk, Ending
  <2>2. CASE Kind(s, 1, "listenRevoked")
    <3>1. ~Quiet(s, 1)
      BY <2>2 DEF Quiet, Kind
    <3> QED
      BY <1>1, <2>1, <3>1 DEF Talk
  <2>3. CASE Refusal(s, l, 1)
    BY <1>1, <2>1, <2>3 DEF Talk, Refusal, Current
  <2> QED
    BY <2>2, <2>3
<1>6. \A n \in 1..Len(t) : Kind(t, n, "listenReply") => t[n].spec \in 1..c /\ t[n].spec # 0
  BY <1>1, <1>2 DEF Talk
<1>7. \A n \in 1..Len(t) : Kind(t, n, "listenReply") =>
        IF Kind(s, 1, "listenRevoked") THEN t[n].spec = l ELSE t[n].spec # l
  <2> TAKE n \in 1..Len(t)
  <2>1. n + 1 \in 1..Len(s) /\ t[n] = s[n + 1] /\ n + 1 # 1 /\ 1 < n + 1
    BY <1>1
  <2> QED
    BY <1>1, <1>2, <2>1 DEF Talk, Refusal
<1>8. \A m, n \in 1..Len(t) : Kind(t, m, "listenReply") /\ Kind(t, n, "listenReply") => m = n
  <2> TAKE m, n \in 1..Len(t)
  <2>1. m + 1 \in 1..Len(s) /\ n + 1 \in 1..Len(s) /\ t[m] = s[m + 1] /\ t[n] = s[n + 1]
    BY <1>1
  <2> QED
    BY <1>1, <1>2, <1>7, <2>1 DEF Talk
<1>9. ~Current(t, 0) /\ (Stale(t, 0) <=> \E n \in 1..Len(t) : Kind(t, n, "listenReply"))
  BY <1>6 DEF Current, Stale
<1>10. \A n \in 1..Len(t) : ~Kind(t, n, "listenRevoked") /\ ~Refusal(t, 0, n)
  BY <1>4, <1>6 DEF Quiet, Kind, Refusal
<1>11. Talk(t, 0, c, FALSE, FALSE)
  BY <1>4, <1>6, <1>8, <1>9, <1>10 DEF Talk, Ending
<1>12. ASSUME Kind(s, 1, "listenRevoked")
       PROVE  (Stale(t, 0) <=> Current(s, l)) /\ ~Stale(s, l)
  <2>1. ~Kind(s, 1, "listenReply")
    BY <1>12 DEF Kind
  <2>2. (Current(s, l) <=> Current(t, l)) /\ (Stale(s, l) <=> Stale(t, l))
    BY <2>1, DropTalk
  <2>3. (Current(t, l) <=> \E n \in 1..Len(t) : Kind(t, n, "listenReply")) /\ ~Stale(t, l)
    BY <1>7, <1>12 DEF Current, Stale
  <2> QED
    BY <1>9, <2>2, <2>3
<1>13. ASSUME Refusal(s, l, 1)
       PROVE  (Stale(t, 0) <=> Stale(s, l)) /\ Current(s, l)
  <2>1. Kind(s, 1, "listenReply") /\ s[1].spec = l /\ ~Kind(s, 1, "listenRevoked")
    BY <1>13 DEF Kind, Refusal
  <2>2. Current(s, l) /\ (Stale(s, l) <=> Stale(t, l))
    BY <2>1, DropTalk
  <2>3. Stale(t, l) <=> \E n \in 1..Len(t) : Kind(t, n, "listenReply")
    BY <1>7, <2>1 DEF Stale
  <2> QED
    BY <1>9, <2>2, <2>3
<1> QED
  BY <1>4, <1>5, <1>9, <1>11, <1>12, <1>13

\* The server answers a put, or tells the listener of an entry.
LEMMA ExtendTalk ==
  ASSUME NEW s, NEW e, NEW t, NEW l, NEW c, NEW out, NEW on,
         Talk(s, l, c, out, on), Extended(s, e, t), e.kind = "putReply" \/ (e.kind = "child" /\ on)
  PROVE  /\ Talk(t, l, c, out, on)
         /\ Current(s, l) <=> Current(t, l)
         /\ Stale(s, l) <=> Stale(t, l)
         /\ Ending(s, l) <=> Ending(t, l)
<1> DEFINE last == Len(s) + 1
<1>1. /\ \A n \in 1..Len(t) : n \in 1..Len(s) \/ n = last
      /\ \A n \in 1..Len(s) : n \in 1..Len(t) /\ t[n] = s[n]
      /\ \A kind : \A n \in 1..Len(s) : Kind(t, n, kind) <=> Kind(s, n, kind)
      /\ \A kind : Kind(t, last, kind) <=> e.kind = kind
  BY ExtendSays
<1>2. /\ last \in 1..Len(t) /\ \A n \in 1..Len(t) : ~(last < n)
  BY DEF Extended
<1> HIDE DEF last
<1>3. \A n \in 1..Len(t) : Kind(t, n, "listenReply") \/ Kind(t, n, "listenRevoked") => n \in 1..Len(s)
  BY <1>1
<1>4. \A n \in 1..Len(s) : (Quiet(t, n) <=> Quiet(s, n)) /\ (Refusal(t, l, n) <=> Refusal(s, l, n))
  BY <1>1 DEF Quiet, Refusal
<1>5. (Current(s, l) <=> Current(t, l)) /\ (Stale(s, l) <=> Stale(t, l))
  BY <1>1, <1>3 DEF Current, Stale
<1>6. \A n \in 1..Len(t) : Refusal(t, l, n) => n \in 1..Len(s)
  BY <1>3 DEF Refusal
<1>7. Ending(s, l) <=> Ending(t, l)
  BY <1>1, <1>3, <1>4, <1>6 DEF Ending
<1>8. ~on => Quiet(t, last)
  BY <1>1 DEF Quiet
<1>9. \A n \in 1..Len(t) : Kind(t, n, "listenReply") => t[n].spec \in 1..c
  BY <1>1, <1>3 DEF Talk
<1>10. \A m, n \in 1..Len(t) : Kind(t, m, "listenReply") /\ Kind(t, n, "listenReply") =>
         ((t[m].spec = l <=> t[n].spec = l) => m = n)
  BY <1>1, <1>3 DEF Talk
<1>11. out \/ l = 0 => \A n \in 1..Len(t) : Quiet(t, n)
  <2>1. out \/ l = 0 => ~on
    BY DEF Talk
  <2> QED
    BY <1>1, <1>4, <1>8, <2>1 DEF Talk
<1>12. \A m, n \in 1..Len(t) : Kind(t, m, "listenRevoked") /\ Kind(t, n, "listenReply") /\ m < n =>
         t[n].spec = l
  BY <1>1, <1>3 DEF Talk
<1>13. \A m, n \in 1..Len(t) : Refusal(t, l, m) /\ m < n => Quiet(t, n)
  <2> SUFFICES ASSUME NEW m \in 1..Len(t), NEW n \in 1..Len(t), Refusal(t, l, m), m < n
               PROVE  Quiet(t, n)
    OBVIOUS
  <2>1. m \in 1..Len(s) /\ Refusal(s, l, m)
    BY <1>4, <1>6
  <2>2. Ending(s, l) /\ ~on
    BY <2>1 DEF Ending, Talk
  <2> QED
    BY <1>1, <1>4, <1>8, <2>1, <2>2 DEF Talk
<1>14. Talk(t, l, c, out, on)
  BY <1>5, <1>7, <1>9, <1>10, <1>11, <1>12, <1>13 DEF Talk
<1> QED
  BY <1>5, <1>7, <1>14

\* It answers the listen, whether it also sent its data, or revoked it, or not.
Replied(s, t, l, ok) ==
  /\ \A n \in 1..Len(s) : n \in 1..Len(t) /\ t[n] = s[n]
  /\ Len(t) \in 1..Len(t) /\ \A n \in 1..Len(t) : ~(Len(t) < n)
  /\ t[Len(t)].kind = "listenReply" /\ t[Len(t)].spec = l /\ t[Len(t)].ok = ok
  /\ \A n \in 1..Len(t) : Kind(t, n, "listenReply") => n \in 1..Len(s) \/ n = Len(t)
  /\ ok => ~Has(t, "listenRevoked")

LEMMA ReplyTalk ==
  ASSUME NEW s, NEW t, NEW l, NEW c \in Nat, NEW ok \in BOOLEAN, l \in 1..c,
         Talk(s, l, c, TRUE, FALSE), Replied(s, t, l, ok)
  PROVE  /\ Talk(t, l, c, FALSE, ok)
         /\ ~Current(s, l) /\ Current(t, l)
         /\ Stale(s, l) <=> Stale(t, l)
         /\ ok \/ Ending(t, l)
<1> DEFINE last == Len(t)
<1>1. /\ \A n \in 1..Len(s) : n \in 1..Len(t) /\ t[n] = s[n]
      /\ last \in 1..Len(t) /\ \A n \in 1..Len(t) : ~(last < n)
      /\ t[last].kind = "listenReply" /\ t[last].spec = l /\ t[last].ok = ok
      /\ \A n \in 1..Len(t) : Kind(t, n, "listenReply") => n \in 1..Len(s) \/ n = last
      /\ ok => ~Has(t, "listenRevoked")
  BY DEF Replied
<1> HIDE DEF last
<1>2. Kind(t, last, "listenReply") /\ (Refusal(t, l, last) <=> ~ok)
  BY <1>1 DEF Kind, Refusal
<1>3. \A kind : \A n \in 1..Len(s) : Kind(t, n, kind) <=> Kind(s, n, kind)
  BY <1>1 DEF Kind
<1>4. ~Current(s, l) /\ \A n \in 1..Len(s) : Quiet(s, n)
  BY DEF Talk
<1>5. \A n \in 1..Len(s) : ~Kind(t, n, "listenRevoked")
  BY <1>3, <1>4 DEF Quiet, Kind
<1>6. \A n \in 1..Len(t) : Kind(t, n, "listenReply") =>
        (n \in 1..Len(s) /\ Kind(s, n, "listenReply") /\ t[n] = s[n] /\ t[n].spec # l) \/ n = last
  BY <1>1, <1>3, <1>4 DEF Current
<1>7. Current(t, l)
  BY <1>1, <1>2 DEF Current
<1>8. Stale(s, l) <=> Stale(t, l)
  BY <1>1, <1>3, <1>6 DEF Stale
<1>9. \A n \in 1..Len(t) : Refusal(t, l, n) => n = last /\ ~ok
  BY <1>2, <1>6 DEF Refusal
<1>10. Ending(t, l) => ~ok
  BY <1>1, <1>9 DEF Ending, Has, Kind
<1>11. ok \/ Ending(t, l)
  BY <1>1, <1>2 DEF Ending
<1>12. \A n \in 1..Len(t) : Kind(t, n, "listenReply") => t[n].spec \in 1..c
  BY <1>1, <1>6 DEF Talk
<1>13. \A m, n \in 1..Len(t) : Kind(t, m, "listenReply") /\ Kind(t, n, "listenReply") =>
         ((t[m].spec = l <=> t[n].spec = l) => m = n)
  BY <1>1, <1>6 DEF Talk
<1>14. \A m, n \in 1..Len(t) : Kind(t, m, "listenRevoked") /\ Kind(t, n, "listenReply") /\ m < n =>
         t[n].spec = l
  <2> SUFFICES ASSUME NEW m \in 1..Len(t), NEW n \in 1..Len(t), m < n,
                      Kind(t, m, "listenRevoked"), Kind(t, n, "listenReply"), n # last
               PROVE  FALSE
    BY <1>1
  <2>1. n \in 1..Len(s)
    BY <1>6
  <2>2. m \in 1..Len(s)
    BY <2>1
  <2> QED
    BY <1>5, <2>2
<1>15. \A m, n \in 1..Len(t) : Refusal(t, l, m) /\ m < n => Quiet(t, n)
  BY <1>1, <1>9
<1>16. l # 0
  OBVIOUS
<1>17. Talk(t, l, c, FALSE, ok)
  BY <1>10, <1>12, <1>13, <1>14, <1>15, <1>16 DEF Talk
<1> QED
  BY <1>4, <1>7, <1>8, <1>11, <1>17

\* It revokes a listen that it serves.
LEMMA RevokeTalk ==
  ASSUME NEW s, NEW t, NEW l, NEW c,
         Talk(s, l, c, FALSE, TRUE), Extended(s, ListenRevoked, t)
  PROVE  /\ Talk(t, l, c, FALSE, FALSE)
         /\ Current(s, l) <=> Current(t, l)
         /\ Stale(s, l) <=> Stale(t, l)
         /\ Ending(t, l)
<1> DEFINE last == Len(s) + 1
           e == ListenRevoked
<1>1. e.kind = "listenRevoked" /\ e.kind # "listenReply"
  BY DEF ListenRevoked
<1>2. Extended(s, e, t)
  OBVIOUS
<1>3. \A n \in 1..Len(t) : ~(last < n)
  BY DEF Extended
<1> HIDE DEF e
<1>4. /\ \A n \in 1..Len(t) : n \in 1..Len(s) \/ n = last
      /\ \A n \in 1..Len(s) : n \in 1..Len(t) /\ t[n] = s[n]
      /\ \A kind : \A n \in 1..Len(s) : Kind(t, n, kind) <=> Kind(s, n, kind)
      /\ \A kind : Kind(t, last, kind) <=> e.kind = kind
      /\ last \in 1..Len(t)
  BY <1>2, ExtendSays
<1> HIDE DEF last
<1>5. \A n \in 1..Len(t) : Kind(t, n, "listenReply") => n \in 1..Len(s) /\ Kind(s, n, "listenReply") /\ t[n] = s[n]
  BY <1>1, <1>4
<1>6. ~Ending(s, l) /\ l # 0
  BY DEF Talk
<1>7. \A n \in 1..Len(s) : ~Kind(t, n, "listenRevoked") /\ ~Refusal(s, l, n)
  BY <1>4, <1>6 DEF Ending
<1>8. \A n \in 1..Len(t) : ~Refusal(t, l, n)
  BY <1>5, <1>7 DEF Refusal
<1>9. (Current(s, l) <=> Current(t, l)) /\ (Stale(s, l) <=> Stale(t, l))
  BY <1>4, <1>5 DEF Current, Stale
<1>10. Ending(t, l)
  BY <1>1, <1>4 DEF Ending
<1>11. \A n \in 1..Len(t) : Kind(t, n, "listenReply") => t[n].spec \in 1..c
  BY <1>5 DEF Talk
<1>12. \A m, n \in 1..Len(t) : Kind(t, m, "listenReply") /\ Kind(t, n, "listenReply") =>
         ((t[m].spec = l <=> t[n].spec = l) => m = n)
  BY <1>5 DEF Talk
<1>13. \A m, n \in 1..Len(t) : Kind(t, m, "listenRevoked") /\ Kind(t, n, "listenReply") /\ m < n =>
         t[n].spec = l
  BY <1>3, <1>4, <1>7
<1>14. Talk(t, l, c, FALSE, FALSE)
  BY <1>6, <1>8, <1>11, <1>12, <1>13 DEF Talk
<1> QED
  BY <1>9, <1>10, <1>14

\* The client starts a listen when it has none.
LEMMA ObserveTalk ==
  ASSUME NEW s, NEW c \in Nat, NEW out, NEW on, NEW asked, Talk(s, 0, c, out, on)
  PROVE  /\ ~out /\ ~on
         /\ Talk(s, c + 1, c + 1, asked, FALSE)
         /\ ~Current(s, 0) /\ ~Current(s, c + 1)
         /\ Stale(s, 0) <=> Stale(s, c + 1)
<1>1. /\ \A n \in 1..Len(s) : Kind(s, n, "listenReply") => s[n].spec \in 1..c
      /\ \A n \in 1..Len(s) : Quiet(s, n)
      /\ ~out /\ ~on
  BY DEF Talk
<1>2. \A n \in 1..Len(s) : Kind(s, n, "listenReply") =>
        s[n].spec # 0 /\ s[n].spec # c + 1 /\ s[n].spec \in 1..c + 1
  BY <1>1
<1>3. ~Current(s, 0) /\ ~Current(s, c + 1) /\ (Stale(s, 0) <=> Stale(s, c + 1))
  BY <1>2 DEF Current, Stale
<1>4. \A n \in 1..Len(s) : ~Kind(s, n, "listenRevoked") /\ ~Refusal(s, c + 1, n)
  BY <1>1, <1>2 DEF Quiet, Kind, Refusal
<1>5. \A m, n \in 1..Len(s) : Kind(s, m, "listenReply") /\ Kind(s, n, "listenReply") => m = n
  BY <1>2 DEF Talk
<1>6. Talk(s, c + 1, c + 1, asked, FALSE)
  BY <1>1, <1>2, <1>3, <1>4, <1>5 DEF Talk, Ending
<1> QED
  BY <1>1, <1>3, <1>6

\* A connection that is new or gone.
LEMMA EmptyTalk ==
  ASSUME NEW l, NEW c, NEW asked, asked => l # 0
  PROVE  /\ IsSeq(<<>>) /\ Sole(<<>>, "listen") /\ ~Has(<<>>, "listen")
         /\ \A n \in 1..Len(<<>>) : FALSE
         /\ Talk(<<>>, l, c, asked, FALSE) /\ ~Current(<<>>, l) /\ ~Stale(<<>>, l)
<1>1. <<>> \in Seq({}) /\ \A n \in 1..Len(<<>>) : FALSE
  BY EmptySeq
<1>2. Sole(<<>>, "listen") /\ ~Has(<<>>, "listen")
  BY <1>1 DEF Sole, Has
<1>3. ~Current(<<>>, l) /\ ~Stale(<<>>, l) /\ ~Ending(<<>>, l)
  BY <1>1 DEF Current, Stale, Ending
<1>4. Talk(<<>>, l, c, asked, FALSE)
  BY <1>1, <1>3 DEF Talk
<1> QED
  BY <1>1, <1>2, <1>3, <1>4 DEF IsSeq

-----------------------------------------------------------------------------
(* The parts of the actions *)

\* The values of a sequence of answers.
LEMMA RangeOfAnswers ==
  ASSUME NEW S, NEW q \in Seq(S)
  PROVE  /\ Range(<<>>) = {}
         /\ Range(q) \subseteq S
         /\ \A x \in S : Range(Append(q, x)) = Range(q) \cup {x}
<1>1. Range(<<>>) = {}
  BY DEF Range
<1>2. Range(q) \subseteq S
  BY DEF Range
<1>3. ASSUME NEW x \in S
      PROVE  Range(Append(q, x)) = Range(q) \cup {x}
  <2>1. /\ DOMAIN Append(q, x) = 1..Len(q) + 1 /\ DOMAIN q = 1..Len(q) /\ Len(q) \in Nat
        /\ \A n \in 1..Len(q) : Append(q, x)[n] = q[n]
        /\ Append(q, x)[Len(q) + 1] = x
    BY <1>3
  <2>2. \A n \in 1..Len(q) + 1 : n \in 1..Len(q) \/ n = Len(q) + 1
    BY <2>1
  <2>3. \A n \in 1..Len(q) : n \in 1..Len(q) + 1
    BY <2>1
  <2>4. Len(q) + 1 \in 1..Len(q) + 1
    BY <2>1
  <2> QED
    BY <2>1, <2>2, <2>3, <2>4 DEF Range
<1> QED
  BY <1>1, <1>2, <1>3

\* What restoreState sends: one listen if there is a query, and puts.
LEMMA RestoredSeq ==
  ASSUME Pending
  PROVE  /\ IsSeq(restored) /\ Sole(restored, "listen")
         /\ Has(restored, "listen") <=> listens # 0
         /\ \A n \in 1..Len(restored) : Kind(restored, n, "listen") => restored[n].spec = listens
<1> DEFINE c == Cardinality(outstandingPuts)
           X == SetToSortSeq(outstandingPuts, <)
           q == [n \in 1..c |-> Put(X[n])]
           L == Listen(listens)
           S == {L} \cup {Put(X[n]) : n \in 1..c}
           p == IF listens # 0 THEN <<L>> ELSE <<>>
<1>1. c \in Nat
  <2>1. IsFiniteSet(1..writeIdCounter)
    BY FS_Interval DEF Pending
  <2>2. IsFiniteSet(outstandingPuts)
    BY <2>1, FS_Subset DEF Pending
  <2> QED
    BY <2>2, FS_CardinalityType
<1>2. restored = p \o q
  BY DEF restored
<1>3. L.kind = "listen" /\ L.spec = listens /\ \A x : Put(x).kind = "put"
  BY DEF Listen, Put
<1> HIDE DEF c, X, L
<1>4. q \in Seq(S) /\ Len(q) = c
  BY <1>1
<1>5. p \in Seq(S) /\ Len(p) = (IF listens # 0 THEN 1 ELSE 0) /\ (listens # 0 => p[1] = L)
  <2>1. L \in S
    OBVIOUS
  <2>2. listens # 0 => p = <<L>>
    OBVIOUS
  <2>3. listens = 0 => p = <<>>
    OBVIOUS
  <2> HIDE DEF p, S
  <2>4. CASE listens # 0
    <3>1. <<L>> \in Seq(S) /\ Len(<<L>>) = 1 /\ <<L>>[1] = L
      BY <2>1
    <3> QED
      BY <2>2, <2>4, <3>1
  <2>5. CASE listens = 0
    <3>1. <<>> \in Seq(S) /\ Len(<<>>) = 0
      BY EmptySeq
    <3> QED
      BY <2>3, <2>5, <3>1
  <2> QED
    BY <2>4, <2>5
<1>6. \A n \in 1..c : q[n].kind = "put"
  BY <1>3
<1> HIDE DEF p, q, S
<1>7. /\ p \o q \in Seq(S)
      /\ Len(p \o q) = Len(p) + c
      /\ \A n \in 1..Len(p) + c : (p \o q)[n] = IF n <= Len(p) THEN p[n] ELSE q[n - Len(p)]
  BY <1>1, <1>4, <1>5, ConcatProperties
<1>8. \A n \in 1..Len(p) + c :
        /\ (p \o q)[n].kind = "listen" <=> listens # 0 /\ n = 1
        /\ (p \o q)[n].kind = "listen" => (p \o q)[n].spec = listens
  BY <1>1, <1>3, <1>5, <1>6, <1>7
<1>9. listens # 0 => 1 \in 1..Len(p) + c
  BY <1>1, <1>5
<1> QED
  BY <1>2, <1>7, <1>8, <1>9 DEF IsSeq, Sole, Has, Kind

\* The answers to listens among the messages t are those under way now.
SameAnswers(t) ==
  /\ Current(toClient, listens) <=> Current(t, listens)
  /\ Stale(toClient, listens) <=> Stale(t, listens)
  /\ Ending(toClient, listens) <=> Ending(t, listens)

\* What an entry that arrives at the server makes of the messages.
LEMMA StoreMessages ==
  ASSUME IInv, NEW id,
         NEW t, t = toClient \o (IF id \in Refused THEN <<>> ELSE told(id))
  PROVE  /\ Flow(t, serverCache, serverDb \cup ({id} \ Refused), listening, Range(putsToAck))
         /\ Talk(t, listens, listenSpecs, Out, listening)
         /\ SameAnswers(t)
<1>1. IsSeq(toClient) /\ toClient \o <<>> = toClient
  <2>1. IsSeq(toClient)
    BY DEF IInv, Streaming, Flow, Arranged
  <2> QED
    BY <2>1, ConcatEmptySeq DEF IsSeq
<1>2. /\ Flow(toClient, serverCache, serverDb, listening, Range(putsToAck))
      /\ Talk(toClient, listens, listenSpecs, Out, listening)
  BY DEF IInv, Streaming, Asking
<1>3. ASSUME id \in Refused \/ ~listening \/ id \in serverDb
      PROVE  t = toClient
  BY <1>1, <1>3 DEF told
<1>4. CASE id \in Refused
  <2>1. serverDb \cup ({id} \ Refused) = serverDb
    BY <1>4
  <2> QED
    BY <1>2, <1>3, <1>4, <2>1 DEF SameAnswers
<1>5. CASE id \notin Refused
  <2>1. serverDb \cup ({id} \ Refused) = serverDb \cup {id}
    BY <1>5
  <2>2. CASE listening /\ id \notin serverDb
    <3>1. t = toClient \o <<Child(id)>>
      BY <1>5, <2>2 DEF told
    <3>2. Extended(toClient, Child(id), t)
      BY <1>1, <3>1, AppendSeq
    <3>3. ~Has(toClient, "listenRevoked")
      BY <1>2, <2>2 DEF Talk, Ending, Has, Kind
    <3>4. Flow(t, serverCache, serverDb \cup {id}, listening, Range(putsToAck))
      BY <1>2, <2>2, <3>2, <3>3, StoreTold
    <3>5. Child(id).kind = "child"
      BY DEF Child
    <3>6. /\ Talk(t, listens, listenSpecs, Out, listening)
          /\ Current(toClient, listens) <=> Current(t, listens)
          /\ Stale(toClient, listens) <=> Stale(t, listens)
          /\ Ending(toClient, listens) <=> Ending(t, listens)
      BY <1>2, <2>2, <3>2, <3>5, ExtendTalk
    <3> QED
      BY <2>1, <2>2, <3>4, <3>6 DEF SameAnswers
  <2>3. CASE ~(listening /\ id \notin serverDb)
    <3>1. Flow(toClient, serverCache, serverDb \cup {id}, listening, Range(putsToAck))
      BY <1>2, <2>3, StoreUntold
    <3> QED
      BY <1>2, <1>3, <2>1, <2>3, <3>1 DEF SameAnswers
  <2> QED
    BY <2>2, <2>3
<1> QED
  BY <1>4, <1>5

\* The messages of serverReceives: perhaps a child, then the answer.
LEMMA AnsweredPut ==
  ASSUME IInv, NEW id,
         NEW t, t = toClient \o (IF id \in Refused THEN <<>> ELSE told(id)) \o <<PutReply(id)>>
  PROVE  /\ Flow(t, serverCache, serverDb \cup ({id} \ Refused), listening, Range(putsToAck))
         /\ Talk(t, listens, listenSpecs, Out, listening)
         /\ SameAnswers(t)
<1> DEFINE u == toClient \o (IF id \in Refused THEN <<>> ELSE told(id))
           db == serverDb \cup ({id} \ Refused)
<1>1. /\ Flow(u, serverCache, db, listening, Range(putsToAck))
      /\ Talk(u, listens, listenSpecs, Out, listening)
      /\ SameAnswers(u)
  BY StoreMessages
<1>2. t = u \o <<PutReply(id)>> /\ id \in db \cup Refused
  OBVIOUS
<1> HIDE DEF u, db
<1>3. IsSeq(u)
  BY <1>1 DEF Flow, Arranged
<1>4. Extended(u, PutReply(id), t)
  BY <1>2, <1>3, AppendSeq
<1>5. Flow(t, serverCache, db, listening, Range(putsToAck))
  BY <1>1, <1>2, <1>4, AnswerFlow
<1>6. PutReply(id).kind = "putReply"
  BY DEF PutReply
<1>7. /\ Talk(t, listens, listenSpecs, Out, listening)
      /\ Current(u, listens) <=> Current(t, listens)
      /\ Stale(u, listens) <=> Stale(t, listens)
      /\ Ending(u, listens) <=> Ending(t, listens)
  BY <1>1, <1>4, <1>6, ExtendTalk
<1> QED
  BY <1>1, <1>5, <1>7 DEF db, SameAnswers

\* While the server looks up the data of a listen it serves none.
LEMMA Fetching ==
  ASSUME IInv, fetching # 0
  PROVE  /\ IsSeq(toClient) /\ listenSpecs \in Nat /\ fetching = listens /\ listens \in 1..listenSpecs
         /\ listening = FALSE /\ ~Asked
         /\ Talk(toClient, listens, listenSpecs, TRUE, FALSE)
         /\ \A n \in 1..Len(toClient) : Quiet(toClient, n)
         /\ Flow(toClient, serverCache, serverDb, FALSE, Range(putsToAck))
<1>1. /\ Talk(toClient, listens, listenSpecs, Out, listening) /\ Out /\ ~Asked
      /\ listenSpecs \in Nat /\ listens \in 0..listenSpecs /\ fetching = listens
      /\ listening \in BOOLEAN
  BY DEF IInv, Asking, Out
<1>2. listening = FALSE /\ \A n \in 1..Len(toClient) : Quiet(toClient, n)
  BY <1>1 DEF Talk
<1>3. Talk(toClient, listens, listenSpecs, TRUE, FALSE)
  BY <1>1, <1>2 DEF Talk
<1>4. IsSeq(toClient) /\ Flow(toClient, serverCache, serverDb, FALSE, Range(putsToAck))
  BY <1>2 DEF IInv, Streaming, Flow, Arranged
<1>5. listens \in 1..listenSpecs
  <2>1. listens # 0
    BY <1>1
  <2> QED
    BY ONLY <1>1, <2>1
<1> QED
  BY <1>1, <1>2, <1>3, <1>4, <1>5

\* The messages of serverFetched: the data, then the answer to the listen.
LEMMA FetchedListen ==
  ASSUME IInv, fetching # 0,
         NEW t, t = toClient \o <<Data(serverDb), ListenReply(fetching, TRUE)>>
  PROVE  /\ Flow(t, serverCache, serverDb, TRUE, Range(putsToAck))
         /\ Talk(t, listens, listenSpecs, FALSE, TRUE)
         /\ ~Current(toClient, listens) /\ Current(t, listens)
         /\ Stale(toClient, listens) <=> Stale(t, listens)
<1> DEFINE d == Data(serverDb)
           r == ListenReply(listens, TRUE)
           u == toClient \o <<d>>
<1>1. /\ IsSeq(toClient) /\ listenSpecs \in Nat /\ fetching = listens /\ listens \in 1..listenSpecs
      /\ Talk(toClient, listens, listenSpecs, TRUE, FALSE)
      /\ \A n \in 1..Len(toClient) : Quiet(toClient, n)
      /\ Flow(toClient, serverCache, serverDb, FALSE, Range(putsToAck))
  BY Fetching
<1>2. d.kind = "data" /\ r.kind = "listenReply" /\ r.spec = listens /\ r.ok = TRUE
  BY DEF Data, ListenReply
<1>3. Extended(toClient, d, u)
  BY <1>1, AppendSeq
<1>4. t = u \o <<r>>
  <2>1. t = toClient \o <<d, r>>
    BY <1>1
  <2> HIDE DEF d, r
  <2>2. t = (toClient \o <<d>>) \o <<r>>
    BY ONLY <1>1, <2>1, AppendTwo
  <2> QED
    BY <2>2
<1>5. IsSeq(u)
  BY <1>3 DEF Extended
<1> HIDE DEF u
<1>6. Extended(u, r, t)
  BY <1>4, <1>5, AppendSeq
<1>7. Flow(t, serverCache, serverDb, TRUE, Range(putsToAck))
  BY <1>1, <1>3, <1>6, FetchFlow
<1> HIDE DEF d, r
<1>8. /\ \A n \in 1..Len(toClient) : n \in 1..Len(u) /\ u[n] = toClient[n]
      /\ \A n \in 1..Len(u) : n \in 1..Len(toClient) \/ u[n] = d
  BY <1>3 DEF Extended
<1>9. /\ \A n \in 1..Len(u) : n \in 1..Len(t) /\ t[n] = u[n]
      /\ \A n \in 1..Len(t) : n \in 1..Len(u) \/ n = Len(t)
      /\ Len(t) \in 1..Len(t) /\ \A n \in 1..Len(t) : ~(Len(t) < n)
      /\ t[Len(t)] = r
  BY ONLY <1>6 DEF Extended
<1>10. \A n \in 1..Len(toClient) : toClient[n].kind # "listenRevoked"
  BY <1>1 DEF Quiet, Kind
<1>11. Replied(toClient, t, listens, TRUE)
  <2>1. /\ \A n \in 1..Len(toClient) : n \in 1..Len(t) /\ t[n] = toClient[n]
        /\ \A n \in 1..Len(t) : n \in 1..Len(toClient) \/ t[n] = d \/ n = Len(t)
    BY <1>8, <1>9
  <2>2. \A n \in 1..Len(t) : t[n].kind # "listenRevoked"
    BY <1>2, <1>9, <1>10, <2>1
  <2>3. \A n \in 1..Len(t) : Kind(t, n, "listenReply") => n \in 1..Len(toClient) \/ n = Len(t)
    BY <1>2, <2>1 DEF Kind
  <2> QED
    BY <1>2, <1>9, <2>1, <2>2, <2>3 DEF Replied, Has
<1>12. /\ Talk(t, listens, listenSpecs, FALSE, TRUE)
       /\ ~Current(toClient, listens) /\ Current(t, listens)
       /\ Stale(toClient, listens) <=> Stale(t, listens)
  BY ONLY <1>1, <1>11, ReplyTalk
<1> QED
  BY <1>7, <1>12

\* Or a refusal, with the revocation before it.
LEMMA RefusedListen ==
  ASSUME IInv, fetching # 0,
         NEW t, \/ t = Append(toClient, ListenReply(fetching, FALSE))
                \/ t = toClient \o <<ListenRevoked>> \o <<ListenReply(fetching, FALSE)>>
  PROVE  /\ Flow(t, serverCache, serverDb, FALSE, Range(putsToAck))
         /\ Talk(t, listens, listenSpecs, FALSE, FALSE)
         /\ ~Current(toClient, listens) /\ Current(t, listens) /\ Ending(t, listens)
         /\ Stale(toClient, listens) <=> Stale(t, listens)
<1> DEFINE v == ListenRevoked
           r == ListenReply(listens, FALSE)
           u == toClient \o <<v>>
<1>1. /\ IsSeq(toClient) /\ listenSpecs \in Nat /\ fetching = listens /\ listens \in 1..listenSpecs
      /\ Talk(toClient, listens, listenSpecs, TRUE, FALSE)
      /\ \A n \in 1..Len(toClient) : Quiet(toClient, n)
      /\ Flow(toClient, serverCache, serverDb, FALSE, Range(putsToAck))
  BY Fetching
<1>2. v.kind = "listenRevoked" /\ r.kind = "listenReply" /\ r.spec = listens /\ r.ok = FALSE
  BY DEF ListenRevoked, ListenReply
<1>3. Extended(toClient, v, u)
  BY <1>1, AppendSeq
<1>4. t = Append(toClient, r) \/ t = u \o <<r>>
  BY <1>1
<1>5. IsSeq(u)
  BY <1>3 DEF Extended
<1>6. Extended(toClient, r, t) \/ (Extended(toClient, v, u) /\ Extended(u, r, t))
  <2> HIDE DEF u, r, v
  <2> QED
    BY <1>1, <1>3, <1>4, <1>5, AppendSeq
<1> HIDE DEF u
<1>7. Flow(t, serverCache, serverDb, FALSE, Range(putsToAck))
  BY <1>1, <1>6, RefuseFlow
<1> HIDE DEF v, r
<1>8. /\ \A n \in 1..Len(toClient) : n \in 1..Len(t) /\ t[n] = toClient[n]
      /\ Len(t) \in 1..Len(t) /\ \A n \in 1..Len(t) : ~(Len(t) < n)
      /\ \A n \in 1..Len(t) : n \in 1..Len(toClient) \/ t[n] = v \/ n = Len(t)
      /\ t[Len(t)] = r
  BY <1>6 DEF Extended
<1>9. Replied(toClient, t, listens, FALSE)
  BY <1>2, <1>8 DEF Replied, Kind
<1>10. Talk(t, listens, listenSpecs, FALSE, FALSE)
  BY <1>1, <1>9, ReplyTalk
<1> QED
  BY <1>1, <1>7, <1>9, <1>10, ReplyTalk

\* A listen the server serves is revoked.
LEMMA RevokedListen ==
  ASSUME IInv, listening,
         NEW t, t = toClient \o <<ListenRevoked>> \o <<>>
  PROVE  /\ Flow(t, serverCache, serverDb, FALSE, Range(putsToAck))
         /\ Talk(t, listens, listenSpecs, FALSE, FALSE) /\ ~Out
         /\ Current(toClient, listens) <=> Current(t, listens)
         /\ Stale(toClient, listens) <=> Stale(t, listens)
         /\ Ending(t, listens)
<1> DEFINE u == toClient \o <<ListenRevoked>>
<1>1. /\ Talk(toClient, listens, listenSpecs, Out, listening) /\ listening = TRUE
      /\ IsSeq(toClient) /\ Flow(toClient, serverCache, serverDb, TRUE, Range(putsToAck))
  BY DEF IInv, Asking, Streaming, Flow, Arranged
<1>2. ~Out /\ Talk(toClient, listens, listenSpecs, FALSE, TRUE)
  BY <1>1 DEF Talk
<1>3. ~Has(toClient, "listenRevoked")
  BY <1>2 DEF Talk, Ending, Has, Kind
<1>4. Extended(toClient, ListenRevoked, u)
  BY <1>1, AppendSeq
<1>5. t = u
  <2>1. IsSeq(u) /\ t = u \o <<>>
    BY <1>4 DEF Extended
  <2> HIDE DEF u
  <2> QED
    BY <2>1, ConcatEmptySeq DEF IsSeq
<1> HIDE DEF u
<1> QED
  BY <1>1, <1>2, <1>3, <1>4, <1>5, RevokeFlow, RevokeTalk

-----------------------------------------------------------------------------
(* The invariant holds at the start *)

LEMMA InitIInv == Init => IInv
<1> SUFFICES ASSUME Init
             PROVE  IInv
  OBVIOUS
<1> USE DEF Init, ProcessInit
<1>1. <<>> \in Seq(1..writeIdCounter) /\ Range(putsToAck) = {}
  BY EmptySeq DEF Range
<1>2. Pending
  BY <1>1 DEF Pending, PendingWritesAreAnswerable
<1>3. NothingForgotten
  BY DEF NothingForgotten
<1>4. /\ IsSeq(<<>>) /\ Sole(<<>>, "listen") /\ ~Has(<<>>, "listen")
      /\ \A n \in 1..Len(<<>>) : FALSE
      /\ Talk(<<>>, 0, 0, FALSE, FALSE) /\ ~Current(<<>>, 0) /\ ~Stale(<<>>, 0)
  BY EmptyTalk
<1>5. Asking
  <2>1. ~Asked /\ ~Out
    BY <1>4 DEF Asked, Out
  <2>2. Talk(toClient, listens, listenSpecs, Out, listening)
    BY <1>4, <2>1 DEF Talk
  <2>3. unackedListensCount = Unanswered(toClient, listens, Out)
    BY <1>4, <2>1 DEF Unanswered, One
  <2>4. /\ IsSeq(toServer) /\ Sole(toServer, "listen") /\ \A n \in 1..Len(toServer) : FALSE
        /\ listenSpecs = 0 /\ listens = 0 /\ fetching = 0
        /\ listening \in BOOLEAN /\ complete \in BOOLEAN /\ ~complete /\ ~listening
        /\ toServer = <<>> /\ toClient = <<>> /\ connectionState # "Connected"
    BY <1>4
  <2> QED
    BY ONLY <2>1, <2>2, <2>3, <2>4 DEF Asking
<1>6. Streaming
  <2>1. Arranged(<<>>)
    BY <1>4 DEF Arranged, Sole
  <2>2. Covered(<<>>, {}, {}, FALSE) /\ Answered(<<>>, {}, {}, FALSE) /\ Held(<<>>, {}, {}, FALSE, {})
    BY <1>4 DEF Covered, Answered, Held
  <2> QED
    BY <1>1, <2>1, <2>2 DEF Streaming, Flow
<1> QED
  BY <1>2, <1>3, <1>5, <1>6 DEF IInv

-----------------------------------------------------------------------------
(* Each step keeps it: the writes *)

\* A message that can be received is the first of a sequence.
LEMMA FirstMessage ==
  ASSUME IInv, NEW kind, received(kind)
  PROVE  /\ Dropped(toClient, Tail(toClient)) /\ Head(toClient) = toClient[1]
         /\ toClient[1].kind = kind /\ 1 \in 1..Len(toClient)
         /\ Len(toClient) \in Nat /\ Len(toClient) >= 1
<1>1. IsSeq(toClient) /\ toClient # <<>> /\ Head(toClient).kind = kind
  BY DEF IInv, Streaming, Flow, Arranged, received
<1>2. Dropped(toClient, Tail(toClient)) /\ Head(toClient) = toClient[1]
  BY <1>1, TailSeq
<1> QED
  BY <1>1, <1>2 DEF Dropped

\* Nothing happens to the writes but that entries are stored.
LEMMA StoringPending ==
  ASSUME Pending, NothingForgotten, serverDb \subseteq serverDb',
         UNCHANGED <<writeIdCounter, allWrites, outstandingPuts, putsToAck, abandoned>>
  PROVE  Pending' /\ NothingForgotten'
<1>1. Pending'
  BY DEF Pending, PendingWritesAreAnswerable
<1>2. NothingForgotten'
  BY DEF NothingForgotten
<1> QED
  BY <1>1, <1>2

LEMMA PendingStep == IInv /\ [Next]_vars => Pending' /\ NothingForgotten'
<1> SUFFICES ASSUME IInv, [Next]_vars
             PROVE  Pending' /\ NothingForgotten'
  OBVIOUS
<1>1. Pending /\ NothingForgotten /\ Streaming
  BY DEF IInv
<1>2. /\ writeIdCounter \in Nat /\ outstandingPuts \subseteq 1..writeIdCounter
      /\ putsToAck \in Seq(1..writeIdCounter)
      /\ allWrites = outstandingPuts \cup Range(putsToAck)
      /\ outstandingPuts \cap Range(putsToAck) = {}
      /\ Range(putsToAck) \subseteq 1..writeIdCounter
      /\ Range(<<>>) = {} /\ <<>> \in Seq(1..writeIdCounter)
  BY <1>1, RangeOfAnswers, EmptySeq DEF Pending, PendingWritesAreAnswerable
<1>3. CASE set
  <2> DEFINE id == writeIdCounter + 1
  <2>1. /\ writeIdCounter' = id /\ allWrites' = allWrites \cup {id}
        /\ outstandingPuts' = outstandingPuts \cup {id}
        /\ UNCHANGED <<putsToAck, serverDb, abandoned>>
    BY <1>3 DEF set, outstandingAfter, serverVars
  <2>2. /\ id \in Nat /\ id \notin 1..writeIdCounter
        /\ \A x : x \in 1..id <=> x \in 1..writeIdCounter \/ x = id
    BY <1>2
  <2> HIDE DEF id
  <2>3. Seq(1..writeIdCounter) \subseteq Seq(1..id)
    BY <2>2, SeqMonotonic
  <2>4. Pending'
    BY <1>2, <2>1, <2>2, <2>3 DEF Pending, PendingWritesAreAnswerable
  <2>5. NothingForgotten'
    BY <1>1, <2>1, <2>2 DEF NothingForgotten
  <2> QED
    BY <2>4, <2>5
<1>4. CASE onPutReply
  <2> DEFINE id == Head(toClient).id
  <2>1. received("putReply") /\ UNCHANGED <<writeIdCounter, serverDb, abandoned>>
    BY <1>4 DEF onPutReply, serverVars
  <2>2. id \in serverDb \cup Refused
    <3>1. /\ Head(toClient) = toClient[1] /\ toClient[1].kind = "putReply"
          /\ Len(toClient) \in Nat /\ Len(toClient) >= 1
      BY <2>1, FirstMessage
    <3> QED
      BY <1>1, <3>1, AnsweredFirst DEF Streaming
  <2>3. CASE id \notin outstandingPuts
    <3>1. UNCHANGED <<outstandingPuts, putsToAck, allWrites>>
      BY <1>4, <2>3 DEF onPutReply
    <3> QED
      BY <1>1, <2>1, <3>1, StoringPending
  <2>4. CASE id \in outstandingPuts
    <3>1. outstandingPuts' = outstandingPuts \ {id}
      BY <1>4, <2>4 DEF onPutReply
    <3>2. \/ allWrites' = allWrites \ {id} /\ UNCHANGED putsToAck
          \/ putsToAck' = Append(putsToAck, id) /\ UNCHANGED allWrites
      BY <1>4, <2>4 DEF onPutReply
    <3> HIDE DEF id
    <3>3. id \in 1..writeIdCounter
      BY <1>2, <2>4
    <3>4. CASE allWrites' = allWrites \ {id} /\ UNCHANGED putsToAck
      <4>1. Pending'
        BY <1>2, <2>1, <2>4, <3>1, <3>4 DEF Pending, PendingWritesAreAnswerable
      <4> QED
        BY <1>1, <2>1, <2>2, <3>1, <4>1 DEF NothingForgotten
    <3>5. CASE putsToAck' = Append(putsToAck, id) /\ UNCHANGED allWrites
      <4>1. putsToAck' \in Seq(1..writeIdCounter)
        BY <1>2, <3>3, <3>5
      <4>2. Range(putsToAck') = Range(putsToAck) \cup {id}
        BY <1>2, <3>3, <3>5, RangeOfAnswers
      <4>3. Pending'
        BY <1>2, <2>1, <2>4, <3>1, <3>5, <4>1, <4>2 DEF Pending, PendingWritesAreAnswerable
      <4> QED
        BY <1>1, <2>1, <2>2, <3>1, <4>3 DEF NothingForgotten
    <3> QED
      BY <3>2, <3>4, <3>5
  <2> QED
    BY <2>3, <2>4
<1>5. CASE onListenReply
  <2>1. UNCHANGED <<writeIdCounter, serverDb, abandoned, outstandingPuts>>
    BY <1>5 DEF onListenReply, serverVars
  <2>2. \/ allWrites' = allWrites \ Range(putsToAck) /\ putsToAck' = <<>>
        \/ UNCHANGED <<allWrites, putsToAck>>
    BY <1>5 DEF onListenReply
  <2>3. CASE UNCHANGED <<allWrites, putsToAck>>
    BY <1>1, <2>1, <2>3, StoringPending
  <2>4. CASE allWrites' = allWrites \ Range(putsToAck) /\ putsToAck' = <<>>
    <3>1. Pending'
      BY <1>2, <2>1, <2>4 DEF Pending, PendingWritesAreAnswerable
    <3> QED
      BY <1>1, <2>1, <3>1 DEF NothingForgotten
  <2> QED
    BY <2>2, <2>3, <2>4
<1>6. CASE restart
  <2>1. /\ UNCHANGED <<writeIdCounter, serverDb>>
        /\ abandoned' = abandoned \cup outstandingPuts
        /\ allWrites' = {} /\ outstandingPuts' = {} /\ putsToAck' = <<>>
    BY <1>6 DEF restart
  <2>2. Pending'
    BY <1>2, <2>1 DEF Pending, PendingWritesAreAnswerable
  <2>3. NothingForgotten'
    BY <1>1, <2>1 DEF NothingForgotten
  <2> QED
    BY <2>2, <2>3
<1> DEFINE Kept == serverDb \subseteq serverDb' /\
                   UNCHANGED <<writeIdCounter, allWrites, outstandingPuts, putsToAck, abandoned>>
<1>7. CASE observe
  <2>1. Kept
    BY <1>7 DEF observe, treeVars, serverVars
  <2> QED
    BY <1>1, <2>1, StoringPending
<1>8. CASE retry \/ tokenFetched \/ onReady \/ onDataUpdate \/ onListenRevoked
  <2>1. Kept
    BY <1>8 DEF retry, tokenFetched, onReady, onDataUpdate, onListenRevoked, treeVars, putVars, serverVars
  <2> QED
    BY <1>1, <2>1, StoringPending
<1>9. ASSUME NEW killed \in BOOLEAN, onDisconnect(killed)
      PROVE  Pending' /\ NothingForgotten'
  <2>1. Kept
    BY <1>9 DEF onDisconnect, treeVars
  <2> QED
    BY <1>1, <2>1, StoringPending
<1>10. CASE serverReceives
  <2>1. Kept
    BY <1>10 DEF serverReceives, treeVars, putVars
  <2> QED
    BY <1>1, <2>1, StoringPending
<1>11. CASE serverFetched \/ serverRevokes
  <2>1. Kept
    BY <1>11 DEF serverFetched, serverRevokes, treeVars, putVars
  <2> QED
    BY <1>1, <2>1, StoringPending
<1>12. ASSUME NEW id, serverStores(id)
       PROVE  Pending' /\ NothingForgotten'
  <2>1. Kept
    BY <1>12 DEF serverStores, treeVars, putVars
  <2> QED
    BY <1>1, <2>1, StoringPending
<1>13. CASE UNCHANGED vars
  <2>1. Kept
    BY <1>13 DEF vars, treeVars, putVars, serverVars
  <2> QED
    BY <1>1, <2>1, StoringPending
<1> QED
  BY <1>3, <1>4, <1>5, <1>6, <1>7, <1>8, <1>9, <1>10, <1>11, <1>12, <1>13 DEF Next, Client, Server

-----------------------------------------------------------------------------
(* Each step keeps it: the messages to the client *)

\* What the client takes from the data of a listen or from a child message.
LEMMA TakenFlow ==
  ASSUME IInv, NEW kind, received(kind), NEW new, Taken(toClient, serverCache, new)
  PROVE  /\ Flow(Tail(toClient), new, serverDb, listening, Range(putsToAck))
         /\ serverCache \subseteq new
<1>1. Dropped(toClient, Tail(toClient))
  BY FirstMessage
<1> QED
  BY <1>1, DropFlow DEF IInv, Streaming

\* Fewer answers may be held back.
LEMMA HeldFewer ==
  ASSUME NEW s, NEW cache, NEW db, NEW on, NEW held, NEW fewer,
         Flow(s, cache, db, on, held), fewer \subseteq held
  PROVE  Flow(s, cache, db, on, fewer)
BY DEF Flow, Held

\* The message that cancels the listen, revoked or refused.
LEMMA CancelledListen ==
  ASSUME IInv, NEW kind, received(kind),
         kind = "listenRevoked" \/ (kind = "listenReply" /\ Head(toClient).spec = listens /\ ~Head(toClient).ok)
  PROVE  /\ Flow(Tail(toClient), {}, serverDb, listening, Range(putsToAck))
         /\ Talk(Tail(toClient), 0, listenSpecs, FALSE, listening) /\ ~Out /\ ~listening
         /\ kind = "listenRevoked" => unackedListensCount = Unanswered(Tail(toClient), 0, FALSE)
         /\ kind = "listenReply" => unackedListensCount - 1 = Unanswered(Tail(toClient), 0, FALSE)
<1>1. /\ Dropped(toClient, Tail(toClient)) /\ Head(toClient) = toClient[1]
      /\ toClient[1].kind = kind /\ 1 \in 1..Len(toClient)
  BY FirstMessage
<1>2. /\ Talk(toClient, listens, listenSpecs, Out, listening) /\ listenSpecs \in Nat
      /\ unackedListensCount = Unanswered(toClient, listens, Out)
      /\ listening \in BOOLEAN
      /\ Flow(toClient, serverCache, serverDb, listening, Range(putsToAck))
      /\ Arranged(toClient)
  BY DEF IInv, Asking, Streaming, Flow
<1>3. IF kind = "listenReply" THEN Refusal(toClient, listens, 1) ELSE Kind(toClient, 1, "listenRevoked")
  BY <1>1 DEF Refusal, Kind
<1>4. /\ \A n \in 1..Len(Tail(toClient)) : Quiet(Tail(toClient), n)
      /\ ~Out /\ ~listening /\ Talk(Tail(toClient), 0, listenSpecs, FALSE, FALSE) /\ ~Current(Tail(toClient), 0)
      /\ Kind(toClient, 1, "listenRevoked") =>
           (Stale(Tail(toClient), 0) <=> Current(toClient, listens)) /\ ~Stale(toClient, listens)
      /\ Refusal(toClient, listens, 1) =>
           (Stale(Tail(toClient), 0) <=> Stale(toClient, listens)) /\ Current(toClient, listens)
  BY <1>1, <1>2, <1>3, CancelTalk
<1>5. listening = FALSE
  BY <1>2, <1>4
<1>6. Flow(Tail(toClient), {}, serverDb, FALSE, Range(putsToAck))
  BY <1>1, <1>2, <1>4, QuietFlow
<1>7. /\ kind = "listenRevoked" => unackedListensCount = Unanswered(Tail(toClient), 0, FALSE)
      /\ kind = "listenReply" => unackedListensCount - 1 = Unanswered(Tail(toClient), 0, FALSE)
  BY <1>2, <1>3, <1>4 DEF Unanswered, One
<1> QED
  BY <1>4, <1>5, <1>6, <1>7

LEMMA StreamingStep == IInv /\ [Next]_vars => Streaming'
<1> SUFFICES ASSUME IInv, [Next]_vars
             PROVE  Streaming'
  OBVIOUS
<1>1. /\ Pending /\ Asking
      /\ Flow(toClient, serverCache, serverDb, listening, Range(putsToAck))
  BY DEF IInv, Streaming
<1>2. Range(<<>>) = {} /\ \A x \in outstandingPuts : Range(Append(putsToAck, x)) = Range(putsToAck) \cup {x}
  <2> DEFINE Ids == 1..writeIdCounter
  <2>1. putsToAck \in Seq(Ids) /\ outstandingPuts \subseteq Ids
    BY <1>1 DEF Pending
  <2> HIDE DEF Ids
  <2>2. Range(<<>>) = {} /\ \A x \in Ids : Range(Append(putsToAck, x)) = Range(putsToAck) \cup {x}
    BY ONLY <2>1, RangeOfAnswers
  <2> QED
    BY <2>1, <2>2
<1>3. CASE onDataUpdate
  <2>1. PICK kind : received(kind) /\ Taken(toClient, serverCache, serverCache')
    <3>1. CASE received("data") /\ serverCache' = Head(toClient).entries
      BY <3>1, FirstMessage DEF Taken, Kind
    <3>2. CASE received("child") /\ serverCache' = serverCache \cup {Head(toClient).id}
      BY <3>2, FirstMessage DEF Taken, Kind
    <3> QED
      BY <1>3, <3>1, <3>2 DEF onDataUpdate
  <2>2. toClient' = Tail(toClient) /\ UNCHANGED <<serverDb, listening, putsToAck>>
    BY <1>3 DEF onDataUpdate, putVars, serverVars
  <2>3. Flow(Tail(toClient), serverCache', serverDb, listening, Range(putsToAck))
    BY <2>1, TakenFlow
  <2> QED
    BY <2>2, <2>3 DEF Streaming
<1>4. CASE onPutReply
  <2> DEFINE id == Head(toClient).id
  <2>1. /\ received("putReply") /\ toClient' = Tail(toClient)
        /\ UNCHANGED <<serverDb, listening, serverCache>>
    BY <1>4 DEF onPutReply, serverVars
  <2>2. /\ Head(toClient) = toClient[1] /\ toClient[1].kind = "putReply"
        /\ Dropped(toClient, Tail(toClient)) /\ Len(toClient) \in Nat /\ Len(toClient) >= 1
    BY <2>1, FirstMessage
  <2>3. Taken(toClient, serverCache, serverCache)
    BY <2>2 DEF Taken
  <2>4. Held(toClient, serverCache, serverDb, listening, Range(putsToAck) \cup {id})
    BY <1>1, <2>2, AnsweredFirst
  <2>5. Flow(toClient, serverCache, serverDb, listening, Range(putsToAck) \cup {id})
    BY <1>1, <2>4 DEF Flow
  <2>6. Flow(Tail(toClient), serverCache, serverDb, listening, Range(putsToAck) \cup {id})
    BY <2>2, <2>3, <2>5, DropFlow
  <2>7. Range(putsToAck') \subseteq Range(putsToAck) \cup {id}
    <3>1. CASE putsToAck' = putsToAck
      BY <3>1
    <3>2. CASE putsToAck' = Append(putsToAck, id) /\ id \in outstandingPuts
      BY <1>2, <3>2
    <3> QED
      BY <1>4, <3>1, <3>2 DEF onPutReply
  <2>8. Flow(Tail(toClient), serverCache, serverDb, listening, Range(putsToAck'))
    BY <2>6, <2>7, HeldFewer
  <2> QED
    BY <2>1, <2>8 DEF Streaming
<1>5. CASE onListenReply
  <2>1. /\ received("listenReply") /\ toClient' = Tail(toClient)
        /\ UNCHANGED <<serverDb, listening>>
        /\ putsToAck' = putsToAck \/ putsToAck' = <<>>
    BY <1>5 DEF onListenReply, serverVars
  <2>2. Flow(Tail(toClient), serverCache', serverDb, listening, Range(putsToAck))
    <3>1. CASE UNCHANGED serverCache
      <4>1. Taken(toClient, serverCache, serverCache)
        BY <2>1, FirstMessage DEF Taken
      <4> QED
        BY <2>1, <3>1, <4>1, TakenFlow
    <3>2. CASE Head(toClient).spec = listens /\ ~Head(toClient).ok /\ cancelled
      BY <2>1, <3>2, CancelledListen DEF cancelled
    <3> QED
      BY <1>5, <3>1, <3>2 DEF onListenReply
  <2>3. Range(putsToAck') \subseteq Range(putsToAck)
    BY <1>2, <2>1
  <2>4. Flow(Tail(toClient), serverCache', serverDb, listening, Range(putsToAck'))
    BY <2>2, <2>3, HeldFewer
  <2> QED
    BY <2>1, <2>4 DEF Streaming
<1>14. CASE onListenRevoked
  <2>1. /\ received("listenRevoked") /\ toClient' = Tail(toClient) /\ serverCache' = {}
        /\ UNCHANGED <<serverDb, listening, putsToAck>>
    BY <1>14 DEF onListenRevoked, cancelled, putVars, serverVars
  <2>2. Flow(Tail(toClient), {}, serverDb, listening, Range(putsToAck))
    BY <2>1, CancelledListen
  <2> QED
    BY <2>1, <2>2 DEF Streaming
<1>6. CASE restart
  <2>1. /\ serverCache' = {} /\ putsToAck' = <<>> /\ serverDb' = serverDb
        /\ toClient' = <<>> /\ listening' = FALSE
    BY <1>6 DEF restart, Forget
  <2>2. Flow(<<>>, {}, serverDb, FALSE, {})
    BY <1>1, EmptyFlow
  <2> QED
    BY <1>2, <2>1, <2>2 DEF Streaming
<1>7. ASSUME NEW killed \in BOOLEAN, onDisconnect(killed)
      PROVE  Streaming'
  <2>1. /\ UNCHANGED <<serverCache, putsToAck, serverDb>>
        /\ toClient' = <<>> /\ listening' = FALSE
    BY <1>7 DEF onDisconnect, Forget, treeVars
  <2>2. Flow(<<>>, serverCache, serverDb, FALSE, Range(putsToAck))
    BY <1>1, EmptyFlow
  <2> QED
    BY <2>1, <2>2 DEF Streaming
<1>8. CASE serverReceives
  <2>1. UNCHANGED <<serverCache, putsToAck, listening>>
    BY <1>8 DEF serverReceives, treeVars, putVars
  <2>2. CASE UNCHANGED <<serverDb, toClient>>
    BY <1>1, <2>1, <2>2 DEF Streaming
  <2>3. ASSUME NEW id, serverDb' = serverDb \cup ({id} \ Refused),
               toClient' = toClient \o (IF id \in Refused THEN <<>> ELSE told(id)) \o <<PutReply(id)>>
        PROVE  Streaming'
    <3>1. Flow(toClient', serverCache, serverDb', listening, Range(putsToAck))
      BY <2>3, AnsweredPut
    <3> QED
      BY <2>1, <3>1 DEF Streaming
  <2> QED
    BY <1>8, <2>2, <2>3 DEF serverReceives
<1>9. CASE serverFetched
  <2>1. UNCHANGED <<serverCache, putsToAck, serverDb>> /\ fetching # 0
    BY <1>9 DEF serverFetched, treeVars, putVars
  <2>2. CASE /\ listening' = TRUE
             /\ toClient' = toClient \o <<Data(serverDb), ListenReply(fetching, TRUE)>>
    <3>1. Flow(toClient', serverCache, serverDb, TRUE, Range(putsToAck))
      BY <2>1, <2>2, FetchedListen
    <3> QED
      BY <2>1, <2>2, <3>1 DEF Streaming
  <2>3. CASE listening' = listening /\ toClient' = Append(toClient, ListenReply(fetching, FALSE))
    <3>1. Flow(toClient', serverCache, serverDb, FALSE, Range(putsToAck)) /\ listening = FALSE
      BY <2>1, <2>3, RefusedListen, Fetching
    <3> QED
      BY <2>1, <2>3, <3>1 DEF Streaming
  <2> QED
    BY <1>9, <2>2, <2>3 DEF serverFetched
<1>15. CASE serverRevokes
  <2>1. /\ UNCHANGED <<serverCache, putsToAck, serverDb>> /\ listening' = FALSE
        /\ listening \/ fetching # 0
        /\ toClient' = toClient \o <<ListenRevoked>>
                                \o (IF fetching # 0 THEN <<ListenReply(fetching, FALSE)>> ELSE <<>>)
    BY <1>15 DEF serverRevokes, treeVars, putVars
  <2>2. Flow(toClient', serverCache, serverDb, FALSE, Range(putsToAck))
    <3>1. CASE fetching # 0
      <4>1. toClient' = toClient \o <<ListenRevoked>> \o <<ListenReply(fetching, FALSE)>>
        BY <2>1, <3>1
      <4> QED
        BY <3>1, <4>1, RefusedListen
    <3>2. CASE fetching = 0
      <4>1. toClient' = toClient \o <<ListenRevoked>> \o <<>> /\ listening
        BY <2>1, <3>2
      <4> QED
        BY <4>1, RevokedListen
    <3> QED
      BY <3>1, <3>2
  <2> QED
    BY <2>1, <2>2 DEF Streaming
<1>10. ASSUME NEW id, serverStores(id)
       PROVE  Streaming'
  <2>1. /\ UNCHANGED <<serverCache, putsToAck, listening>>
        /\ serverDb' = serverDb \cup ({id} \ Refused)
        /\ toClient' = toClient \o (IF id \in Refused THEN <<>> ELSE told(id))
    BY <1>10 DEF serverStores, treeVars, putVars
  <2>2. Flow(toClient', serverCache, serverDb', listening, Range(putsToAck))
    BY <2>1, StoreMessages
  <2> QED
    BY <2>1, <2>2 DEF Streaming
<1> DEFINE Same == UNCHANGED <<toClient, serverCache, serverDb, listening, putsToAck>>
<1>11. Same => Streaming'
  BY <1>1 DEF Streaming
<1>12. CASE set \/ observe \/ retry \/ tokenFetched \/ onReady
  <2>1. Same
    BY <1>12 DEF set, observe, retry, tokenFetched, onReady, treeVars, putVars, serverVars
  <2> QED
    BY <1>11, <2>1
<1>13. CASE UNCHANGED vars
  <2>1. Same
    BY <1>13 DEF vars, treeVars, putVars, serverVars
  <2> QED
    BY <1>11, <2>1
<1> QED
  BY <1>3, <1>4, <1>5, <1>6, <1>7, <1>8, <1>9, <1>10, <1>12, <1>13, <1>14, <1>15 DEF Next, Client, Server

-----------------------------------------------------------------------------
(* Each step keeps it: the listen *)

\* A message on its way to the server, put or listen.
LEMMA SentMore ==
  ASSUME Asking, NEW m, NEW t, Extended(toServer, m, t), m.kind = "listen" => ~Asked
  PROVE  /\ IsSeq(t) /\ Sole(t, "listen")
         /\ Has(t, "listen") <=> Asked \/ m.kind = "listen"
         /\ m.kind = "listen" => \A n \in 1..Len(t) : Kind(t, n, "listen") => t[n].spec = m.spec
         /\ m.kind # "listen" => \A n \in 1..Len(t) : Kind(t, n, "listen") => t[n].spec = listens
<1>1. /\ IsSeq(toServer) /\ Sole(toServer, "listen")
      /\ \A n \in 1..Len(toServer) : Kind(toServer, n, "listen") => toServer[n].spec = listens
  BY DEF Asking
<1>2. Extended(toServer, m, t)
  OBVIOUS
<1>3. IsSeq(t)
  BY <1>2 DEF Extended
<1>4. Has(t, "listen") <=> Asked \/ m.kind = "listen"
  BY <1>2, ExtendSays DEF Asked
<1>5. /\ \A n \in 1..Len(t) : n \in 1..Len(toServer) \/ n = Len(toServer) + 1
      /\ \A n \in 1..Len(toServer) : t[n] = toServer[n]
      /\ \A n \in 1..Len(toServer) : Kind(t, n, "listen") <=> Kind(toServer, n, "listen")
      /\ Kind(t, Len(toServer) + 1, "listen") <=> m.kind = "listen"
      /\ t[Len(toServer) + 1] = m
  BY <1>2, ExtendSays
<1>6. m.kind = "listen" => \A n \in 1..Len(toServer) : ~Kind(toServer, n, "listen")
  BY DEF Asked, Has, Kind
<1>7. Sole(t, "listen")
  BY <1>1, <1>5, <1>6 DEF Sole
<1>8. /\ m.kind = "listen" => \A n \in 1..Len(t) : Kind(t, n, "listen") => t[n].spec = m.spec
      /\ m.kind # "listen" => \A n \in 1..Len(t) : Kind(t, n, "listen") => t[n].spec = listens
  BY <1>1, <1>5, <1>6
<1> QED
  BY <1>3, <1>4, <1>7, <1>8

\* The talk is the same when what it is about is.
LEMMA SameTalk ==
  ASSUME NEW s, NEW l, NEW c, NEW out, NEW on, NEW out2, NEW on2,
         Talk(s, l, c, out, on), out <=> out2, on <=> on2
  PROVE  Talk(s, l, c, out2, on2) /\ Unanswered(s, l, out2) = Unanswered(s, l, out)
BY DEF Talk, Unanswered, One

\* The client takes a message that is not about the listen.
LEMMA TakenTalk ==
  ASSUME IInv, NEW kind, received(kind), kind \notin {"listenReply", "listenRevoked"},
         toClient' = Tail(toClient), complete' = complete \/ (complete' = TRUE /\ kind = "data"),
         UNCHANGED <<listenVars, unackedListensCount, connectionState, toServer, fetching, listening>>
  PROVE  Asking'
<1>1. Asking /\ Talk(toClient, listens, listenSpecs, Out, listening)
  BY DEF IInv, Asking
<1>2. /\ Dropped(toClient, Tail(toClient)) /\ toClient[1].kind = kind
      /\ 1 \in 1..Len(toClient)
  BY FirstMessage
<1>3. /\ ~Kind(toClient, 1, "listenReply") /\ ~Kind(toClient, 1, "listenRevoked")
      /\ ~Refusal(toClient, listens, 1)
  BY <1>2 DEF Kind, Refusal
<1>4. /\ Talk(toClient', listens, listenSpecs, Out, listening)
      /\ Current(toClient, listens) <=> Current(toClient', listens)
      /\ Stale(toClient, listens) <=> Stale(toClient', listens)
      /\ Ending(toClient, listens) <=> Ending(toClient', listens)
  <2> DEFINE t == Tail(toClient)
  <2>1. Dropped(toClient, t) /\ toClient' = t
    BY <1>2
  <2> HIDE DEF t
  <2>2. /\ Talk(t, listens, listenSpecs, Out, listening)
        /\ Current(toClient, listens) <=> Current(t, listens)
        /\ Stale(toClient, listens) <=> Stale(t, listens)
        /\ Ending(toClient, listens) <=> Ending(t, listens)
    BY ONLY <1>1, <1>3, <2>1, DropTalk
  <2> QED
    BY ONLY <2>1, <2>2
<1>5. Unanswered(toClient', listens, Out) = Unanswered(toClient, listens, Out)
  BY ONLY <1>4 DEF Unanswered, One
<1>6. (Out' <=> Out) /\ (Asked' <=> Asked)
  BY DEF Out, Asked
<1>7. kind = "data" => listens # 0
  <2>1. kind = "data" => ~Quiet(toClient, 1)
    BY <1>2 DEF Quiet, Kind
  <2> QED
    BY <1>1, <1>2, <2>1 DEF Talk
<1>8. (complete' => listens # 0) /\ complete' \in BOOLEAN
  <2>1. (complete => listens # 0) /\ complete \in BOOLEAN
    BY <1>1 DEF Asking
  <2>2. CASE complete' = complete
    BY ONLY <2>1, <2>2
  <2>3. CASE complete' = TRUE /\ kind = "data"
    BY ONLY <1>7, <2>3
  <2> QED
    BY <2>2, <2>3
<1>9. /\ Talk(toClient', listens', listenSpecs', Out', listening')
      /\ Unanswered(toClient', listens', Out') = Unanswered(toClient, listens, Out)
  <2>1. UNCHANGED <<listens, listenSpecs, listening>>
    BY DEF listenVars
  <2>2. /\ Talk(toClient', listens, listenSpecs, Out', listening)
        /\ Unanswered(toClient', listens, Out') = Unanswered(toClient', listens, Out)
    BY ONLY <1>4, <1>6, SameTalk
  <2> QED
    BY ONLY <1>5, <2>1, <2>2
<1>10. connectionState = "Connected"
  BY <1>1 DEF Asking, received
<1> QED
  BY <1>1, <1>4, <1>6, <1>8, <1>9, <1>10 DEF Asking, listenVars

\* The server has sent more, and what is under way has its place.
LEMMA SaidTalk ==
  ASSUME Asking, NEW out \in BOOLEAN, connectionState = "Connected",
         UNCHANGED <<listenVars, complete, unackedListensCount, connectionState>>,
         IsSeq(toServer'), Sole(toServer', "listen"),
         \A n \in 1..Len(toServer') : Kind(toServer', n, "listen") => toServer'[n].spec = listens,
         fetching' \in {0, listens}, listening' \in BOOLEAN, ~(Asked' /\ fetching' # 0), Out' <=> out,
         Talk(toClient', listens, listenSpecs, out, listening'),
         listens # 0 => out \/ listening' \/ Ending(toClient', listens),
         Unanswered(toClient', listens, out) = Unanswered(toClient, listens, Out)
  PROVE  Asking'
<1>1. /\ listenSpecs \in Nat /\ listens \in 0..listenSpecs /\ complete \in BOOLEAN
      /\ complete => listens # 0
      /\ unackedListensCount = Unanswered(toClient, listens, Out)
  BY DEF Asking
<1>2. UNCHANGED <<listens, listenSpecs>>
  BY DEF listenVars
<1>3. /\ Talk(toClient', listens, listenSpecs, Out', listening')
      /\ Unanswered(toClient', listens, Out') = Unanswered(toClient', listens, out)
  BY SameTalk
<1>4. /\ Talk(toClient', listens', listenSpecs', Out', listening')
      /\ unackedListensCount' = Unanswered(toClient', listens', Out')
  BY <1>1, <1>2, <1>3
<1> QED
  BY <1>1, <1>2, <1>4 DEF Asking

\* A listen is answered or cancelled.
LEMMA AnswerTalk ==
  ASSUME IInv, onListenReply \/ onListenRevoked
  PROVE  Asking'
<1>1. /\ UNCHANGED <<listenSpecs, connectionState, toServer, fetching, listening>>
      /\ toClient' = Tail(toClient)
      /\ received("listenReply") \/ received("listenRevoked")
  BY DEF onListenReply, onListenRevoked, linkVars, serverVars
<1>2. /\ Asking /\ Talk(toClient, listens, listenSpecs, Out, listening)
      /\ unackedListensCount = Unanswered(toClient, listens, Out)
      /\ connectionState = "Connected" /\ fetching \in {0, listens}
      /\ complete \in BOOLEAN /\ listening \in BOOLEAN /\ listenSpecs \in Nat
  BY <1>1 DEF IInv, Asking, received
<1>3. (Out' <=> Out) /\ (Asked' <=> Asked)
  BY <1>1 DEF Out, Asked
<1> DEFINE t == Tail(toClient)
<1>4. CASE /\ listens' = 0 /\ complete' = FALSE
           /\ Talk(t, 0, listenSpecs, FALSE, listening) /\ ~Out
           /\ unackedListensCount' = Unanswered(t, 0, FALSE)
  <2>1. ~Asked /\ fetching = 0 /\ (FALSE <=> Out')
    BY <1>3, <1>4 DEF Out
  <2>2. \A n \in 1..Len(toServer) : ~Kind(toServer, n, "listen")
    BY <2>1 DEF Asked, Has, Kind
  <2>3. /\ Talk(t, 0, listenSpecs, Out', listening)
        /\ Unanswered(t, 0, Out') = Unanswered(t, 0, FALSE)
    <3> HIDE DEF t
    <3> QED
      BY ONLY <1>4, <2>1 DEF Talk, Unanswered, One
  <2>4. /\ Talk(toClient', listens', listenSpecs', Out', listening')
        /\ unackedListensCount' = Unanswered(toClient', listens', Out')
    BY <1>1, <1>4, <2>3
  <2>5. /\ IsSeq(toServer') /\ Sole(toServer', "listen")
        /\ \A n \in 1..Len(toServer') : ~Kind(toServer', n, "listen")
        /\ listenSpecs' \in Nat /\ ~(fetching' # 0) /\ listening' \in BOOLEAN
        /\ connectionState' = "Connected"
    BY <1>1, <1>2, <2>1, <2>2 DEF Asking
  <2>6. listens' \in 0..listenSpecs' /\ fetching' \in {0, listens'} /\ ~(listens' # 0)
    <3>1. listens' = 0 /\ fetching' = 0 /\ listenSpecs' = listenSpecs /\ listenSpecs \in Nat
      BY <1>1, <1>2, <1>4, <2>1
    <3> QED
      BY ONLY <3>1
  <2>7. complete' \in BOOLEAN /\ ~complete'
    BY <1>4
  <2> QED
    BY ONLY <2>4, <2>5, <2>6, <2>7 DEF Asking
<1>5. ASSUME received("listenReply"), listens' = listens, complete' = complete \/ complete' = TRUE,
             unackedListensCount' = unackedListensCount - 1,
             IF Head(toClient).spec = listens THEN Head(toClient).ok ELSE complete' = complete
      PROVE  Asking'
  <2>1. /\ Dropped(toClient, t) /\ Head(toClient) = toClient[1]
        /\ Kind(toClient, 1, "listenReply") /\ ~Kind(toClient, 1, "listenRevoked")
        /\ 1 \in 1..Len(toClient)
    BY <1>5, FirstMessage DEF Kind
  <2>2. ~Refusal(toClient, listens, 1)
    BY <1>5, <2>1 DEF Refusal
  <2>3. /\ Talk(t, listens, listenSpecs, Out, listening)
        /\ Current(toClient, listens) <=> Current(t, listens) \/ toClient[1].spec = listens
        /\ Stale(toClient, listens) <=> Stale(t, listens) \/ toClient[1].spec # listens
        /\ ~(IF toClient[1].spec = listens THEN Current(t, listens) ELSE Stale(t, listens))
        /\ Ending(toClient, listens) <=> Ending(t, listens)
    <3> HIDE DEF t
    <3> QED
      BY ONLY <1>2, <2>1, <2>2, DropTalk
  <2>4. Unanswered(t, listens, Out) = Unanswered(toClient, listens, Out) - 1
    <3> HIDE DEF t
    <3> QED
      BY ONLY <2>3 DEF Unanswered, One
  <2>5. /\ Talk(t, listens, listenSpecs, Out', listening)
        /\ Unanswered(t, listens, Out') = Unanswered(t, listens, Out)
    BY <1>3, <2>3, SameTalk
  <2>6. /\ Talk(toClient', listens', listenSpecs', Out', listening')
        /\ unackedListensCount' = Unanswered(toClient', listens', Out')
    BY ONLY <1>1, <1>2, <1>5, <2>4, <2>5
  <2>7. complete' \in BOOLEAN /\ (complete' => listens # 0)
    <3>1. toClient[1].spec # 0
      BY <1>2, <2>1 DEF Talk
    <3>2. complete => listens # 0
      BY <1>2 DEF Asking
    <3>3. CASE toClient[1].spec = listens
      BY <1>2, <1>5, <3>1, <3>3
    <3>4. CASE toClient[1].spec # listens
      BY <1>2, <1>5, <2>1, <3>2, <3>4
    <3> QED
      BY <3>3, <3>4
  <2>8. Ending(toClient', listens') <=> Ending(toClient, listens)
    BY <1>1, <1>5, <2>3
  <2> QED
    BY ONLY <1>1, <1>2, <1>3, <1>5, <2>6, <2>7, <2>8 DEF Asking
<1>6. CASE onListenRevoked
  <2>1. /\ received("listenRevoked") /\ listens' = 0 /\ complete' = FALSE
        /\ unackedListensCount' = unackedListensCount
    BY <1>6 DEF onListenRevoked, cancelled, putVars
  <2>2. /\ Talk(t, 0, listenSpecs, FALSE, listening) /\ ~Out
        /\ unackedListensCount = Unanswered(t, 0, FALSE)
    BY <2>1, CancelledListen
  <2> QED
    BY <1>4, <2>1, <2>2
<1>7. CASE onListenReply
  <2> DEFINE m == Head(toClient)
  <2>1. received("listenReply") /\ unackedListensCount' = unackedListensCount - 1
    BY <1>7 DEF onListenReply
  <2>2. CASE m.spec = listens /\ ~m.ok /\ cancelled
    <3>1. /\ Talk(t, 0, listenSpecs, FALSE, listening) /\ ~Out
          /\ unackedListensCount - 1 = Unanswered(t, 0, FALSE)
      BY <2>1, <2>2, CancelledListen
    <3>2. listens' = 0 /\ complete' = FALSE
      BY <2>2 DEF cancelled
    <3> QED
      BY <1>4, <2>1, <3>1, <3>2
  <2>3. CASE m.spec = listens /\ m.ok /\ complete' = TRUE /\ UNCHANGED listens
    BY <1>5, <2>1, <2>3
  <2>4. CASE m.spec # listens /\ UNCHANGED <<listens, complete>>
    BY <1>5, <2>1, <2>4
  <2> QED
    BY <1>7, <2>2, <2>3, <2>4 DEF onListenReply
<1> QED
  BY <1>6, <1>7

\* The connection is new or gone.
LEMMA NewTalk ==
  ASSUME IsSeq(toServer'), Sole(toServer', "listen"),
         \A n \in 1..Len(toServer') : Kind(toServer', n, "listen") => toServer'[n].spec = listens',
         listenSpecs' \in Nat, listens' \in 0..listenSpecs', complete' \in BOOLEAN, complete' => listens' # 0,
         toClient' = <<>>, ~(fetching' # 0), fetching' \in {0, listens'}, listening' \in BOOLEAN, ~listening',
         connectionState' # "Connected" => toServer' = <<>>,
         Asked' <=> connectionState' = "Connected" /\ listens' # 0,
         unackedListensCount' = IF Asked' THEN 1 ELSE 0
  PROVE  Asking'
<1>1. Out' <=> Asked'
  BY DEF Out
<1>2. /\ Talk(<<>>, listens', listenSpecs', Out', FALSE)
      /\ ~Current(<<>>, listens') /\ ~Stale(<<>>, listens')
  <2>1. Out' => listens' # 0
    BY <1>1
  <2> QED
    BY ONLY <2>1, EmptyTalk
<1>3. Talk(toClient', listens', listenSpecs', Out', listening')
  BY <1>2, SameTalk
<1>4. unackedListensCount' = Unanswered(toClient', listens', Out')
  BY <1>1, <1>2 DEF Unanswered, One
<1> QED
  BY <1>1, <1>3, <1>4 DEF Asking

LEMMA AskingStep == IInv /\ [Next]_vars => Asking'
<1> SUFFICES ASSUME IInv, [Next]_vars
             PROVE  Asking'
  OBVIOUS
<1>1. Asking /\ Pending /\ Talk(toClient, listens, listenSpecs, Out, listening)
  BY DEF IInv, Asking
<1>2. /\ IsSeq(toServer) /\ Sole(toServer, "listen")
      /\ \A n \in 1..Len(toServer) : Kind(toServer, n, "listen") => toServer[n].spec = listens
      /\ listenSpecs \in Nat /\ listens \in 0..listenSpecs /\ fetching \in {0, listens}
      /\ listening \in BOOLEAN /\ complete \in BOOLEAN
      /\ connectionState # "Connected" =>
           toServer = <<>> /\ toClient = <<>> /\ fetching = 0 /\ ~listening
      /\ connectionState = "Connected" /\ listens # 0 => Out \/ listening \/ Ending(toClient, listens)
      /\ complete => listens # 0
      /\ ~(Asked /\ fetching # 0)
      /\ unackedListensCount = Unanswered(toClient, listens, Out)
  BY <1>1 DEF Asking
<1>3. /\ IsSeq(<<>>) /\ Sole(<<>>, "listen") /\ ~Has(<<>>, "listen")
      /\ \A n \in 1..Len(<<>>) : FALSE
      /\ \A l : ~Current(<<>>, l) /\ ~Stale(<<>>, l)
  BY EmptyTalk
<1> DEFINE Same == UNCHANGED <<listenVars, complete, unackedListensCount, toClient, fetching, listening>>
<1>4. ASSUME Same, connectionState = "Connected" <=> connectionState' = "Connected",
             IsSeq(toServer'), Sole(toServer', "listen"), Asked' <=> Asked,
             \A n \in 1..Len(toServer') : Kind(toServer', n, "listen") => toServer'[n].spec = listens,
             toServer' = toServer \/ connectionState = "Connected"
      PROVE  Asking'
  <2>1. UNCHANGED <<listens, listenSpecs, complete, unackedListensCount, toClient, fetching, listening>>
    BY <1>4 DEF listenVars
  <2>2. Out' <=> Out
    BY <1>4, <2>1 DEF Out
  <2>3. /\ Talk(toClient, listens, listenSpecs, Out', listening)
        /\ Unanswered(toClient, listens, Out') = Unanswered(toClient, listens, Out)
    BY <1>1, <2>2, SameTalk
  <2>4. /\ Talk(toClient', listens', listenSpecs', Out', listening')
        /\ unackedListensCount' = Unanswered(toClient', listens', Out')
    BY <1>2, <2>1, <2>3
  <2> QED
    BY ONLY <1>2, <1>4, <2>1, <2>2, <2>4 DEF Asking
<1>5. CASE set
  <2>1. Same /\ connectionState' = connectionState
    BY <1>5 DEF set, linkVars, serverVars
  <2>2. CASE UNCHANGED toServer
    BY <1>2, <1>4, <2>1, <2>2 DEF Asked
  <2>3. CASE connectionState = "Connected" /\ toServer' = Append(toServer, Put(writeIdCounter + 1))
    <3> DEFINE m == Put(writeIdCounter + 1)
    <3>1. toServer' = Append(toServer, m) /\ m.kind # "listen"
      BY <2>3 DEF Put
    <3> HIDE DEF m
    <3>2. /\ IsSeq(toServer') /\ Sole(toServer', "listen") /\ (Asked' <=> Asked)
          /\ \A n \in 1..Len(toServer') : Kind(toServer', n, "listen") => toServer'[n].spec = listens
      <4>1. Extended(toServer, m, toServer')
        BY <1>2, <3>1, AppendSeq
      <4>2. Asking /\ (m.kind = "listen" => ~Asked)
        BY <1>1, <3>1
      <4>3. IsSeq(toServer') /\ Sole(toServer', "listen")
        BY ONLY <4>1, <4>2, SentMore
      <4>4. Has(toServer', "listen") <=> Asked \/ m.kind = "listen"
        BY ONLY <4>1, <4>2, SentMore
      <4>5. Has(toServer', "listen") <=> Asked'
        BY DEF Asked
      <4>6. Asked' <=> Asked
        BY ONLY <3>1, <4>4, <4>5, Zenon
      <4>7. m.kind # "listen" =>
              \A n \in 1..Len(toServer') : Kind(toServer', n, "listen") => toServer'[n].spec = listens
        BY ONLY <4>1, <4>2, SentMore
      <4>8. m.kind # "listen"
        BY <3>1
      <4> QED
        BY ONLY <4>3, <4>6, <4>7, <4>8
    <3> QED
      BY <1>4, <2>1, <2>3, <3>2
  <2> QED
    BY <1>5, <2>2, <2>3 DEF set, canSendWrites
<1>6. CASE observe
  <2>1. /\ listens = 0 /\ listenSpecs' = listenSpecs + 1 /\ listens' = listenSpecs + 1
        /\ UNCHANGED <<complete, connectionState, toClient, fetching, listening>>
    BY <1>6 DEF observe, linkVars, serverVars, treeVars
  <2>2. /\ ~Out /\ ~listening /\ \A b : Talk(toClient, listenSpecs + 1, listenSpecs + 1, b, FALSE)
        /\ ~Current(toClient, 0) /\ ~Current(toClient, listenSpecs + 1)
        /\ Stale(toClient, 0) <=> Stale(toClient, listenSpecs + 1)
    <3>1. Talk(toClient, 0, listenSpecs, Out, listening) /\ listenSpecs \in Nat
      BY <1>1, <1>2, <2>1
    <3> QED
      BY ONLY <3>1, ObserveTalk
  <2>3. ~complete /\ fetching = 0 /\ ~Asked
    BY <1>2, <2>1, <2>2 DEF Out
  <2>4. CASE connectionState = "Connected"
    <3> DEFINE m == Listen(listenSpecs + 1)
    <3>1. toServer' = Append(toServer, m) /\ unackedListensCount' = unackedListensCount + 1
      BY <1>6, <2>1, <2>4 DEF observe, canSendWrites
    <3>2. m.kind = "listen" /\ m.spec = listenSpecs + 1
      BY DEF Listen
    <3> HIDE DEF m
    <3>3. /\ IsSeq(toServer') /\ Sole(toServer', "listen") /\ Asked'
          /\ \A n \in 1..Len(toServer') : Kind(toServer', n, "listen") => toServer'[n].spec = listenSpecs + 1
      <4>1. Extended(toServer, m, toServer')
        BY <1>2, <3>1, AppendSeq
      <4>2. /\ IsSeq(toServer') /\ Sole(toServer', "listen") /\ Has(toServer', "listen")
            /\ \A n \in 1..Len(toServer') : Kind(toServer', n, "listen") => toServer'[n].spec = m.spec
        BY <1>1, <2>3, <3>2, <4>1, SentMore
      <4> QED
        BY <3>2, <4>2 DEF Asked
    <3>4. Out'
      BY <3>3 DEF Out
    <3>5. Talk(toClient', listens', listenSpecs', Out', listening')
      BY <2>1, <2>2, SameTalk
    <3>6. unackedListensCount' = Unanswered(toClient', listens', Out')
      <4>1. unackedListensCount = One(Stale(toClient, 0))
        BY <1>2, <2>1, <2>2 DEF Unanswered, One
      <4>2. Unanswered(toClient, listenSpecs + 1, Out') = 1 + One(Stale(toClient, 0))
        BY <2>2, <3>4 DEF Unanswered, One
      <4>3. One(Stale(toClient, 0)) \in Int
        BY DEF One
      <4> QED
        BY <2>1, <3>1, <4>1, <4>2, <4>3
    <3>7. listens' \in 0..listenSpecs' /\ listenSpecs' \in Nat /\ fetching' = 0
      BY <1>2, <2>1, <2>3
    <3> QED
      BY ONLY <1>2, <2>1, <2>3, <2>4, <3>3, <3>4, <3>5, <3>6, <3>7 DEF Asking
  <2>5. CASE connectionState # "Connected"
    <3>1. UNCHANGED <<toServer, unackedListensCount>>
      BY <1>6, <2>5 DEF observe, canSendWrites
    <3>2. toServer = <<>> /\ toClient = <<>> /\ fetching = 0 /\ ~listening
      BY <1>2, <2>5
    <3>3. unackedListensCount = 0
      BY <1>2, <1>3, <2>2, <3>2 DEF Unanswered, One
    <3>4. /\ listenSpecs' \in Nat /\ listens' \in 0..listenSpecs' /\ fetching' \in {0, listens'}
          /\ ~(fetching' # 0)
      BY <1>2, <2>1, <3>2
    <3>5. complete' \in BOOLEAN /\ ~complete' /\ listening' \in BOOLEAN /\ ~listening'
      BY <1>2, <2>1, <2>3, <3>2
    <3>6. /\ IsSeq(toServer') /\ Sole(toServer', "listen") /\ ~Asked' /\ toServer' = <<>> /\ toClient' = <<>>
          /\ \A n \in 1..Len(toServer') : FALSE
      BY <1>3, <2>1, <3>1, <3>2 DEF Asked
    <3>7. connectionState' # "Connected" /\ unackedListensCount' = 0
      BY <2>1, <2>5, <3>1, <3>3
    <3> QED
      BY ONLY <3>4, <3>5, <3>6, <3>7, NewTalk
  <2> QED
    BY <2>4, <2>5
<1>7. CASE retry \/ tokenFetched
  <2>1. /\ Same /\ UNCHANGED toServer
        /\ connectionState # "Connected" /\ connectionState' # "Connected"
    BY <1>7 DEF retry, tokenFetched, treeVars, putVars, serverVars
  <2> QED
    BY <1>2, <1>4, <2>1 DEF Asked
<1>8. CASE onReady
  <2>1. /\ connectionState # "Connected" /\ connectionState' = "Connected"
        /\ toServer' = restored
        /\ unackedListensCount' = unackedListensCount + (IF listens # 0 THEN 1 ELSE 0)
        /\ UNCHANGED <<complete, listens, listenSpecs, toClient, fetching, listening>>
    BY <1>8 DEF onReady, treeVars, listenVars, serverVars
  <2>2. toServer = <<>> /\ toClient = <<>> /\ fetching = 0 /\ ~listening
    BY <1>2, <2>1
  <2>3. ~Out
    BY <1>3, <2>2 DEF Out, Asked
  <2>4. unackedListensCount = 0
    BY <1>2, <1>3, <2>2, <2>3 DEF Unanswered, One
  <2>5. /\ IsSeq(toServer') /\ Sole(toServer', "listen") /\ (Asked' <=> listens' # 0)
        /\ \A n \in 1..Len(toServer') : Kind(toServer', n, "listen") => toServer'[n].spec = listens'
    BY <1>1, <2>1, RestoredSeq DEF Asked
  <2>6. unackedListensCount' = IF Asked' THEN 1 ELSE 0
    BY <2>1, <2>4, <2>5
  <2>7. /\ listenSpecs' \in Nat /\ listens' \in 0..listenSpecs' /\ fetching' \in {0, listens'}
        /\ ~(fetching' # 0) /\ toClient' = <<>>
    BY <1>2, <2>1, <2>2
  <2>8. complete' \in BOOLEAN /\ (complete' => listens' # 0) /\ listening' \in BOOLEAN /\ ~listening'
    BY <1>2, <2>1, <2>2
  <2> QED
    BY ONLY <2>1, <2>5, <2>6, <2>7, <2>8, NewTalk
<1>9. CASE onDataUpdate
  <2>1. /\ toClient' = Tail(toClient)
        /\ UNCHANGED <<listenVars, unackedListensCount, connectionState, toServer, fetching, listening>>
    BY <1>9 DEF onDataUpdate, putVars, linkVars, serverVars
  <2>2. CASE received("data") /\ complete' = TRUE
    BY <2>1, <2>2, TakenTalk
  <2>3. CASE received("child") /\ UNCHANGED complete
    BY <2>1, <2>3, TakenTalk
  <2> QED
    BY <1>9, <2>2, <2>3 DEF onDataUpdate
<1>10. CASE onPutReply
  <2>1. /\ received("putReply") /\ toClient' = Tail(toClient) /\ UNCHANGED complete
        /\ UNCHANGED <<listenVars, unackedListensCount, connectionState, toServer, fetching, listening>>
    BY <1>10 DEF onPutReply, linkVars, serverVars
  <2> QED
    BY <2>1, TakenTalk
<1>11. CASE onListenReply \/ onListenRevoked
  BY <1>11, AnswerTalk
<1>12. ASSUME restart \/ \E killed \in BOOLEAN : onDisconnect(killed)
       PROVE  Asking'
  <2>1. /\ unackedListensCount' = 0 /\ connectionState' = "Disconnected"
        /\ toServer' = <<>> /\ toClient' = <<>> /\ fetching' = 0 /\ listening' = FALSE
    BY <1>12 DEF restart, onDisconnect, Forget, unackedAfterDisconnect
  <2>2. \/ listenSpecs' = 0 /\ listens' = 0 /\ complete' = FALSE
        \/ UNCHANGED <<listenSpecs, listens, complete>>
    BY <1>12 DEF restart, onDisconnect, treeVars, listenVars
  <2>3. listenSpecs' \in Nat /\ listens' \in 0..listenSpecs'
    BY <1>2, <2>2
  <2>4. complete' \in BOOLEAN /\ (complete' => listens' # 0)
    <3>1. CASE complete' = FALSE
      BY <3>1
    <3>2. CASE UNCHANGED <<listens, complete>>
      BY <1>2, <3>2
    <3> QED
      BY <2>2, <3>1, <3>2
  <2>5. /\ IsSeq(toServer') /\ Sole(toServer', "listen") /\ ~Asked'
        /\ \A n \in 1..Len(toServer') : FALSE
    BY <1>3, <2>1 DEF Asked
  <2> QED
    BY ONLY <2>1, <2>3, <2>4, <2>5, NewTalk
<1> DEFINE Kept == UNCHANGED <<listenVars, complete, unackedListensCount, connectionState>>
<1>13. CASE serverReceives
  <2> DEFINE m == Head(toServer)
             t == Tail(toServer)
  <2>1. toServer # <<>> /\ toServer' = t /\ listening' = listening /\ Kept
    BY <1>13 DEF serverReceives, treeVars, putVars, linkVars
  <2>2. Dropped(toServer, t) /\ m = toServer[1]
    BY <1>2, <2>1, TailSeq
  <2>3. /\ IsSeq(t) /\ Sole(t, "listen")
        /\ Asked <=> Has(t, "listen") \/ m.kind = "listen"
        /\ ~(Has(t, "listen") /\ m.kind = "listen")
        /\ m.kind = "listen" => m.spec = listens
        /\ \A n \in 1..Len(t) : Kind(t, n, "listen") => t[n].spec = listens
    <3> HIDE DEF t, m
    <3>1. IsSeq(t) /\ 1 \in 1..Len(toServer)
      BY <2>2 DEF Dropped
    <3>2. /\ Sole(t, "listen")
          /\ Asked <=> Has(t, "listen") \/ m.kind = "listen"
          /\ ~(Has(t, "listen") /\ m.kind = "listen")
      BY <1>2, <2>2, DropHas DEF Asked
    <3>3. m.kind = "listen" => m.spec = listens
      BY <1>2, <2>2, <3>1 DEF Kind
    <3>4. \A n \in 1..Len(t) : Kind(t, n, "listen") => t[n].spec = listens
      BY <1>2, <2>2, DropPlaces
    <3> QED
      BY <3>1, <3>2, <3>3, <3>4
  <2>4. Asked' <=> Has(t, "listen")
    BY <2>1 DEF Asked
  <2>5. connectionState = "Connected"
    BY <1>2, <2>1
  <2>6. CASE m.kind = "listen" /\ fetching' = m.spec /\ UNCHANGED toClient
    <3>1. Out /\ fetching' = listens
      BY <2>3, <2>6 DEF Out
    <3>2. listens # 0
      BY <1>1, <3>1 DEF Talk
    <3>3. Out'
      BY <3>1, <3>2 DEF Out
    <3>4. /\ Talk(toClient, listens, listenSpecs, TRUE, listening)
          /\ Unanswered(toClient, listens, TRUE) = Unanswered(toClient, listens, Out)
      BY <1>1, <3>1 DEF Talk, Unanswered, One
    <3>5. Talk(toClient', listens, listenSpecs, TRUE, listening') /\ listening' \in BOOLEAN
      BY <1>2, <2>1, <2>6, <3>4
    <3>6. Unanswered(toClient', listens, TRUE) = Unanswered(toClient, listens, Out)
      BY <2>6, <3>4
    <3>7. fetching' \in {0, listens} /\ ~(Asked' /\ fetching' # 0)
      BY <2>3, <2>4, <2>6, <3>1
    <3> QED
      BY <1>1, <2>1, <2>3, <2>5, <3>3, <3>5, <3>6, <3>7, SaidTalk
  <2>7. CASE m.kind = "put" /\ fetching' = fetching /\
             toClient' = toClient \o (IF m.id \in Refused THEN <<>> ELSE told(m.id)) \o <<PutReply(m.id)>>
    <3>1. Talk(toClient', listens, listenSpecs, Out, listening) /\ SameAnswers(toClient')
      BY <2>7, AnsweredPut
    <3>2. Out' <=> Out
      BY <2>3, <2>4, <2>7 DEF Out
    <3>3. Unanswered(toClient', listens, Out) = Unanswered(toClient, listens, Out)
      BY ONLY <3>1 DEF SameAnswers, Unanswered, One
    <3>4. Talk(toClient', listens, listenSpecs, Out, listening') /\ listening' \in BOOLEAN
      BY <1>2, <2>1, <3>1
    <3>5. listens # 0 => Out \/ listening' \/ Ending(toClient', listens)
      BY <1>2, <2>1, <2>5, <3>1 DEF SameAnswers
    <3>6. fetching' \in {0, listens} /\ ~(Asked' /\ fetching' # 0)
      BY <1>2, <2>3, <2>4, <2>7
    <3>7. Out \in BOOLEAN
      BY DEF Out, Asked, Has
    <3> QED
      BY <1>1, <2>1, <2>3, <2>5, <3>2, <3>3, <3>4, <3>5, <3>6, <3>7, SaidTalk
  <2> QED
    BY <1>13, <2>6, <2>7 DEF serverReceives
<1>14. CASE serverFetched \/ serverRevokes
  <2>1. toServer' = toServer /\ Kept /\ fetching' = 0
    BY <1>14 DEF serverFetched, serverRevokes, treeVars, putVars, linkVars
  <2>2. (listening \/ fetching # 0) /\ connectionState = "Connected"
    BY <1>2, <1>14 DEF serverFetched, serverRevokes
  <2>3. Asked' <=> Asked
    BY <2>1 DEF Asked
  <2>4. ASSUME ~Asked, listening' \in BOOLEAN,
               Talk(toClient', listens, listenSpecs, FALSE, listening'),
               listening' \/ Ending(toClient', listens),
               Unanswered(toClient', listens, FALSE) = Unanswered(toClient, listens, Out)
        PROVE  Asking'
    <3>1. ~Out' /\ fetching' \in {0, listens} /\ ~(Asked' /\ fetching' # 0)
      BY <2>1, <2>3, <2>4 DEF Out
    <3>2. /\ IsSeq(toServer') /\ Sole(toServer', "listen")
          /\ \A n \in 1..Len(toServer') : Kind(toServer', n, "listen") => toServer'[n].spec = listens
      BY <1>2, <2>1
    <3> QED
      BY <1>1, <2>1, <2>2, <2>4, <3>1, <3>2, SaidTalk
  <2>5. CASE fetching # 0
    <3>1. ~Asked /\ Out /\ listening = FALSE
      BY <2>5, Fetching DEF Out
    <3>2. ASSUME NEW on \in BOOLEAN, listening' = on,
                 Talk(toClient', listens, listenSpecs, FALSE, on),
                 ~Current(toClient, listens), Current(toClient', listens),
                 Stale(toClient, listens) <=> Stale(toClient', listens),
                 on \/ Ending(toClient', listens)
          PROVE  Asking'
      <4>1. Unanswered(toClient', listens, FALSE) = Unanswered(toClient, listens, Out)
        BY ONLY <3>1, <3>2 DEF Unanswered, One
      <4> QED
        BY <2>4, <3>1, <3>2, <4>1
    <3>3. CASE listening' = TRUE /\ toClient' = toClient \o <<Data(serverDb), ListenReply(fetching, TRUE)>>
      BY <2>5, <3>2, <3>3, FetchedListen
    <3>4. CASE listening' = listening /\ toClient' = Append(toClient, ListenReply(fetching, FALSE))
      BY <2>5, <3>1, <3>2, <3>4, RefusedListen
    <3>5. CASE serverRevokes
      <4>1. /\ listening' = FALSE
            /\ toClient' = toClient \o <<ListenRevoked>> \o <<ListenReply(fetching, FALSE)>>
        BY <2>5, <3>5 DEF serverRevokes
      <4> QED
        BY <2>5, <3>2, <4>1, RefusedListen
    <3> QED
      BY <1>14, <3>3, <3>4, <3>5 DEF serverFetched
  <2>6. CASE fetching = 0
    <3>1. listening /\ listening' = FALSE /\ toClient' = toClient \o <<ListenRevoked>> \o <<>>
      BY <1>14, <2>2, <2>6 DEF serverFetched, serverRevokes
    <3>2. /\ Talk(toClient', listens, listenSpecs, FALSE, FALSE) /\ ~Out
          /\ Current(toClient, listens) <=> Current(toClient', listens)
          /\ Stale(toClient, listens) <=> Stale(toClient', listens)
          /\ Ending(toClient', listens)
      BY <3>1, RevokedListen
    <3>3. Unanswered(toClient', listens, FALSE) = Unanswered(toClient, listens, Out)
      BY ONLY <3>2 DEF Unanswered, One
    <3>4. ~Asked
      BY <3>2 DEF Out
    <3> QED
      BY <2>4, <3>1, <3>2, <3>3, <3>4
  <2> QED
    BY <2>5, <2>6
<1>15. ASSUME NEW id, serverStores(id)
       PROVE  Asking'
  <2>1. /\ toClient' = toClient \o (IF id \in Refused THEN <<>> ELSE told(id))
        /\ Kept /\ UNCHANGED <<toServer, fetching, listening>>
    BY <1>15 DEF serverStores, treeVars, putVars, linkVars
  <2>2. /\ Talk(toClient', listens, listenSpecs, Out, listening) /\ SameAnswers(toClient')
        /\ ~listening => toClient' = toClient
    <3> DEFINE t == toClient \o (IF id \in Refused THEN <<>> ELSE told(id))
    <3>1. /\ Talk(t, listens, listenSpecs, Out, listening) /\ SameAnswers(t)
      BY StoreMessages
    <3>2. toClient' = t
      BY <2>1
    <3>3. ~listening => toClient' = toClient
      <4>1. toClient \o <<>> = toClient
        BY ConcatEmptySeq DEF IInv, Streaming, Flow, Arranged, IsSeq
      <4> QED
        BY <2>1, <4>1 DEF told
    <3> HIDE DEF t
    <3> QED
      BY ONLY <3>1, <3>2, <3>3
  <2>3. Asked' <=> Asked
    BY <2>1 DEF Asked
  <2>4. CASE connectionState # "Connected"
    <3>1. Same
      BY <1>2, <2>1, <2>2, <2>4
    <3> QED
      BY <1>2, <1>4, <2>1, <2>3, <3>1
  <2>5. CASE connectionState = "Connected"
    <3>1. Unanswered(toClient', listens, Out) = Unanswered(toClient, listens, Out)
      BY ONLY <2>2 DEF SameAnswers, Unanswered, One
    <3>2. Talk(toClient', listens, listenSpecs, Out, listening') /\ listening' \in BOOLEAN
      BY <1>2, <2>1, <2>2
    <3>3. listens # 0 => Out \/ listening' \/ Ending(toClient', listens)
      BY <1>2, <2>1, <2>2, <2>5 DEF SameAnswers
    <3>4. Out' <=> Out
      BY <2>1, <2>3 DEF Out
    <3>5. Out \in BOOLEAN
      BY DEF Out, Asked, Has
    <3>6. fetching' \in {0, listens} /\ ~(Asked' /\ fetching' # 0)
      BY <1>2, <2>1, <2>3
    <3>7. /\ IsSeq(toServer') /\ Sole(toServer', "listen")
          /\ \A n \in 1..Len(toServer') : Kind(toServer', n, "listen") => toServer'[n].spec = listens
      BY <1>2, <2>1
    <3> QED
      BY <1>1, <2>1, <2>5, <3>1, <3>2, <3>3, <3>4, <3>5, <3>6, <3>7, SaidTalk
  <2> QED
    BY <2>4, <2>5
<1>16. CASE UNCHANGED vars
  <2>1. Same /\ UNCHANGED <<toServer, connectionState>>
    BY <1>16 DEF vars, treeVars, putVars, linkVars, serverVars
  <2> QED
    BY <1>2, <1>4, <2>1 DEF Asked
<1> QED
  BY <1>5, <1>6, <1>7, <1>8, <1>9, <1>10, <1>11, <1>12, <1>13, <1>14, <1>15, <1>16 DEF Next, Client, Server


-----------------------------------------------------------------------------
(* The theorems *)

\* The inductive invariant holds in every state.
THEOREM Invariance == Spec => []IInv
<1>1. IInv /\ [Next]_vars => IInv'
  BY PendingStep, AskingStep, StreamingStep DEF IInv
<1> QED
  BY InitIInv, <1>1, PTL DEF Spec

\* A write is shown as pending exactly as long as its put has no answer or its
\* answer is held back: PendingWritesAreAnswerable.
THEOREM WritesAreAnswerable == Spec => []PendingWritesAreAnswerable
<1>1. IInv => PendingWritesAreAnswerable
  BY DEF IInv, Pending
<1> QED
  BY Invariance, <1>1, PTL

\* An entry is lost only with the process, however often the connection
\* breaks: NothingForgotten.
THEOREM EntriesSurvive == Spec => []NothingForgotten
<1>1. IInv => NothingForgotten
  BY DEF IInv
<1> QED
  BY Invariance, <1>1, PTL

\* When no other answer to a listen is on its way than one that is taken now,
\* the data of every listen has been told, and what the server or a revoked
\* listen sent is complete.
LEMMA NothingAwaited ==
  ASSUME IInv, complete, toClient # <<>>, ~Out, ~Refusal(toClient, listens, 1),
         \A n \in 1..Len(toClient) : Kind(toClient, n, "listenReply") => n = 1
  PROVE  /\ Live(toClient, listening, 0)
         /\ \A n \in 1..Len(toClient) : ~Kind(toClient, n, "data")
<1>1. listening \/ Ending(toClient, listens)
  BY DEF IInv, Asking
<1>2. \A m \in 1..Len(toClient) : Kind(toClient, m, "data") =>
        \E n \in 1..Len(toClient) : m < n /\ Kind(toClient, n, "listenReply")
  BY DEF IInv, Streaming, Flow, Arranged
<1>3. \A n \in 1..Len(toClient) : ~Kind(toClient, n, "data")
  BY <1>2
<1>4. CASE Ending(toClient, listens)
  <2>1. PICK n \in 1..Len(toClient) : Kind(toClient, n, "listenRevoked")
    BY <1>4 DEF Ending, Refusal
  <2>2. \A k \in 1..Len(toClient) : n < k => ~Kind(toClient, k, "listenReply")
    BY <2>1
  <2>3. 0 < n
    BY <2>1
  <2> QED
    BY ONLY <1>3, <2>1, <2>2, <2>3 DEF Live
<1> QED
  BY <1>1, <1>3, <1>4 DEF Live

\* Then the client has every entry whose answer was held back.
LEMMA NoDataHeld ==
  ASSUME NEW s, NEW cache, NEW db, NEW on, NEW held,
         Held(s, cache, db, on, held), Live(s, on, 0), \A n \in 1..Len(s) : ~Kind(s, n, "data")
  PROVE  held \subseteq cache \cup Refused
BY DEF Held, InData

LEMMA StayStep ==
  ASSUME IInv, [Next]_vars, complete, complete'
  PROVE  (eventCache \ eventCache') \subseteq Refused
<1>1. /\ Talk(toClient, listens, listenSpecs, Out, listening)
      /\ unackedListensCount = Unanswered(toClient, listens, Out)
      /\ Flow(toClient, serverCache, serverDb, listening, Range(putsToAck))
  BY DEF IInv, Asking, Streaming
<1>2. CASE onDataUpdate
  <2>1. PICK kind : received(kind) /\ Taken(toClient, serverCache, serverCache')
    <3>1. CASE received("data") /\ serverCache' = Head(toClient).entries
      BY <3>1, FirstMessage DEF Taken, Kind
    <3>2. CASE received("child") /\ serverCache' = serverCache \cup {Head(toClient).id}
      BY <3>2, FirstMessage DEF Taken, Kind
    <3> QED
      BY <1>2, <3>1, <3>2 DEF onDataUpdate
  <2>2. serverCache \subseteq serverCache' /\ allWrites' = allWrites
    BY <1>2, <2>1, TakenFlow DEF onDataUpdate
  <2> QED
    BY <2>2 DEF eventCache
<1>3. CASE onPutReply
  <2> DEFINE id == Head(toClient).id
  <2>1. received("putReply") /\ serverCache' = serverCache
    BY <1>3 DEF onPutReply
  <2>2. CASE allWrites' = allWrites
    BY <2>1, <2>2 DEF eventCache
  <2>3. CASE allWrites' = allWrites \ {id} /\ unackedListensCount = 0
    <3>1. /\ toClient[1] = Head(toClient) /\ toClient[1].kind = "putReply"
          /\ Len(toClient) \in Nat /\ Len(toClient) >= 1 /\ toClient # <<>>
      BY <2>1, FirstMessage DEF received
    <3>2. ~Out /\ ~Current(toClient, listens) /\ ~Stale(toClient, listens)
      <4>1. Unanswered(toClient, listens, Out) = 0
        BY <1>1, <2>3
      <4> QED
        BY ONLY <4>1 DEF Unanswered, One
    <3>3. \A n \in 1..Len(toClient) : ~Kind(toClient, n, "listenReply")
      BY <3>2 DEF Current, Stale
    <3>4. ~Refusal(toClient, listens, 1)
      BY <3>1 DEF Refusal, Kind
    <3>5. /\ Live(toClient, listening, 0)
          /\ \A n \in 1..Len(toClient) : ~Kind(toClient, n, "data")
      BY <3>1, <3>2, <3>3, <3>4, NothingAwaited
    <3>6. Held(toClient, serverCache, serverDb, listening, Range(putsToAck) \cup {id})
      BY <1>1, <3>1, AnsweredFirst
    <3>7. Range(putsToAck) \cup {id} \subseteq serverCache \cup Refused
      BY <3>5, <3>6, NoDataHeld
    <3> QED
      BY <2>1, <2>3, <3>7 DEF eventCache
  <2> QED
    BY <1>3, <2>2, <2>3 DEF onPutReply, holdBack
<1>4. CASE onListenReply
  <2>1. received("listenReply")
    BY <1>4 DEF onListenReply
  <2>2. serverCache' = serverCache /\ ~(Head(toClient).spec = listens /\ ~Head(toClient).ok)
    BY <1>4 DEF onListenReply, cancelled
  <2>3. CASE allWrites' = allWrites
    BY <2>2, <2>3 DEF eventCache
  <2>4. CASE allWrites' = allWrites \ Range(putsToAck) /\ unackedListensCount - 1 = 0
    <3>1. /\ toClient[1] = Head(toClient) /\ Kind(toClient, 1, "listenReply")
          /\ 1 \in 1..Len(toClient) /\ toClient # <<>>
      BY <2>1, FirstMessage DEF received, Kind
    <3>2. ~Out /\ ~(Current(toClient, listens) /\ Stale(toClient, listens))
      <4>1. Unanswered(toClient, listens, Out) = 1
        <5>1. Unanswered(toClient, listens, Out) \in Int
          BY DEF Unanswered, One
        <5> QED
          BY <1>1, <2>4, <5>1
      <4>2. Current(toClient, listens) \/ Stale(toClient, listens)
        BY <3>1 DEF Current, Stale
      <4> QED
        BY ONLY <4>1, <4>2 DEF Unanswered, One
    <3>3. \A n \in 1..Len(toClient) : Kind(toClient, n, "listenReply") => n = 1
      <4>1. \A n \in 1..Len(toClient) : Kind(toClient, n, "listenReply") =>
              (toClient[n].spec = listens <=> toClient[1].spec = listens)
        BY <3>1, <3>2 DEF Current, Stale
      <4> QED
        BY <1>1, <3>1, <4>1 DEF Talk
    <3>4. ~Refusal(toClient, listens, 1)
      BY <2>2, <3>1 DEF Refusal
    <3>5. /\ Live(toClient, listening, 0)
          /\ \A n \in 1..Len(toClient) : ~Kind(toClient, n, "data")
      BY <3>1, <3>2, <3>3, <3>4, NothingAwaited
    <3>6. Held(toClient, serverCache, serverDb, listening, Range(putsToAck))
      BY <1>1 DEF Flow
    <3>7. Range(putsToAck) \subseteq serverCache \cup Refused
      BY <3>5, <3>6, NoDataHeld
    <3> QED
      BY <2>2, <2>4, <3>7 DEF eventCache
  <2> QED
    BY <1>4, <2>3, <2>4 DEF onListenReply
<1>5. CASE restart \/ onListenRevoked
  BY <1>5 DEF restart, onListenRevoked, cancelled
<1> DEFINE Grows == serverCache' = serverCache /\ allWrites \subseteq allWrites'
<1>6. Grows => (eventCache \ eventCache') \subseteq Refused
  BY DEF eventCache
<1>7. CASE set \/ observe \/ retry \/ tokenFetched \/ onReady
  <2>1. Grows
    BY <1>7 DEF set, observe, retry, tokenFetched, onReady, treeVars
  <2> QED
    BY <1>6, <2>1
<1>8. ASSUME NEW killed \in BOOLEAN, onDisconnect(killed)
      PROVE  Grows
  BY <1>8 DEF onDisconnect, treeVars
<1>9. CASE serverReceives \/ serverFetched \/ serverRevokes
  BY <1>6, <1>9 DEF serverReceives, serverFetched, serverRevokes, treeVars
<1>10. ASSUME NEW id, serverStores(id)
       PROVE  Grows
  BY <1>10 DEF serverStores, treeVars
<1>11. CASE UNCHANGED vars
  BY <1>6, <1>11 DEF vars, treeVars
<1> QED
  BY <1>2, <1>3, <1>4, <1>5, <1>6, <1>7, <1>8, <1>9, <1>10, <1>11 DEF Next, Client, Server

\* While the process runs no entry leaves the leaderboard once a value event
\* showed it, unless the server refused it or cancels the listen: EntriesStay.
THEOREM ShownEntriesStay == Spec => EntriesStay
<1>1. IInv /\ [Next]_vars => ((complete /\ complete') => (eventCache \ eventCache') \subseteq Refused)
  BY StayStep
<1> QED
  BY Invariance, <1>1, PTL DEF Spec, EntriesStay
=============================================================================
