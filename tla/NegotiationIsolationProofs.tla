---------------------- MODULE NegotiationIsolationProofs ----------------------
(***************************************************************************)
(* Proof that the protocol never creates a redundant isolated link         *)
(* (NoRedundantIsolatedLink), for every scenario and ceiling.              *)
(*                                                                         *)
(* step creates an isolated link on channel c only when no link the peer  *)
(* holds after loading meets its requirement on c.  The argument is that  *)
(* by then the peer holds, ready, every isolated link that exists:        *)
(*   - an isolated link its creator holds alone is in the creator's       *)
(*     outbox (IsoHeld): step appends every link it creates to it;        *)
(*   - the stepping peer's own outbox holds no isolated link (OutboxClean):*)
(*     run() empties a peer's list right after the other peer has loaded  *)
(*     it, and the server's start list holds only OOB links;             *)
(* so the stepping peer either shares each isolated link already (ready, *)
(* by ReadyIffShared) or loads it now.  By Shape a ready link has the     *)
(* capability the holder's requirement on its channel asks for, so that  *)
(* requirement is met and no second isolated link is created.             *)
(***************************************************************************)
EXTENDS NegotiationShapeProofs

\* The list run() holds the addresses of peer p in: server_msgs or client_msgs.
Out(p) == IF p = "server" THEN serverMsgs ELSE clientMsgs

\* Before the loop only start() has run, and it creates no isolated link.
IsoBeforeLoop ==
    pc \in {"serverStart", "clientStart"} =>
        \A p \in Peers : \A id \in DOMAIN links[p] : ~links[p][id].isolated

\* When a peer is about to step, its own outbox holds no isolated link.
OutboxClean ==
    /\ pc = "loop" => \A id \in serverMsgs : ~links["server"][id].isolated
    /\ pc = "clientStep" => clientMsgs = {}

\* An isolated link held by its creator alone is in the creator's outbox.
IsoHeld ==
    \A p \in Peers : \A id \in DOMAIN links[p] :
        links[p][id].isolated /\ id \notin DOMAIN links[Other(p)] => id \in Out(p)

\* Two isolated links on one channel are one link.
IsoUnique ==
    \A p1, p2 \in Peers : \A id1 \in DOMAIN links[p1], id2 \in DOMAIN links[p2] :
        /\ links[p1][id1].isolated
        /\ links[p2][id2].isolated
        /\ links[p1][id1].chan = links[p2][id2].chan
        => id1 = id2

\* The channels that carry an isolated link.
IsoChans ==
    {c \in Channels : \E p \in Peers : \E id \in DOMAIN links[p] :
                         links[p][id].isolated /\ links[p][id].chan = c}

UInv == SInv /\ IsoBeforeLoop /\ OutboxClean /\ IsoHeld /\ IsoUnique

-----------------------------------------------------------------------------
(***************************************************************************)
(* Lemmas about the operators.                                             *)
(***************************************************************************)
\* A peer has one requirement per channel.
LEMMA ReqChansInjective ==
    ASSUME NEW p \in Peers, NEW i \in 1..4, NEW j \in 1..4,
           ReqChans(p)[i] = ReqChans(p)[j]
    PROVE  i = j
<1>1. p = "server" \/ p = "client"
  BY DEF Peers
<1>. QED
  BY <1>1 DEF ReqChans, Reqs, Req

\* The id create_link gives the link for index IndexOf(S, id).
LEMMA IndexOfSpec ==
    ASSUME NEW S, NEW id \in NewIds(S)
    PROVE  linkIdx + Rank(S, IndexOf(S, id)) = id
BY DEF NewIds, IndexOf

\* p's requirement on a channel asks to send exactly on the channels p is
\* meant to send on, and to receive on the others (make_requirements).
LEMMA ReqShape ==
    ASSUME NEW p \in Peers, NEW i \in 1..4
    PROVE  /\ Reqs(p)[i].chan = ReqChans(p)[i]
           /\ ReqChans(p)[i] \in Channels
           /\ Reqs(p)[i].send <=> ReqChans(p)[i] \in SendChans(p)
           /\ Reqs(p)[i].recv <=> ReqChans(p)[i] \notin SendChans(p)
<1>1. i = 1 \/ i = 2 \/ i = 3 \/ i = 4
  OBVIOUS
<1>2. p = "server" \/ p = "client"
  BY DEF Peers
<1>3. ReqChans(p)[i] = Reqs(p)[i].chan /\ ReqChans(p)[i] \in Channels
  BY ReqChansType DEF ReqChans
<1>. QED
  BY <1>1, <1>2, <1>3 DEF Reqs, Req, SendChans

\* Every channel is a send channel of exactly one peer.
LEMMA SendChansOther ==
    ASSUME NEW p \in Peers, NEW c \in Channels
    PROVE  c \in SendChans(Other(p)) <=> c \notin SendChans(p)
BY DEF Peers, Other, SendChans, Channels

\* A ready isolated link of the shape of Shape on the channel of one of
\* p's requirements meets that requirement (Link.__gt__).
LEMMA ShapedMeets ==
    ASSUME NEW p \in Peers, NEW i \in 1..4, NEW l,
           Shaped(dir, p, l), l.ready, l.isolated, l.chan = ReqChans(p)[i]
    PROVE  Satisfies(l, Reqs(p)[i])
<1> DEFINE c == ReqChans(p)[i]
           r == Reqs(p)[i]
<1>1. /\ r.chan = c /\ c \in Channels
      /\ r.send <=> c \in SendChans(p)
      /\ r.recv <=> c \notin SendChans(p)
  BY ReqShape
<1>2. c \in SendChans(Other(p)) <=> c \notin SendChans(p)
  BY <1>1, SendChansOther
<1>3. (c \in SendChans(p) => l.send) /\ (c \notin SendChans(p) => l.recv)
  <2>1. CASE CreatedBy(dir, p, l)
    BY <2>1 DEF CreatedBy, CreatorOK, IsSend, IsRecv
  <2>2. CASE LoadedBy(dir, p, l)
    BY <2>2, <1>2 DEF LoadedBy, CreatorOK, IsSend, IsRecv
  <2>. QED
    BY <2>1, <2>2 DEF Shaped
<1>. QED
  BY <1>1, <1>3 DEF Satisfies

-----------------------------------------------------------------------------
(***************************************************************************)
(* A step of p that loads the other peer's outbox, when p's own outbox    *)
(* holds no isolated link, keeps IsoHeld and IsoUnique.                   *)
(***************************************************************************)
LEMMA StepIso ==
    ASSUME SInv, SInv', IsoHeld, IsoUnique,
           NEW p \in Peers, Step(p, Out(Other(p))), dir' = dir,
           \A id \in Out(p) : ~links[p][id].isolated,
           \A r \in Peers : KeptIn(links[r], links'[r]),
           Out(p)' = Out(p) \cup NewIds(Created(p, Out(Other(p)))),
           Out(Other(p))' = {}
    PROVE  /\ IsoHeld'
           /\ IsoUnique'
           /\ \A id \in NewIds(Created(p, Out(Other(p)))) :
                 links'[p][id].isolated /\ links'[p][id].chan \notin IsoChans
<1> DEFINE q == Other(p)
           msgs == Out(q)
           Dp == DOMAIN links[p]
           Dq == DOMAIN links[q]
           S == Created(p, msgs)
           N == NewIds(S)
           L1 == Loaded(p, msgs)
<1>1. q \in Peers /\ q # p /\ Other(q) = p
  BY DEF Other, Peers
<1>2. msgs \subseteq Dq /\ msgs \cap Dp = {} /\ Out(p) \subseteq Dp
  BY DEF SInv, RInv, IInv, MsgsHeld, MsgsFresh, Out, Other, Peers
<1>3. IInv
  BY DEF SInv, RInv
<1>4. /\ DOMAIN links'[p] = Dp \cup msgs \cup N
      /\ DOMAIN links'[q] = Dq
      /\ \A id \in N : id \notin Dp /\ id \notin Dq
  BY <1>2, <1>3, StepFacts
<1>5. \A id \in msgs : /\ links'[p][id].chan = links[q][id].chan
                      /\ links'[p][id].isolated = links[q][id].isolated
  <2> SUFFICES ASSUME NEW id \in msgs
               PROVE  /\ links'[p][id].chan = links[q][id].chan
                      /\ links'[p][id].isolated = links[q][id].isolated
    OBVIOUS
  <2>1. links'[p][id] = [NewLink(dir, links[q][id].chan, TRUE, links[q][id].isolated)
                            EXCEPT !.ready = TRUE]
    BY <1>2, <1>3, StepRecords
  <2>. QED
    BY <2>1 DEF NewLink
<1>6. links'[p] = CreateLinks(L1, ReqChans(p), S, TRUE)
  BY DEF Step, StepLinks
<1>7. DOMAIN L1 = Dp \cup msgs
  BY DEF Loaded, Load
<1>8. \A id \in DOMAIN links'[p] \ N : links'[p][id] = L1[id]
  BY <1>6, <1>7 DEF CreateLinks
<1>9. \A id \in N : /\ IndexOf(S, id) \in S
                   /\ links'[p][id] = NewLink(dir, ReqChans(p)[IndexOf(S, id)], FALSE, TRUE)
  BY <1>6, IndexOfIn DEF CreateLinks
<1>10. \A id \in N : links'[p][id].isolated /\ links'[p][id].chan = ReqChans(p)[IndexOf(S, id)]
  <2> SUFFICES ASSUME NEW id \in N
               PROVE  links'[p][id].isolated /\ links'[p][id].chan = ReqChans(p)[IndexOf(S, id)]
    OBVIOUS
  <2>1. links'[p][id] = NewLink(dir, ReqChans(p)[IndexOf(S, id)], FALSE, TRUE)
    BY <1>9
  <2>. QED
    BY <2>1 DEF NewLink
\* Every link after the step but the new ones was held before, with the
\* same channel and isolation.
<1>11. \A r \in Peers : \A id \in DOMAIN links'[r] :
          ~(r = p /\ id \in N) =>
             \E r0 \in Peers : /\ id \in DOMAIN links[r0]
                              /\ links'[r][id].chan = links[r0][id].chan
                              /\ links'[r][id].isolated = links[r0][id].isolated
  <2> SUFFICES ASSUME NEW r \in Peers, NEW id \in DOMAIN links'[r], ~(r = p /\ id \in N)
               PROVE  \E r0 \in Peers : /\ id \in DOMAIN links[r0]
                                       /\ links'[r][id].chan = links[r0][id].chan
                                       /\ links'[r][id].isolated = links[r0][id].isolated
    OBVIOUS
  <2>1. CASE id \in DOMAIN links[r]
    BY <2>1 DEF KeptIn
  <2>2. CASE id \notin DOMAIN links[r]
    <3>1. r = p /\ id \in msgs
      BY <2>2, <1>1, <1>4 DEF Peers, Other
    <3>. QED
      BY <3>1, <1>1, <1>2, <1>5
  <2>. QED
    BY <2>1, <2>2
\* The heart of the argument: a new isolated link has no isolated twin.
<1>12. \A id \in N : \A r \in Peers : \A id2 \in DOMAIN links'[r] :
          /\ ~(r = p /\ id2 \in N)
          /\ links'[r][id2].isolated
          => links'[r][id2].chan # links'[p][id].chan
  <2> SUFFICES ASSUME NEW id \in N, NEW r \in Peers, NEW id2 \in DOMAIN links'[r],
                      ~(r = p /\ id2 \in N), links'[r][id2].isolated,
                      links'[r][id2].chan = links'[p][id].chan
               PROVE  FALSE
    OBVIOUS
  <2>1. PICK r0 \in Peers : /\ id2 \in DOMAIN links[r0]
                           /\ links[r0][id2].isolated
    BY <1>11
  <2>2. id2 \in Dq
    <3>1. CASE r0 = p
      BY <3>1, <2>1, <1>2 DEF IsoHeld
    <3>2. CASE r0 = q
      BY <3>2, <2>1
    <3>. QED
      BY <3>1, <3>2, <1>1 DEF Peers, Other
  <2>3. id2 \in Dp \cup msgs
    <3>1. CASE r0 = q
      BY <3>1, <2>1, <1>1 DEF IsoHeld
    <3>2. CASE r0 = p
      BY <3>2, <2>1
    <3>. QED
      BY <3>1, <3>2, <1>1 DEF Peers, Other
  <2>4. id2 \in DOMAIN links'[p] /\ id2 \notin N /\ id2 \in DOMAIN links'[q]
    BY <2>2, <2>3, <1>4
  <2>5. links'[p][id2].ready
    BY <2>4, <1>1 DEF SInv, RInv, IInv, ReadyIffShared
  <2>6. links'[p][id2].isolated /\ links'[p][id2].chan = links'[p][id].chan
    <3>1. CASE r = p
      BY <3>1
    <3>2. CASE r = q
      <4>1. Compl(links'[q][id2], links'[Other(q)][id2])
        BY <2>4, <1>1 DEF SInv, Complementary
      <4>. QED
        BY <3>2, <4>1, <1>1 DEF Compl
    <3>. QED
      BY <3>1, <3>2, <1>1 DEF Peers, Other
  <2>7. Shaped(dir, p, links'[p][id2])
    BY <2>4 DEF SInv, Shape
  <2> DEFINE i0 == IndexOf(S, id)
  <2>8. i0 \in 1..4 /\ ~Met(L1, Reqs(p)[i0])
    BY <1>9, CreatedType DEF Created
  <2>9. Satisfies(links'[p][id2], Reqs(p)[i0])
    BY <2>5, <2>6, <2>7, <2>8, <1>10, ShapedMeets
  <2>10. id2 \in DOMAIN L1 /\ links'[p][id2] = L1[id2]
    BY <2>3, <2>4, <1>7, <1>8
  <2>. QED
    BY <2>8, <2>9, <2>10 DEF Met
<1>13. IsoUnique'
  <2> SUFFICES ASSUME NEW r1 \in Peers, NEW r2 \in Peers,
                      NEW id1 \in DOMAIN links'[r1], NEW id2 \in DOMAIN links'[r2],
                      links'[r1][id1].isolated, links'[r2][id2].isolated,
                      links'[r1][id1].chan = links'[r2][id2].chan
               PROVE  id1 = id2
    BY DEF IsoUnique
  <2>1. CASE r1 = p /\ id1 \in N /\ r2 = p /\ id2 \in N
    <3>1. IndexOf(S, id1) \in S /\ IndexOf(S, id2) \in S
      BY <2>1, <1>9
    <3>2. IndexOf(S, id1) = IndexOf(S, id2)
      BY <2>1, <3>1, <1>10, CreatedType, ReqChansInjective
    <3>. QED
      BY <2>1, <3>2, IndexOfSpec
  <2>2. CASE r1 = p /\ id1 \in N /\ ~(r2 = p /\ id2 \in N)
    BY <2>2, <1>12
  <2>3. CASE r2 = p /\ id2 \in N /\ ~(r1 = p /\ id1 \in N)
    BY <2>3, <1>12
  <2>4. CASE ~(r1 = p /\ id1 \in N) /\ ~(r2 = p /\ id2 \in N)
    <3>1. PICK s1 \in Peers : /\ id1 \in DOMAIN links[s1]
                             /\ links'[r1][id1].chan = links[s1][id1].chan
                             /\ links'[r1][id1].isolated = links[s1][id1].isolated
      BY <2>4, <1>11
    <3>2. PICK s2 \in Peers : /\ id2 \in DOMAIN links[s2]
                             /\ links'[r2][id2].chan = links[s2][id2].chan
                             /\ links'[r2][id2].isolated = links[s2][id2].isolated
      BY <2>4, <1>11
    <3>. QED
      BY <3>1, <3>2 DEF IsoUnique
  <2>. QED
    BY <2>1, <2>2, <2>3, <2>4
<1>14. IsoHeld'
  <2> SUFFICES ASSUME NEW r \in Peers, NEW id \in DOMAIN links'[r],
                      links'[r][id].isolated, id \notin DOMAIN links'[Other(r)]
               PROVE  id \in Out(r)'
    BY DEF IsoHeld
  <2>1. CASE r = p
    <3>1. id \notin Dq
      BY <2>1, <1>4
    <3>2. id \in Dp \/ id \in N
      BY <2>1, <3>1, <1>2, <1>4
    <3>3. CASE id \in Dp
      <4>1. links[p][id].isolated
        BY <2>1, <3>3 DEF KeptIn
      <4>. QED
        BY <2>1, <3>1, <3>3, <4>1 DEF IsoHeld
    <3>. QED
      BY <2>1, <3>2, <3>3
  <2>2. CASE r = q
    <3>1. id \in Dq /\ id \notin Dp /\ id \notin msgs
      BY <2>2, <1>1, <1>4
    <3>2. links[q][id].isolated
      BY <2>2, <3>1 DEF KeptIn
    <3>. QED
      BY <2>2, <3>1, <3>2, <1>1 DEF IsoHeld
  <2>. QED
    BY <2>1, <2>2, <1>1 DEF Peers, Other
\* A new isolated link opens a channel that had none.
<1>15. \A id \in N : links'[p][id].isolated /\ links'[p][id].chan \notin IsoChans
  <2> SUFFICES ASSUME NEW id \in N, links'[p][id].chan \in IsoChans PROVE FALSE
    BY <1>10
  <2>0. PICK r \in Peers : \E id2 \in DOMAIN links[r] :
           links[r][id2].isolated /\ links[r][id2].chan = links'[p][id].chan
    BY DEF IsoChans
  <2>1. PICK id2 \in DOMAIN links[r] :
           links[r][id2].isolated /\ links[r][id2].chan = links'[p][id].chan
    BY <2>0
  <2>2. /\ id2 \in DOMAIN links'[r]
        /\ links'[r][id2].isolated
        /\ links'[r][id2].chan = links'[p][id].chan
    BY <2>1 DEF KeptIn
  <2>3. ~(r = p /\ id2 \in N)
    BY <2>1, <1>4
  <2>. QED
    BY <2>2, <2>3, <1>12
<1>. QED
  BY <1>13, <1>14, <1>15

(***************************************************************************)
(* start() creates no isolated link.                                       *)
(***************************************************************************)
LEMMA StartNoIso ==
    ASSUME SInv, NEW p \in Peers, Start(p), dir' = dir,
           \A r \in Peers : KeptIn(links[r], links'[r]),
           \A r \in Peers : \A id \in DOMAIN links[r] : ~links[r][id].isolated
    PROVE  \A r \in Peers : \A id \in DOMAIN links'[r] : ~links'[r][id].isolated
<1> DEFINE N == NewIds(StartSet(p))
<1>1. IInv /\ DOMAIN links = Peers
  BY DEF SInv, RInv, IInv, TypeOK
<1>2. /\ DOMAIN links'[p] = DOMAIN links[p] \cup N
      /\ links'[Other(p)] = links[Other(p)]
  BY <1>1, StartFacts
<1>3. \A id \in N : ~links'[p][id].isolated
  <2> SUFFICES ASSUME NEW id \in N PROVE ~links'[p][id].isolated
    OBVIOUS
  <2>1. PICK i \in StartSet(p) : links'[p][id] = NewLink(dir, StartChans(p)[i], FALSE, FALSE)
    BY <1>1, StartRecords
  <2>. QED
    BY <2>1 DEF NewLink
<1> SUFFICES ASSUME NEW r \in Peers, NEW id \in DOMAIN links'[r]
             PROVE  ~links'[r][id].isolated
  OBVIOUS
<1>4. CASE id \in DOMAIN links[r]
  BY <1>4 DEF KeptIn
<1>5. CASE id \notin DOMAIN links[r]
  <2>1. r = p /\ id \in N
    BY <1>2, <1>5 DEF Peers, Other
  <2>. QED
    BY <2>1, <1>3
<1>. QED
  BY <1>4, <1>5

-----------------------------------------------------------------------------
LEMMA InitUInv == Init => UInv
<1> SUFFICES ASSUME Init PROVE UInv
  OBVIOUS
<1>1. SInv
  BY InitSInv
<1>2. \A p \in Peers : DOMAIN links[p] = {}
  BY DEF Init, EmptyLinks
<1>3. pc = "serverStart"
  BY DEF Init
<1>. QED
  BY <1>1, <1>2, <1>3 DEF UInv, IsoBeforeLoop, OutboxClean, IsoHeld, IsoUnique

LEMMA NextUInv == UInv /\ [Next]_vars => UInv'
<1> SUFFICES ASSUME UInv, [Next]_vars PROVE UInv'
  OBVIOUS
<1>0. /\ SInv /\ RInv
      /\ serverMsgs \subseteq DOMAIN links["server"]
  BY DEF UInv, SInv, RInv, IInv, MsgsHeld
<1>1. SInv'
  BY <1>0, NextSInv DEF UInv
<1>2. \A r \in Peers : KeptIn(links[r], links'[r])
  BY <1>0, NextKept
<1>3. /\ "server" \in Peers /\ "client" \in Peers
      /\ Other("server") = "client" /\ Other("client") = "server"
      /\ Out("server") = serverMsgs /\ Out("client") = clientMsgs
      /\ Out("server")' = serverMsgs' /\ Out("client")' = clientMsgs'
  BY DEF Peers, Other, Out
\* With no isolated link after the step, IsoHeld and IsoUnique hold trivially.
<1>4. (\A r \in Peers : \A id \in DOMAIN links'[r] : ~links'[r][id].isolated)
         => IsoHeld' /\ IsoUnique'
  BY DEF IsoHeld, IsoUnique
<1>5. CASE ServerStart
  <2>1. pc = "serverStart" /\ pc' = "clientStart" /\ Start("server") /\ dir' = dir
    BY <1>5 DEF ServerStart
  <2>2. \A r \in Peers : \A id \in DOMAIN links'[r] : ~links'[r][id].isolated
    BY <1>0, <1>2, <1>3, <2>1, StartNoIso DEF UInv, IsoBeforeLoop
  <2>. QED
    BY <1>1, <1>4, <2>1, <2>2 DEF UInv, IsoBeforeLoop, OutboxClean
<1>6. CASE ClientStart
  <2>1. /\ pc = "clientStart" /\ pc' = "loop" /\ Start("client") /\ dir' = dir
        /\ serverMsgs' = serverMsgs
    BY <1>6 DEF ClientStart
  <2>2. \A r \in Peers : \A id \in DOMAIN links'[r] : ~links'[r][id].isolated
    BY <1>0, <1>2, <1>3, <2>1, StartNoIso DEF UInv, IsoBeforeLoop
  <2>3. serverMsgs' \subseteq DOMAIN links'["server"]
    BY <1>1 DEF SInv, RInv, IInv, MsgsHeld
  <2>. QED
    BY <1>1, <1>3, <1>4, <2>1, <2>2, <2>3 DEF UInv, IsoBeforeLoop, OutboxClean
<1>7. CASE ServerStep
  <2>1. /\ pc = "loop" /\ pc' = "clientStep"
        /\ Step("server", clientMsgs) /\ dir' = dir
        /\ serverMsgs' = serverMsgs \cup NewIds(Created("server", clientMsgs))
        /\ clientMsgs' = {}
    BY <1>7 DEF ServerStep
  <2>2. \A id \in Out("server") : ~links["server"][id].isolated
    BY <2>1, <1>3 DEF UInv, OutboxClean
  <2>3. IsoHeld' /\ IsoUnique'
    BY <1>0, <1>1, <1>2, <1>3, <2>1, <2>2, StepIso DEF UInv

  <2>. QED
    BY <1>1, <2>1, <2>3 DEF UInv, IsoBeforeLoop, OutboxClean
<1>8. CASE ClientStep
  <2>1. /\ pc = "clientStep" /\ pc' \in {"loop", "done"}
        /\ Step("client", serverMsgs) /\ dir' = dir
        /\ clientMsgs' = clientMsgs \cup NewIds(Created("client", serverMsgs))
        /\ serverMsgs' = {}
    BY <1>8 DEF ClientStep
  <2>2. \A id \in Out("client") : ~links["client"][id].isolated
    BY <2>1, <1>3 DEF UInv, OutboxClean
  <2>3. IsoHeld' /\ IsoUnique'
    BY <1>0, <1>1, <1>2, <1>3, <2>1, <2>2, StepIso DEF UInv

  <2>. QED
    BY <1>1, <2>1, <2>3 DEF UInv, IsoBeforeLoop, OutboxClean
<1>9. CASE Exit
  <2>1. /\ pc' = "done"
        /\ UNCHANGED <<links, serverMsgs, clientMsgs>>
    BY <1>9 DEF Exit
  <2>. QED
    BY <1>1, <2>1 DEF UInv, IsoBeforeLoop, OutboxClean, IsoHeld, IsoUnique, Out
<1>10. CASE Terminated \/ UNCHANGED vars
  <2>1. UNCHANGED vars
    BY <1>10 DEF Terminated
  <2>. QED
    BY <1>1, <2>1 DEF vars, UInv, IsoBeforeLoop, OutboxClean, IsoHeld, IsoUnique, Out
<1>. QED
  BY <1>5, <1>6, <1>7, <1>8, <1>9, <1>10 DEF Next

-----------------------------------------------------------------------------
\* The strengthened invariant holds in every reachable state.
THEOREM UInvHolds == Spec => []UInv
BY InitUInv, NextUInv, PTL DEF Spec

\* step loads before it looks for missing requirements, and a peer about
\* to step has no isolated link of its own in flight, so the protocol never
\* creates a second isolated link on a channel, even a BIDI channel both
\* peers are responsible for: NoRedundantIsolatedLink, for every scenario.
THEOREM NoRedundantIsolatedLinkHolds == Spec => []NoRedundantIsolatedLink
<1>1. IsoUnique => NoRedundantIsolatedLink
  <2> SUFFICES ASSUME IsoUnique, NEW c \in Channels
               PROVE  Cardinality({id \in AllIds : /\ links[Holder(id)][id].chan = c
                                                   /\ links[Holder(id)][id].isolated}) <= 1
    BY DEF NoRedundantIsolatedLink
  <2> DEFINE T == {id \in AllIds : /\ links[Holder(id)][id].chan = c
                                   /\ links[Holder(id)][id].isolated}
  <2>1. \A id \in AllIds : Holder(id) \in Peers /\ id \in DOMAIN links[Holder(id)]
    BY DEF AllIds, Holder, Peers
  <2>2. \A x, y \in T : x = y
    BY <2>1 DEF IsoUnique
  <2>3. CASE T = {}
    BY <2>3, FS_EmptySet
  <2>4. CASE T # {}
    <3>1. PICK x \in T : TRUE
      BY <2>4
    <3>2. T = {x}
      BY <2>2, <3>1
    <3>3. Cardinality({x}) = 1
      BY FS_Singleton
    <3>. QED
      BY <3>2, <3>3
  <2>. QED
    BY <2>3, <2>4
<1>. QED
  BY <1>1, UInvHolds, PTL DEF UInv
=============================================================================
