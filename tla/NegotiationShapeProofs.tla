------------------------ MODULE NegotiationShapeProofs ------------------------
(***************************************************************************)
(* Proofs about the capabilities of every link: the two copies of a link  *)
(* are complementary (CopiesComplementary), nobody can send against a     *)
(* channel's direction (NoWrongWaySend), and no link is dead (NoDeadLink). *)
(*                                                                         *)
(* All three follow from one invariant, Shape: every held link is either  *)
(* one its holder created (create_link's capabilities, loaded = False, on *)
(* a channel start or step lets that side create) or one it loaded        *)
(* (load_link's capabilities, loaded = True, ready, on a channel the other *)
(* side may create).  It is inductive together with RInv, because an      *)
(* address in flight is never held by its receiver (MsgsFresh), hence is  *)
(* not ready at its sender, hence is a link the sender created.           *)
(***************************************************************************)
EXTENDS NegotiationRefinementProofs

\* Peer p may create a link on channel c (of directionality d[c]): the
\* creator of a C2L link sends, the creator of an L2C link receives.
CreatorOK(d, p, c) ==
    \/ d[c] = "BIDI"
    \/ d[c] = "C2L" /\ c \in SendChans(p)
    \/ d[c] = "L2C" /\ c \notin SendChans(p)

\* l is a link p created with create_link ...
CreatedBy(d, p, l) ==
    /\ l.send = IsSend(d[l.chan], FALSE)
    /\ l.recv = IsRecv(d[l.chan], FALSE)
    /\ CreatorOK(d, p, l.chan)

\* ... or one p loaded with load_link from the other peer's address.
LoadedBy(d, p, l) ==
    /\ l.ready
    /\ l.send = IsSend(d[l.chan], TRUE)
    /\ l.recv = IsRecv(d[l.chan], TRUE)
    /\ CreatorOK(d, Other(p), l.chan)

Shaped(d, p, l) == CreatedBy(d, p, l) \/ LoadedBy(d, p, l)

Shape == \A p \in Peers : \A id \in DOMAIN links[p] : Shaped(dir, p, links[p][id])

\* a and b are complementary copies of one link.
Compl(a, b) ==
    /\ a.chan = b.chan
    /\ a.isolated = b.isolated
    /\ a.send = b.recv
    /\ a.recv = b.send

Complementary ==
    \A p \in Peers : \A id \in DOMAIN links[p] \cap DOMAIN links[Other(p)] :
        Compl(links[p][id], links[Other(p)][id])

SInv == RInv /\ Shape /\ Complementary

-----------------------------------------------------------------------------
(***************************************************************************)
(* The creation rules of step and start only create where CreatorOK.      *)
(***************************************************************************)
LEMMA ResponsibleCreatorOK ==
    ASSUME NEW p \in Peers, NEW i \in 1..4, Responsible(Reqs(p)[i])
    PROVE  CreatorOK(dir, p, ReqChans(p)[i])
<1>1. i = 1 \/ i = 2 \/ i = 3 \/ i = 4
  OBVIOUS
<1>2. p = "server" \/ p = "client"
  BY DEF Peers
<1>. QED
  BY <1>1, <1>2 DEF Responsible, Reqs, Req, ReqChans, CreatorOK, SendChans

LEMMA StartCreatorOK ==
    ASSUME NEW p \in Peers, NEW i \in StartSet(p)
    PROVE  CreatorOK(dir, p, StartChans(p)[i])
<1>1. i = 1 \/ i = 2
  BY DEF StartSet
<1>2. p = "server" \/ p = "client"
  BY DEF Peers
<1>. QED
  BY <1>1, <1>2 DEF StartSet, StartChans, StartTests, MakeArgs, CreatorOK, SendChans

LEMMA CreatedResponsible ==
    ASSUME NEW p \in Peers, NEW msgs, NEW i \in Created(p, msgs)
    PROVE  i \in 1..4 /\ Responsible(Reqs(p)[i])
BY ReqChansType DEF Created

\* The record of a new link: the i-th of the indices S it was created for.
LEMMA IndexOfIn ==
    ASSUME NEW S, NEW id \in NewIds(S)
    PROVE  IndexOf(S, id) \in S
BY DEF NewIds, IndexOf

(***************************************************************************)
(* The records a step and a start put into the stepping peer's dict.      *)
(***************************************************************************)
LEMMA StepRecords ==
    ASSUME IInv, NEW p \in Peers, NEW msgs \in SUBSET DOMAIN links[Other(p)],
           Step(p, msgs), dir' = dir
    PROVE  /\ \A id \in msgs :
                 links'[p][id] = [NewLink(dir, links[Other(p)][id].chan, TRUE,
                                          links[Other(p)][id].isolated)
                                     EXCEPT !.ready = TRUE]
           /\ \A id \in NewIds(Created(p, msgs)) :
                 \E i \in Created(p, msgs) :
                     links'[p][id] = NewLink(dir, ReqChans(p)[i], FALSE, TRUE)
<1> DEFINE S == Created(p, msgs)
<1>1. links'[p] = StepLinks(p, msgs)
  BY DEF Step
<1>2. \A id \in NewIds(S) : id \notin DOMAIN links[Other(p)]
  BY StepFacts
<1>3. \A id \in msgs : id \notin NewIds(S)
  BY <1>2
<1>4. \A id \in msgs :
         links'[p][id] = [NewLink(dir, links[Other(p)][id].chan, TRUE,
                                  links[Other(p)][id].isolated)
                             EXCEPT !.ready = TRUE]
  BY <1>1, <1>3 DEF StepLinks, CreateLinks, Loaded, Load
<1>5. \A id \in NewIds(S) : links'[p][id] = NewLink(dir, ReqChans(p)[IndexOf(S, id)], FALSE, TRUE)
  BY <1>1 DEF StepLinks, CreateLinks
<1>. QED
  BY <1>4, <1>5, IndexOfIn

LEMMA StartRecords ==
    ASSUME NEW p \in Peers, Start(p), DOMAIN links = Peers
    PROVE  \A id \in NewIds(StartSet(p)) :
               \E i \in StartSet(p) :
                   links'[p][id] = NewLink(dir, StartChans(p)[i], FALSE, FALSE)
<1> DEFINE S == StartSet(p)
<1>1. links'[p] = CreateLinks(links[p], StartChans(p), S, FALSE)
  BY DEF Start
<1>2. \A id \in NewIds(S) : links'[p][id] = NewLink(dir, StartChans(p)[IndexOf(S, id)], FALSE, FALSE)
  BY <1>1 DEF CreateLinks
<1>. QED
  BY <1>2, IndexOfIn

(***************************************************************************)
(* Shape and Compl survive the changes a step makes to kept records.      *)
(***************************************************************************)
LEMMA ShapedKept ==
    ASSUME NEW d, NEW p, NEW l, NEW m,
           m.chan = l.chan, m.send = l.send, m.recv = l.recv, l.ready => m.ready,
           Shaped(d, p, l)
    PROVE  Shaped(d, p, m)
BY DEF Shaped, CreatedBy, LoadedBy

LEMMA ComplKept ==
    ASSUME NEW a, NEW b, NEW a2, NEW b2,
           a2.chan = a.chan, a2.isolated = a.isolated, a2.send = a.send, a2.recv = a.recv,
           b2.chan = b.chan, b2.isolated = b.isolated, b2.send = b.send, b2.recv = b.recv,
           Compl(a, b)
    PROVE  Compl(a2, b2) /\ Compl(b2, a2)
BY DEF Compl

-----------------------------------------------------------------------------
LEMMA StepShape ==
    ASSUME SInv, NEW p \in Peers, NEW msgs \in SUBSET DOMAIN links[Other(p)],
           msgs \cap DOMAIN links[p] = {}, Step(p, msgs), dir' = dir,
           \A r \in Peers : KeptIn(links[r], links'[r])
    PROVE  Shape' /\ Complementary'
<1> DEFINE q == Other(p)
           Dp == DOMAIN links[p]
           Dq == DOMAIN links[q]
           S == Created(p, msgs)
           N == NewIds(S)
           Lo == links[q]
<1>1. q \in Peers /\ q # p /\ Other(q) = p
  BY DEF Other, Peers
<1>2. IInv
  BY DEF SInv, RInv
<1>3. /\ DOMAIN links' = Peers
      /\ DOMAIN links'[p] = Dp \cup msgs \cup N
      /\ DOMAIN links'[q] = Dq
      /\ \A id \in N : id \notin Dp /\ id \notin Dq
  BY <1>2, StepFacts
<1>4. \A id \in msgs : links'[p][id] = [NewLink(dir, Lo[id].chan, TRUE, Lo[id].isolated)
                                          EXCEPT !.ready = TRUE]
  BY <1>2, StepRecords
<1>5. \A id \in N : \E i \in S : links'[p][id] = NewLink(dir, ReqChans(p)[i], FALSE, TRUE)
  BY <1>2, StepRecords
<1>6. \A id \in msgs : CreatedBy(dir, q, Lo[id])
  <2> SUFFICES ASSUME NEW id \in msgs PROVE CreatedBy(dir, q, Lo[id])
    OBVIOUS
  <2>1. id \in Dq /\ id \notin Dp
    OBVIOUS
  <2>2. ~Lo[id].ready
    BY <2>1, <1>1 DEF SInv, RInv, IInv, ReadyIffShared
  <2>3. Shaped(dir, q, Lo[id])
    BY <2>1, <1>1 DEF SInv, Shape
  <2>. QED
    BY <2>2, <2>3 DEF Shaped, LoadedBy
<1>7. \A id \in msgs : LoadedBy(dir, p, links'[p][id]) /\ Compl(links'[p][id], Lo[id])
  <2> SUFFICES ASSUME NEW id \in msgs
               PROVE  LoadedBy(dir, p, links'[p][id]) /\ Compl(links'[p][id], Lo[id])
    OBVIOUS
  <2>1. /\ links'[p][id].ready
        /\ links'[p][id].chan = Lo[id].chan
        /\ links'[p][id].isolated = Lo[id].isolated
        /\ links'[p][id].send = IsSend(dir[Lo[id].chan], TRUE)
        /\ links'[p][id].recv = IsRecv(dir[Lo[id].chan], TRUE)
    BY <1>4 DEF NewLink
  <2>2. IsRecv(dir[Lo[id].chan], TRUE) = IsSend(dir[Lo[id].chan], FALSE)
        /\ IsRecv(dir[Lo[id].chan], FALSE) = IsSend(dir[Lo[id].chan], TRUE)
    BY DEF IsRecv
  <2>. QED
    BY <2>1, <2>2, <1>1, <1>6 DEF LoadedBy, CreatedBy, Compl
<1>8. \A id \in N : CreatedBy(dir, p, links'[p][id])
  <2> SUFFICES ASSUME NEW id \in N PROVE CreatedBy(dir, p, links'[p][id])
    OBVIOUS
  <2>1. PICK i \in S : links'[p][id] = NewLink(dir, ReqChans(p)[i], FALSE, TRUE)
    BY <1>5
  <2>2. i \in 1..4 /\ Responsible(Reqs(p)[i])
    BY CreatedResponsible
  <2>3. CreatorOK(dir, p, ReqChans(p)[i])
    BY <2>2, ResponsibleCreatorOK
  <2>. QED
    BY <2>1, <2>3 DEF NewLink, CreatedBy
<1>9. Shape'
  <2> SUFFICES ASSUME NEW r \in Peers, NEW id \in DOMAIN links'[r]
               PROVE  Shaped(dir, r, links'[r][id])
    BY DEF Shape
  <2>1. CASE id \in DOMAIN links[r]
    <3>1. Shaped(dir, r, links[r][id])
      BY <2>1 DEF SInv, Shape
    <3>2. KeptIn(links[r], links'[r])
      OBVIOUS
    <3>. QED
      BY <2>1, <3>1, <3>2, ShapedKept DEF KeptIn
  <2>2. CASE id \notin DOMAIN links[r]
    <3>1. r = p /\ (id \in msgs \/ id \in N)
      BY <2>2, <1>1, <1>3 DEF Peers, Other
    <3>. QED
      BY <3>1, <1>7, <1>8 DEF Shaped
  <2>. QED
    BY <2>1, <2>2
<1>10. Complementary'
  <2> SUFFICES ASSUME NEW r \in Peers, NEW id \in DOMAIN links'[r] \cap DOMAIN links'[Other(r)]
               PROVE  Compl(links'[r][id], links'[Other(r)][id])
    BY DEF Complementary
  <2>1. (r = p /\ Other(r) = q) \/ (r = q /\ Other(r) = p)
    BY <1>1 DEF Peers, Other
  <2>2. id \in Dq /\ id \notin N /\ (id \in Dp \/ id \in msgs)
    BY <2>1, <1>3
  <2>3. KeptIn(links[p], links'[p]) /\ KeptIn(links[q], links'[q])
    BY <1>1
  <2>4. CASE id \in Dp
    <3>1. Compl(links[p][id], links[q][id])
      BY <2>2, <2>4, <1>1 DEF SInv, Complementary
    <3>2. Compl(links'[p][id], links'[q][id]) /\ Compl(links'[q][id], links'[p][id])
      BY <2>2, <2>3, <2>4, <3>1, ComplKept DEF KeptIn
    <3>. QED
      BY <2>1, <3>2
  <2>5. CASE id \in msgs
    <3>1. Compl(links'[p][id], Lo[id])
      BY <2>5, <1>7
    <3>2. /\ links'[q][id].chan = Lo[id].chan
          /\ links'[q][id].isolated = Lo[id].isolated
          /\ links'[q][id].send = Lo[id].send
          /\ links'[q][id].recv = Lo[id].recv
      BY <2>2, <2>3 DEF KeptIn
    <3>3. Compl(links'[p][id], links'[q][id]) /\ Compl(links'[q][id], links'[p][id])
      BY <3>1, <3>2, ComplKept
    <3>. QED
      BY <2>1, <3>3
  <2>. QED
    BY <2>2, <2>4, <2>5
<1>. QED
  BY <1>9, <1>10

LEMMA StartShape ==
    ASSUME SInv, NEW p \in Peers, Start(p), dir' = dir,
           \A r \in Peers : KeptIn(links[r], links'[r])
    PROVE  Shape' /\ Complementary'
<1> DEFINE q == Other(p)
           Dp == DOMAIN links[p]
           Dq == DOMAIN links[q]
           N == NewIds(StartSet(p))
<1>1. q \in Peers /\ q # p /\ Other(q) = p
  BY DEF Other, Peers
<1>2. IInv /\ DOMAIN links = Peers
  BY DEF SInv, RInv, IInv, TypeOK
<1>3. /\ DOMAIN links' = Peers
      /\ DOMAIN links'[p] = Dp \cup N
      /\ links'[q] = links[q]
      /\ \A id \in N : id \notin Dp /\ id \notin Dq
  BY <1>2, StartFacts
<1>4. \A id \in N : CreatedBy(dir, p, links'[p][id])
  <2> SUFFICES ASSUME NEW id \in N PROVE CreatedBy(dir, p, links'[p][id])
    OBVIOUS
  <2>1. PICK i \in StartSet(p) : links'[p][id] = NewLink(dir, StartChans(p)[i], FALSE, FALSE)
    BY <1>2, StartRecords
  <2>2. CreatorOK(dir, p, StartChans(p)[i])
    BY StartCreatorOK
  <2>. QED
    BY <2>1, <2>2 DEF NewLink, CreatedBy
<1>5. Shape'
  <2> SUFFICES ASSUME NEW r \in Peers, NEW id \in DOMAIN links'[r]
               PROVE  Shaped(dir, r, links'[r][id])
    BY DEF Shape
  <2>1. CASE id \in DOMAIN links[r]
    <3>1. Shaped(dir, r, links[r][id])
      BY <2>1 DEF SInv, Shape
    <3>2. KeptIn(links[r], links'[r])
      OBVIOUS
    <3>. QED
      BY <2>1, <3>1, <3>2, ShapedKept DEF KeptIn
  <2>2. CASE id \notin DOMAIN links[r]
    <3>1. r = p /\ id \in N
      BY <2>2, <1>1, <1>3 DEF Peers, Other
    <3>. QED
      BY <3>1, <1>4 DEF Shaped
  <2>. QED
    BY <2>1, <2>2
<1>6. Complementary'
  <2> SUFFICES ASSUME NEW r \in Peers, NEW id \in DOMAIN links'[r] \cap DOMAIN links'[Other(r)]
               PROVE  Compl(links'[r][id], links'[Other(r)][id])
    BY DEF Complementary
  <2>1. (r = p /\ Other(r) = q) \/ (r = q /\ Other(r) = p)
    BY <1>1 DEF Peers, Other
  <2>2. id \in Dp /\ id \in Dq
    BY <2>1, <1>3
  <2>3. Compl(links[r][id], links[Other(r)][id])
    BY <2>1, <2>2 DEF SInv, Complementary
  <2>4. KeptIn(links[r], links'[r]) /\ KeptIn(links[Other(r)], links'[Other(r)])
    BY <2>1, <1>1
  <2>. QED
    BY <2>1, <2>2, <2>3, <2>4, ComplKept DEF KeptIn
<1>. QED
  BY <1>5, <1>6

-----------------------------------------------------------------------------
LEMMA InitSInv == Init => SInv
<1> SUFFICES ASSUME Init PROVE SInv
  OBVIOUS
<1>1. RInv
  BY InitRInv
<1>2. \A p \in Peers : DOMAIN links[p] = {}
  BY DEF Init, EmptyLinks
<1>. QED
  BY <1>1, <1>2 DEF SInv, Shape, Complementary

LEMMA NextSInv == SInv /\ [Next]_vars => SInv'
<1> SUFFICES ASSUME SInv, [Next]_vars PROVE SInv'
  OBVIOUS
<1>0. /\ RInv
      /\ serverMsgs \subseteq DOMAIN links["server"]
      /\ clientMsgs \subseteq DOMAIN links["client"]
      /\ serverMsgs \cap DOMAIN links["client"] = {}
      /\ clientMsgs \cap DOMAIN links["server"] = {}
  BY DEF SInv, RInv, IInv, MsgsHeld, MsgsFresh
<1>1. RInv'
  BY <1>0, NextRInv
<1>2. \A r \in Peers : KeptIn(links[r], links'[r])
  BY <1>0, NextKept
<1>3. "server" \in Peers /\ "client" \in Peers
      /\ Other("server") = "client" /\ Other("client") = "server"
  BY DEF Peers, Other
<1>4. CASE ServerStart \/ ClientStart
  <2>1. PICK p \in Peers : Start(p) /\ dir' = dir
    BY <1>4, <1>3 DEF ServerStart, ClientStart
  <2>. QED
    BY <1>1, <1>2, <2>1, StartShape DEF SInv
<1>5. CASE ServerStep \/ ClientStep
  <2>1. PICK p \in Peers : /\ Step(p, IF p = "server" THEN clientMsgs ELSE serverMsgs)
                          /\ dir' = dir
    BY <1>5, <1>3 DEF ServerStep, ClientStep
  <2> DEFINE msgs == IF p = "server" THEN clientMsgs ELSE serverMsgs
  <2>2. msgs \subseteq DOMAIN links[Other(p)] /\ msgs \cap DOMAIN links[p] = {}
    BY <1>0, <1>3 DEF Peers
  <2>. QED
    BY <1>1, <1>2, <2>1, <2>2, StepShape DEF SInv
<1>6. CASE Exit \/ Terminated \/ UNCHANGED vars
  <2>1. links' = links /\ dir' = dir
    BY <1>6 DEF Exit, Terminated, vars
  <2>. QED
    BY <1>1, <2>1 DEF SInv, Shape, Complementary
<1>. QED
  BY <1>4, <1>5, <1>6 DEF Next

-----------------------------------------------------------------------------
\* The strengthened invariant holds in every reachable state.
THEOREM SInvHolds == Spec => []SInv
BY InitSInv, NextSInv, PTL DEF Spec

\* load_link gives the loader the capabilities complementary to the
\* creator's, for every scenario: CopiesComplementary.
THEOREM CopiesComplementaryHolds == Spec => []CopiesComplementary
<1>1. SInv => CopiesComplementary
  <2> SUFFICES ASSUME SInv,
                      NEW id \in DOMAIN links["server"] \cap DOMAIN links["client"]
               PROVE  Compl(links["server"][id], links["client"][id])
    BY DEF CopiesComplementary, Compl
  <2>1. "server" \in Peers /\ Other("server") = "client"
    BY DEF Peers, Other
  <2>. QED
    BY <2>1 DEF SInv, Complementary
<1>. QED
  BY <1>1, SInvHolds, PTL

\* start, step's responsibility test and is_send agree, for every
\* scenario and every command-line directionality: nobody can send against
\* a unidirectional channel's direction (NoWrongWaySend).
THEOREM NoWrongWaySendHolds == Spec => []NoWrongWaySend
<1>1. SInv => NoWrongWaySend
  <2> SUFFICES ASSUME SInv, NEW p \in Peers, NEW id \in DOMAIN links[p],
                      links[p][id].send, dir[links[p][id].chan] # "BIDI"
               PROVE  links[p][id].chan \in SendChans(p)
    BY DEF NoWrongWaySend
  <2> DEFINE l == links[p][id]
             c == l.chan
  <2>1. Shaped(dir, p, l)
    BY DEF SInv, Shape
  <2>2. c \in Channels
    BY DEF SInv, RInv, IInv, TypeOK, LinkRec
  <2>3. \A r \in Peers : c \in SendChans(r) \/ c \in SendChans(Other(r))
    BY <2>2 DEF Channels, SendChans, Peers, Other
  <2>4. \A r \in Peers : ~(c \in SendChans(r) /\ c \in SendChans(Other(r)))
    BY DEF SendChans, Peers, Other
  <2>5. CASE CreatedBy(dir, p, l)
    BY <2>5 DEF CreatedBy, CreatorOK, IsSend
  <2>6. CASE LoadedBy(dir, p, l)
    BY <2>3, <2>4, <2>6 DEF LoadedBy, CreatorOK, IsSend
  <2>. QED
    BY <2>1, <2>5, <2>6 DEF Shaped
<1>. QED
  BY <1>1, SInvHolds, PTL

\* No side ever holds a link it can neither send nor receive on: a channel
\* whose directionality is_send does not know never gets a link
\* (NoDeadLink), for every command-line input.
THEOREM NoDeadLinkHolds == Spec => []NoDeadLink
<1>1. SInv => NoDeadLink
  <2> SUFFICES ASSUME SInv, NEW p \in Peers, NEW id \in DOMAIN links[p]
               PROVE  links[p][id].send \/ links[p][id].recv
    BY DEF NoDeadLink
  <2>1. Shaped(dir, p, links[p][id])
    BY DEF SInv, Shape
  <2>. QED
    BY <2>1 DEF Shaped, CreatedBy, LoadedBy, CreatorOK, IsSend, IsRecv
<1>. QED
  BY <1>1, SInvHolds, PTL
=============================================================================
