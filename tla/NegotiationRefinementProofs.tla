--------------------- MODULE NegotiationRefinementProofs ---------------------
(***************************************************************************)
(* Proof that no step of run() loses a link or its progress: LinksStable *)
(* as an action property.  The refinement of NegotiationAbstract, which   *)
(* needs the mirror facts of NegotiationProgressProofs, is proved there.  *)
(*                                                                         *)
(* load_link overwrites self.links[addr.link] with a fresh Link.  That is *)
(* harmless only because an address in flight is never one the receiver *)
(* already holds: the invariant MsgsFresh, added to IInv, says so.  With  *)
(* it, a step keeps every record of the stepping peer and only sets ready *)
(* flags of the other peer's records.                                     *)
(***************************************************************************)
EXTENDS NegotiationProofs

\* No address in flight names a link its receiver already holds.
MsgsFresh ==
    /\ serverMsgs \cap DOMAIN links["client"] = {}
    /\ clientMsgs \cap DOMAIN links["server"] = {}

RInv == IInv /\ MsgsFresh

\* M keeps every link of L with its channel, isolation and capabilities,
\* and does not make a ready link unready.
KeptIn(L, M) ==
    \A id \in DOMAIN L :
        /\ id \in DOMAIN M
        /\ M[id].chan = L[id].chan
        /\ M[id].isolated = L[id].isolated
        /\ M[id].send = L[id].send
        /\ M[id].recv = L[id].recv
        /\ L[id].ready => M[id].ready

-----------------------------------------------------------------------------
\* A requirement met by L is met by any M that keeps L's links.
LEMMA MetKept ==
    ASSUME NEW L, NEW M, KeptIn(L, M), NEW r, Met(L, r)
    PROVE  Met(M, r)
BY DEF Met, Satisfies, KeptIn

\* A dict extended without changing the records it had keeps them.
LEMMA EqualKept ==
    ASSUME NEW L, NEW M, DOMAIN L \subseteq DOMAIN M,
           \A id \in DOMAIN L : M[id] = L[id]
    PROVE  KeptIn(L, M)
BY DEF KeptIn

\* load_link's write through other_node keeps the creator's links.
LEMMA MarkReadyKept ==
    ASSUME NEW D, NEW Lo \in [D -> LinkRec], NEW msgs
    PROVE  KeptIn(Lo, MarkReady(Lo, msgs))
BY DEF MarkReady, KeptIn, LinkRec

-----------------------------------------------------------------------------
LEMMA InitRInv == Init => RInv
<1> SUFFICES ASSUME Init PROVE RInv
  OBVIOUS
<1>1. IInv
  BY InitIInv
<1>. QED
  BY <1>1 DEF Init, RInv, MsgsFresh

\* What each action does to the dicts and the two message sets, in the
\* form the two invariants and LinksStable need.
LEMMA NextRInv == RInv /\ [Next]_vars => RInv'
<1> SUFFICES ASSUME RInv, [Next]_vars PROVE RInv'
  OBVIOUS
<1> DEFINE Ds == DOMAIN links["server"]
           Dc == DOMAIN links["client"]
<1>0. /\ IInv
      /\ serverMsgs \subseteq Ds /\ clientMsgs \subseteq Dc
      /\ serverMsgs \cap Dc = {} /\ clientMsgs \cap Ds = {}
  BY DEF RInv, IInv, MsgsHeld, MsgsFresh
<1>1. IInv'
  BY <1>0, NextIInv
<1>2. "server" \in Peers /\ "client" \in Peers
      /\ Other("server") = "client" /\ Other("client") = "server"
  BY DEF Peers, Other
<1>3. MsgsFresh'
  <2>1. CASE ServerStart
    <3>1. Start("server") /\ dir' = dir
      BY <2>1 DEF ServerStart
    <3>2. /\ DOMAIN links'["server"] = Ds \cup NewIds(StartSet("server"))
          /\ links'["client"] = links["client"]
          /\ \A id \in NewIds(StartSet("server")) : id \notin Ds /\ id \notin Dc
      BY <1>0, <1>2, <3>1, StartFacts
    <3>3. serverMsgs' = NewIds(StartSet("server")) /\ clientMsgs' = clientMsgs
      BY <2>1 DEF ServerStart
    <3>. QED
      BY <1>0, <3>2, <3>3 DEF MsgsFresh
  <2>2. CASE ClientStart
    <3>1. Start("client") /\ dir' = dir
      BY <2>2 DEF ClientStart
    <3>2. /\ DOMAIN links'["client"] = Dc \cup NewIds(StartSet("client"))
          /\ links'["server"] = links["server"]
          /\ \A id \in NewIds(StartSet("client")) : id \notin Dc /\ id \notin Ds
      BY <1>0, <1>2, <3>1, StartFacts
    <3>3. clientMsgs' \subseteq NewIds(StartSet("client")) /\ serverMsgs' = serverMsgs
      BY <2>2 DEF ClientStart
    <3>. QED
      BY <1>0, <3>2, <3>3 DEF MsgsFresh
  <2>3. CASE ServerStep
    <3>1. Step("server", clientMsgs) /\ dir' = dir
      BY <2>3 DEF ServerStep
    <3>2. /\ DOMAIN links'["client"] = Dc
          /\ \A id \in NewIds(Created("server", clientMsgs)) : id \notin Dc
      BY <1>0, <1>2, <3>1, StepFacts
    <3>3. /\ serverMsgs' = serverMsgs \cup NewIds(Created("server", clientMsgs))
          /\ clientMsgs' = {}
      BY <2>3 DEF ServerStep
    <3>. QED
      BY <1>0, <3>2, <3>3 DEF MsgsFresh
  <2>4. CASE ClientStep
    <3>1. Step("client", serverMsgs) /\ dir' = dir
      BY <2>4 DEF ClientStep
    <3>2. /\ DOMAIN links'["server"] = Ds
          /\ \A id \in NewIds(Created("client", serverMsgs)) : id \notin Ds
      BY <1>0, <1>2, <3>1, StepFacts
    <3>3. /\ clientMsgs' = clientMsgs \cup NewIds(Created("client", serverMsgs))
          /\ serverMsgs' = {}
      BY <2>4 DEF ClientStep
    <3>. QED
      BY <1>0, <3>2, <3>3 DEF MsgsFresh
  <2>5. CASE Exit \/ Terminated \/ UNCHANGED vars
    BY <2>5, <1>0 DEF Exit, Terminated, vars, MsgsFresh
  <2>. QED
    BY <2>1, <2>2, <2>3, <2>4, <2>5 DEF Next
<1>. QED
  BY <1>1, <1>3 DEF RInv

\* Every step keeps both peers' links.
LEMMA NextKept == RInv /\ [Next]_vars => \A p \in Peers : KeptIn(links[p], links'[p])
<1> SUFFICES ASSUME RInv, [Next]_vars PROVE \A p \in Peers : KeptIn(links[p], links'[p])
  OBVIOUS
<1> DEFINE Ds == DOMAIN links["server"]
           Dc == DOMAIN links["client"]
<1>0. /\ IInv
      /\ serverMsgs \subseteq Ds /\ clientMsgs \subseteq Dc
      /\ serverMsgs \cap Dc = {} /\ clientMsgs \cap Ds = {}
      /\ links["server"] \in [Ds -> LinkRec] /\ links["client"] \in [Dc -> LinkRec]
  BY DEF RInv, IInv, MsgsHeld, MsgsFresh, TypeOK, Peers
<1>2. "server" \in Peers /\ "client" \in Peers
      /\ Other("server") = "client" /\ Other("client") = "server"
  BY DEF Peers, Other
<1>3. \A p \in Peers : p = "server" \/ p = "client"
  BY DEF Peers
<1>4. CASE ServerStart \/ ClientStart
  <2>1. PICK p \in Peers : Start(p) /\ dir' = dir
    BY <1>4, <1>2 DEF ServerStart, ClientStart
  <2>2. /\ DOMAIN links'[p] = DOMAIN links[p] \cup NewIds(StartSet(p))
        /\ links'[Other(p)] = links[Other(p)]
        /\ \A id \in DOMAIN links[p] : links'[p][id] = links[p][id]
    BY <1>0, <2>1, StartFacts
  <2>3. KeptIn(links[p], links'[p])
    BY <2>2, EqualKept
  <2>4. KeptIn(links[Other(p)], links'[Other(p)])
    BY <2>2, EqualKept
  <2>. QED
    BY <2>3, <2>4, <1>2, <1>3
<1>5. CASE ServerStep \/ ClientStep
  <2>1. PICK p \in Peers : /\ Step(p, IF p = "server" THEN clientMsgs ELSE serverMsgs)
                          /\ dir' = dir
    BY <1>5, <1>2 DEF ServerStep, ClientStep
  <2> DEFINE msgs == IF p = "server" THEN clientMsgs ELSE serverMsgs
  <2>2. msgs \subseteq DOMAIN links[Other(p)] /\ msgs \cap DOMAIN links[p] = {}
    BY <1>0, <1>2, <1>3
  <2>3. /\ \A id \in DOMAIN links[p] \ msgs : links'[p][id] = links[p][id]
        /\ DOMAIN links'[p] = DOMAIN links[p] \cup msgs \cup NewIds(Created(p, msgs))
        /\ links'[Other(p)] = MarkReady(links[Other(p)], msgs)
    BY <1>0, <2>1, <2>2, StepFacts
  <2>4. KeptIn(links[p], links'[p])
    BY <2>2, <2>3, EqualKept
  <2>5. links[Other(p)] \in [DOMAIN links[Other(p)] -> LinkRec]
    BY <1>0, <1>2, <1>3
  <2>6. KeptIn(links[Other(p)], links'[Other(p)])
    BY <2>3, <2>5, MarkReadyKept
  <2>. QED
    BY <2>4, <2>6, <1>2, <1>3
<1>6. CASE Exit \/ Terminated \/ UNCHANGED vars
  <2>1. links' = links
    BY <1>6 DEF Exit, Terminated, vars
  <2>. QED
    BY <2>1, EqualKept
<1>. QED
  BY <1>4, <1>5, <1>6 DEF Next

-----------------------------------------------------------------------------
\* The strengthened invariant holds in every reachable state.
THEOREM RInvHolds == Spec => []RInv
BY InitRInv, NextRInv, PTL DEF Spec

\* load_link, its write through other_node and create_link never drop a
\* link, never change a link's channel, isolation or capabilities, and
\* never make a ready link unready: LinksStable for every scenario.
THEOREM LinksStableHolds == Spec => LinksStable
<1>1. RInv /\ [Next]_vars => \A p \in Peers : KeptIn(links[p], links'[p])
  BY NextKept
<1>. QED
  BY <1>1, RInvHolds, PTL DEF LinksStable, KeptIn, Spec

=============================================================================
