----------------------- MODULE NegotiationProgressProofs -----------------------
(***************************************************************************)
(* Proof that run()'s iteration ceiling never cuts off a negotiation that *)
(* could still progress (FailureIsQuiescent), for every scenario, when    *)
(* the ceiling is at least the code's 5.                                  *)
(*                                                                         *)
(* The argument counts rounds (a server step and a client step):          *)
(*   - a peer is final exactly when the other one is (FinalSymmetric):    *)
(*     the other side's copy of a ready link meets the mirrored           *)
(*     requirement, so a FINISHED step means the run passes;              *)
(*   - from the second round on, a round in which both peers are STUCK    *)
(*     leaves every dict as it was, and the next round repeats it (Fix);  *)
(*   - any other round creates an isolated link on a channel that had     *)
(*     none (NegotiationIsolationProofs), and there are only 4 channels.  *)
(* So a failed run has reached Fix by round 6, and Fix is what            *)
(* FailureIsQuiescent asks of the state run() returns in.                 *)
(***************************************************************************)
EXTENDS NegotiationIsolationProofs

\* Every dict is at a fixpoint: nothing in flight, both peers STUCK, and a
\* step with no incoming address would create nothing and not finish.
Fix ==
    /\ serverMsgs = {}
    /\ clientMsgs = {}
    /\ status = [p \in Peers |-> "STUCK"]
    /\ \A p \in Peers : Created(p, {}) = {} /\ ~IsFinalState(p)

\* The server's step in this round was STUCK and loaded nothing new for
\* the client.
ServerQuiet ==
    /\ status["server"] = "STUCK"
    /\ serverMsgs = {}
    /\ Created("server", {}) = {}
    /\ ~IsFinalState("server")

\* idx rounds have run; every round from the second on either reached Fix
\* or opened a new channel for an isolated link.
PInv ==
    /\ pc \in {"serverStart", "clientStart"} => idx = 0
    /\ pc = "loop" /\ idx >= 1 =>
          /\ serverMsgs = {}
          /\ Passed \/ Fix \/ Cardinality(IsoChans) >= idx - 1
    /\ pc = "clientStep" /\ idx >= 1 =>
          \/ Passed \/ Fix \/ Cardinality(IsoChans) >= idx
          \/ ServerQuiet /\ Cardinality(IsoChans) >= idx - 1
    /\ pc = "done" => Passed \/ Fix \/ Cardinality(IsoChans) >= idx - 1
    /\ pc = "done" => Passed \/ idx > MaxIterations

QInv == UInv /\ PInv

-----------------------------------------------------------------------------
(***************************************************************************)
(* Counting channels.                                                      *)
(***************************************************************************)
LEMMA ChannelsCard == IsFiniteSet(Channels) /\ Cardinality(Channels) = 4
<1>1. IsFiniteSet({"init_c2s"}) /\ Cardinality({"init_c2s"}) = 1
  BY FS_Singleton
<1>2. IsFiniteSet({"init_c2s"} \cup {"init_s2c"})
      /\ Cardinality({"init_c2s"} \cup {"init_s2c"}) = 2
  BY <1>1, FS_AddElement
<1>3. IsFiniteSet({"init_c2s"} \cup {"init_s2c"} \cup {"final_c2s"})
      /\ Cardinality({"init_c2s"} \cup {"init_s2c"} \cup {"final_c2s"}) = 3
  BY <1>2, FS_AddElement
<1>4. IsFiniteSet({"init_c2s"} \cup {"init_s2c"} \cup {"final_c2s"} \cup {"final_s2c"})
      /\ Cardinality({"init_c2s"} \cup {"init_s2c"} \cup {"final_c2s"} \cup {"final_s2c"}) = 4
  BY <1>3, FS_AddElement
<1>5. Channels = {"init_c2s"} \cup {"init_s2c"} \cup {"final_c2s"} \cup {"final_s2c"}
  BY DEF Channels
<1>. QED
  BY <1>4, <1>5

\* A set of channels has at most 4 elements.
LEMMA ChanSetCard ==
    ASSUME NEW A \in SUBSET Channels
    PROVE  IsFiniteSet(A) /\ Cardinality(A) \in 0..4
<1>1. IsFiniteSet(A) /\ Cardinality(A) <= 4
  BY ChannelsCard, FS_Subset
<1>2. Cardinality(A) \in Nat
  BY <1>1, FS_CardinalityType
<1>. QED
  BY <1>1, <1>2

\* Adding a channel to a set of channels adds one to its size.
LEMMA ChanSetGrow ==
    ASSUME NEW A \in SUBSET Channels, NEW B \in SUBSET Channels, A \subseteq B
    PROVE  /\ Cardinality(A) <= Cardinality(B)
           /\ (\E x \in B \ A : TRUE) => Cardinality(A) + 1 <= Cardinality(B)
<1>1. IsFiniteSet(A) /\ IsFiniteSet(B) /\ Cardinality(A) \in Nat /\ Cardinality(B) \in Nat
  BY ChanSetCard
<1>2. Cardinality(A) <= Cardinality(B)
  BY <1>1, FS_Subset
<1>3. ASSUME NEW x \in B \ A PROVE Cardinality(A) + 1 <= Cardinality(B)
  <2>1. IsFiniteSet(A \cup {x}) /\ Cardinality(A \cup {x}) = Cardinality(A) + 1
    BY <1>1, FS_AddElement
  <2>2. A \cup {x} \subseteq B
    OBVIOUS
  <2>. QED
    BY <1>1, <2>1, <2>2, FS_Subset
<1>. QED
  BY <1>2, <1>3

LEMMA IsoChansType == IsoChans \subseteq Channels
BY DEF IsoChans

-----------------------------------------------------------------------------
(***************************************************************************)
(* Finality is symmetric.                                                  *)
(***************************************************************************)
\* The two peers' requirements on a channel are mirror images.
LEMMA ReqIso ==
    ASSUME NEW p \in Peers, NEW i \in 1..4
    PROVE  Reqs(p)[i].isolated <=> ReqChans(p)[i] \in {"final_c2s", "final_s2c"}
<1>1. i = 1 \/ i = 2 \/ i = 3 \/ i = 4
  OBVIOUS
<1>2. p = "server" \/ p = "client"
  BY DEF Peers
<1>3. ReqChans(p)[i] = Reqs(p)[i].chan
  BY ReqChansType DEF ReqChans
<1>. QED
  BY <1>1, <1>2, <1>3 DEF Reqs, Req

LEMMA ReqChansCover ==
    ASSUME NEW p \in Peers, NEW c \in Channels
    PROVE  \E i \in 1..4 : ReqChans(p)[i] = c
<1>1. p = "server" \/ p = "client"
  BY DEF Peers
<1>. QED
  BY <1>1 DEF ReqChans, Reqs, Req, Channels

\* Every ready link of a dict has a ready, complementary copy in the other
\* peer's dict (ReadyIffShared and Complementary).
Mirrored ==
    \A p \in Peers : \A id \in DOMAIN links[p] :
        links[p][id].ready =>
            /\ id \in DOMAIN links[Other(p)]
            /\ links[Other(p)][id].ready
            /\ Compl(links[p][id], links[Other(p)][id])

LEMMA SInvMirrored == SInv => Mirrored
<1> SUFFICES ASSUME SInv, NEW p \in Peers, NEW id \in DOMAIN links[p], links[p][id].ready
             PROVE  /\ id \in DOMAIN links[Other(p)]
                    /\ links[Other(p)][id].ready
                    /\ Compl(links[p][id], links[Other(p)][id])
  BY DEF Mirrored
<1>1. Other(p) \in Peers /\ Other(Other(p)) = p
  BY DEF Other, Peers
<1>2. id \in DOMAIN links[Other(p)]
  BY DEF SInv, RInv, IInv, ReadyIffShared
<1>. QED
  BY <1>1, <1>2 DEF SInv, RInv, IInv, ReadyIffShared, Complementary

\* is_final_state of one peer implies it of the other: the other side's
\* copy of each link that meets a requirement meets the mirrored one.
\* Stated of two dicts L and M so that it applies before and after a step.
LEMMA FinalMirror ==
    ASSUME NEW p \in Peers, NEW L, NEW M,
           \A id \in DOMAIN L : L[id].ready =>
               id \in DOMAIN M /\ M[id].ready /\ Compl(L[id], M[id]),
           FinalIn(L, p)
    PROVE  FinalIn(M, Other(p))
<1> DEFINE q == Other(p)
<1>1. q \in Peers /\ Other(q) = p
  BY DEF Other, Peers
<1> SUFFICES ASSUME NEW j \in 1..4 PROVE Met(M, Reqs(q)[j])
  BY <1>1, ReqChansType DEF FinalIn
<1> DEFINE c == ReqChans(q)[j]
<1>2. /\ Reqs(q)[j].chan = c /\ c \in Channels
      /\ Reqs(q)[j].send <=> c \in SendChans(q)
      /\ Reqs(q)[j].recv <=> c \notin SendChans(q)
      /\ Reqs(q)[j].isolated <=> c \in {"final_c2s", "final_s2c"}
  BY <1>1, ReqShape, ReqIso
<1>3. PICK i \in 1..4 : ReqChans(p)[i] = c
  BY <1>2, ReqChansCover
<1>4. /\ Reqs(p)[i].chan = c
      /\ Reqs(p)[i].send <=> c \in SendChans(p)
      /\ Reqs(p)[i].recv <=> c \notin SendChans(p)
      /\ Reqs(p)[i].isolated <=> c \in {"final_c2s", "final_s2c"}
  BY <1>3, ReqShape, ReqIso
<1>5. c \in SendChans(q) <=> c \notin SendChans(p)
  BY <1>2, SendChansOther
<1>6. PICK id \in DOMAIN L : Satisfies(L[id], Reqs(p)[i])
  BY ReqChansType DEF FinalIn, Met
<1>7. id \in DOMAIN M /\ M[id].ready /\ Compl(L[id], M[id])
  BY <1>6 DEF Satisfies
<1>8. Satisfies(M[id], Reqs(q)[j])
  BY <1>2, <1>4, <1>5, <1>6, <1>7 DEF Satisfies, Compl
<1>. QED
  BY <1>7, <1>8 DEF Met

LEMMA FinalSymmetric ==
    ASSUME Mirrored, NEW p \in Peers, IsFinalState(p)
    PROVE  IsFinalState(Other(p))
BY FinalMirror DEF Mirrored, IsFinalState

\* The same of the state after a step.
LEMMA FinalSymmetricAfter ==
    ASSUME Mirrored', NEW p \in Peers, IsFinalState(p)'
    PROVE  IsFinalState(Other(p))'
<1>1. \A id \in DOMAIN links'[p] : links'[p][id].ready =>
         /\ id \in DOMAIN links'[Other(p)]
         /\ links'[Other(p)][id].ready
         /\ Compl(links'[p][id], links'[Other(p)][id])
  BY DEF Mirrored
<1>2. FinalIn(links'[p], p)
  BY DEF IsFinalState
<1>3. FinalIn(links'[Other(p)], Other(p))
  BY <1>1, <1>2, FinalMirror
<1>. QED
  BY <1>3 DEF IsFinalState

-----------------------------------------------------------------------------
(***************************************************************************)
(* Steps that create nothing.                                              *)
(***************************************************************************)
\* load_link over no address changes nothing.
LEMMA LoadEmpty ==
    ASSUME NEW D, NEW L \in [D -> LinkRec], NEW Lo
    PROVE  Load(L, Lo, {}) = L
BY DEF Load

LEMMA MarkReadyEmpty ==
    ASSUME NEW D, NEW L \in [D -> LinkRec]
    PROVE  MarkReady(L, {}) = L
BY DEF MarkReady

\* What a step computes depends on the peers' dicts and dir only.
LEMMA SameDicts ==
    ASSUME \A r \in Peers : links'[r] = links[r], dir' = dir
    PROVE  \A p \in Peers : /\ Created(p, {})' = Created(p, {})
                            /\ IsFinalState(p)' = IsFinalState(p)
<1> SUFFICES ASSUME NEW p \in Peers
             PROVE  Created(p, {})' = Created(p, {}) /\ IsFinalState(p)' = IsFinalState(p)
  OBVIOUS
<1>1. Other(p) \in Peers
  BY DEF Other, Peers
<1>2. Loaded(p, {})' = Loaded(p, {})
  BY <1>1 DEF Loaded, Load
<1>. QED
  BY <1>2 DEF Created, Responsible, IsFinalState

\* A step that creates nothing leaves p with the dict it loaded, and a
\* step over no address then creates nothing either; step returns
\* FINISHED or STUCK (finished_or).
LEMMA QuietStep ==
    ASSUME SInv, NEW p \in Peers, NEW msgs \in SUBSET DOMAIN links[Other(p)],
           Step(p, msgs), dir' = dir, Created(p, msgs) = {}
    PROVE  /\ links'[p] = Loaded(p, msgs)
           /\ Created(p, {})' = {}
           /\ status'[p] = IF IsFinalState(p)' THEN "FINISHED" ELSE "STUCK"
           /\ NewIds(Created(p, msgs)) = {}
<1>1. IInv
  BY DEF SInv, RInv
<1>2. /\ DirOK /\ Other(p) \in Peers
      /\ links[p] \in [DOMAIN links[p] -> LinkRec]
      /\ links[Other(p)] \in [DOMAIN links[Other(p)] -> LinkRec]
      /\ status \in [Peers -> Statuses]
  BY <1>1 DEF IInv, TypeOK, DirOK, Other, Peers
<1>3. NewIds(Created(p, msgs)) = {}
  BY DEF NewIds
<1>4. Loaded(p, msgs) \in [DOMAIN links[p] \cup msgs -> LinkRec]
  BY <1>2, LoadFacts DEF Loaded
<1>5. links'[p] = Loaded(p, msgs)
  <2>1. links'[p] = StepLinks(p, msgs)
    BY DEF Step
  <2>. QED
    BY <2>1, <1>3, <1>4 DEF StepLinks, CreateLinks
<1>9. Loaded(p, {})' = links'[p]
  BY <1>4, <1>5 DEF Loaded, Load
<1>6. Created(p, {})' = Created(p, msgs)
  BY <1>5, <1>9 DEF Created, Responsible
<1>7. status'[p] = StepStatus(p, msgs) /\ StepLinks(p, msgs) = links'[p]
  BY <1>2 DEF Step
<1>. QED
  BY <1>3, <1>5, <1>6, <1>7 DEF StepStatus, IsFinalState

\* A step over no address that creates nothing changes no dict.
LEMMA NullStep ==
    ASSUME SInv, NEW p \in Peers, Step(p, {}), dir' = dir, Created(p, {}) = {}
    PROVE  /\ \A r \in Peers : links'[r] = links[r]
           /\ status'[p] = IF IsFinalState(p) THEN "FINISHED" ELSE "STUCK"
           /\ NewIds(Created(p, {})) = {}
<1>1. /\ links'[p] = Loaded(p, {})
      /\ status'[p] = IF IsFinalState(p)' THEN "FINISHED" ELSE "STUCK"
      /\ NewIds(Created(p, {})) = {}
  BY QuietStep
<1>2. /\ links[p] \in [DOMAIN links[p] -> LinkRec]
      /\ links[Other(p)] \in [DOMAIN links[Other(p)] -> LinkRec]
      /\ Other(p) \in Peers /\ Other(p) # p
  BY DEF SInv, RInv, IInv, TypeOK, Other, Peers
<1>3. links'[p] = links[p]
  BY <1>1, <1>2, LoadEmpty DEF Loaded
<1>4. links'[Other(p)] = links[Other(p)]
  BY <1>2, MarkReadyEmpty DEF Step
<1>5. \A r \in Peers : links'[r] = links[r]
  BY <1>3, <1>4 DEF Peers, Other
<1>6. IsFinalState(p)' = IsFinalState(p)
  BY <1>5, SameDicts
<1>. QED
  BY <1>1, <1>5, <1>6
-----------------------------------------------------------------------------
(***************************************************************************)
(* Steps that create: a new isolated link opens a channel.                 *)
(***************************************************************************)
\* Links are never dropped, so no channel loses its isolated link.
LEMMA IsoMono ==
    ASSUME \A r \in Peers : KeptIn(links[r], links'[r])
    PROVE  IsoChans \subseteq IsoChans'
BY DEF IsoChans, KeptIn

\* A passed negotiation stays passed.
LEMMA PassedKept ==
    ASSUME \A r \in Peers : KeptIn(links[r], links'[r]), Passed
    PROVE  Passed'
<1>1. \A p \in Peers : \A i \in DOMAIN Reqs(p) : Met(links'[p], Reqs(p)[i])
  BY MetKept DEF Passed, IsFinalState, FinalIn, Peers
<1>. QED
  BY <1>1 DEF Passed, IsFinalState, FinalIn, Peers

\* The counts of the channels with an isolated link before and after a step.
LEMMA IsoCount ==
    ASSUME TypeOK', \A r \in Peers : KeptIn(links[r], links'[r])
    PROVE  /\ Cardinality(IsoChans) \in 0..4
           /\ Cardinality(IsoChans') \in 0..4
           /\ Cardinality(IsoChans) <= Cardinality(IsoChans')
           /\ \A p \in Peers : \A id \in DOMAIN links'[p] :
                 links'[p][id].isolated /\ links'[p][id].chan \notin IsoChans
                 => Cardinality(IsoChans) + 1 <= Cardinality(IsoChans')
<1>1. IsoChans \subseteq Channels /\ IsoChans' \subseteq Channels
  BY DEF IsoChans
<1>2. IsoChans \subseteq IsoChans'
  BY IsoMono
<1>3. ASSUME NEW p \in Peers, NEW id \in DOMAIN links'[p],
             links'[p][id].isolated, links'[p][id].chan \notin IsoChans
      PROVE  Cardinality(IsoChans) + 1 <= Cardinality(IsoChans')
  <2>1. links'[p][id].chan \in Channels
    BY DEF TypeOK, LinkRec
  <2>2. links'[p][id].chan \in IsoChans' \ IsoChans
    BY <1>3, <2>1 DEF IsoChans
  <2>. QED
    BY <1>1, <1>2, <2>2, ChanSetGrow
<1>. QED
  BY <1>1, <1>2, <1>3, ChanSetCard, ChanSetGrow

\* A step that creates adds a channel to IsoChans (NegotiationIsolationProofs).
LEMMA StepGrows ==
    ASSUME UInv, SInv', NEW p \in Peers, Step(p, Out(Other(p))), dir' = dir,
           \A id \in Out(p) : ~links[p][id].isolated,
           \A r \in Peers : KeptIn(links[r], links'[r]),
           Out(p)' = Out(p) \cup NewIds(Created(p, Out(Other(p)))),
           Out(Other(p))' = {},
           Created(p, Out(Other(p))) # {}
    PROVE  Cardinality(IsoChans) + 1 <= Cardinality(IsoChans')
<1>1. \A id \in NewIds(Created(p, Out(Other(p)))) :
         links'[p][id].isolated /\ links'[p][id].chan \notin IsoChans
  BY StepIso DEF UInv
<1>2. PICK id \in NewIds(Created(p, Out(Other(p)))) : TRUE
  BY DEF NewIds
<1>3. Out(Other(p)) \subseteq DOMAIN links[Other(p)] /\ IInv
  BY DEF UInv, SInv, RInv, IInv, MsgsHeld, Out, Other, Peers
<1>4. id \in DOMAIN links'[p]
  BY <1>3, StepFacts
<1>5. TypeOK'
  BY DEF SInv, RInv, IInv
<1>. QED
  BY <1>1, <1>4, <1>5, IsoCount

-----------------------------------------------------------------------------
LEMMA InitQInv == Init => QInv
<1> SUFFICES ASSUME Init PROVE QInv
  OBVIOUS
<1>1. UInv
  BY InitUInv
<1>. QED
  BY <1>1 DEF Init, QInv, PInv
-----------------------------------------------------------------------------
\* Facts every loop step of a peer uses.
LEMMA StepBasics ==
    ASSUME UInv, UInv', NEW p \in Peers, Step(p, Out(Other(p))), dir' = dir
    PROVE  /\ IInv /\ Mirrored' /\ TypeOK'
           /\ Other(p) \in Peers /\ Other(p) # p /\ Other(Other(p)) = p
           /\ Out(Other(p)) \subseteq DOMAIN links[Other(p)]
           /\ \A r \in Peers : KeptIn(links[r], links'[r])
           /\ status'[Other(p)] = status[Other(p)]
           /\ status' \in [Peers -> Statuses]
           /\ idx \in Nat
<1>1. IInv /\ SInv /\ SInv'
  BY DEF UInv, SInv, RInv
<1>2. Other(p) \in Peers /\ Other(p) # p /\ Other(Other(p)) = p
  BY DEF Other, Peers
<1>3. Out(Other(p)) \subseteq DOMAIN links[Other(p)]
  BY <1>1, <1>2 DEF IInv, MsgsHeld, Out, Other, Peers
<1>4. Mirrored'
  <2>1. SInv'
    BY <1>1
  <2>. QED
    BY <2>1, <1>2 DEF SInv, RInv, IInv, ReadyIffShared, Complementary, Mirrored, Other, Peers
<1>5. \A r \in Peers : KeptIn(links[r], links'[r])
  <2>1. \A r \in Peers : links[r] \in [DOMAIN links[r] -> LinkRec]
    BY <1>1 DEF IInv, TypeOK
  <2>2. links'[p] = StepLinks(p, Out(Other(p)))
        /\ links'[Other(p)] = MarkReady(links[Other(p)], Out(Other(p)))
    BY <1>2 DEF Step
  <2>3. KeptIn(links[Other(p)], links'[Other(p)])
    BY <1>2, <2>1, <2>2, MarkReadyKept
  <2>4. KeptIn(links[p], links'[p])
    <3>1. DOMAIN links[p] \subseteq DOMAIN links'[p]
      BY <1>1, <1>3, StepFacts
    <3>2. \A id \in DOMAIN links[p] \ Out(Other(p)) : links'[p][id] = links[p][id]
      BY <1>1, <1>3, StepFacts
    <3>3. \A id \in DOMAIN links[p] \cap Out(Other(p)) : FALSE
      BY <1>1, <1>2, <1>3 DEF RInv, UInv, SInv, MsgsFresh, Out, Other, Peers
    <3>. QED
      BY <3>1, <3>2, <3>3, EqualKept
  <2>. QED
    BY <2>3, <2>4, <1>2 DEF Peers, Other
<1>6. status'[Other(p)] = status[Other(p)] /\ status' \in [Peers -> Statuses]
  BY <1>1, <1>2, <1>3, StepFacts DEF Step, IInv, TypeOK
<1>7. idx \in Nat
  BY <1>1 DEF IInv, TypeOK
<1>. QED
  BY <1>1, <1>2, <1>3, <1>4, <1>5, <1>6, <1>7 DEF SInv, RInv, IInv

\* server.step: a round's first half keeps the count of PInv.
LEMMA ServerStepPInv ==
    ASSUME QInv, UInv', ServerStep
    PROVE  PInv'
<1> DEFINE C == Created("server", clientMsgs)
<1>1. /\ pc = "loop" /\ pc' = "clientStep" /\ ~Passed
      /\ Step("server", clientMsgs) /\ dir' = dir /\ idx' = idx
      /\ serverMsgs' = serverMsgs \cup NewIds(C)
      /\ clientMsgs' = {}
  BY DEF ServerStep, Passed
<1>2. /\ "server" \in Peers /\ Other("server") = "client"
      /\ Out("server") = serverMsgs /\ Out("client") = clientMsgs
      /\ Out("server")' = serverMsgs' /\ Out("client")' = clientMsgs'
  BY DEF Peers, Other, Out
<1>3. /\ IInv /\ Mirrored' /\ TypeOK' /\ idx \in Nat
      /\ clientMsgs \subseteq DOMAIN links["client"]
      /\ \A r \in Peers : KeptIn(links[r], links'[r])
      /\ status'["client"] = status["client"]
      /\ status' \in [Peers -> Statuses]
  BY <1>1, <1>2, StepBasics DEF QInv
<1>4. /\ Cardinality(IsoChans) \in 0..4 /\ Cardinality(IsoChans') \in 0..4
      /\ Cardinality(IsoChans) <= Cardinality(IsoChans')
  BY <1>3, IsoCount
<1> SUFFICES ASSUME idx >= 1
             PROVE  \/ Passed' \/ Fix' \/ Cardinality(IsoChans') >= idx
                    \/ ServerQuiet' /\ Cardinality(IsoChans') >= idx - 1
  BY <1>1 DEF PInv
<1>5. serverMsgs = {} /\ (Fix \/ Cardinality(IsoChans) >= idx - 1)
  BY <1>1 DEF QInv, PInv
<1>6. CASE C # {}
  <2>1. Fix => clientMsgs = {} /\ Created("server", {}) = {}
    BY DEF Fix, Peers
  <2>2. \A id \in Out("server") : ~links["server"][id].isolated
    BY <1>2, <1>5
  <2>3. Cardinality(IsoChans) + 1 <= Cardinality(IsoChans')
    BY <1>1, <1>2, <1>3, <1>6, <2>2, StepGrows DEF QInv, UInv, SInv
  <2>. QED
    BY <1>3, <1>4, <1>5, <1>6, <2>1, <2>3
<1>7. CASE C = {} /\ Fix
  <2>1. clientMsgs = {} /\ Created("server", {}) = {} /\ ~IsFinalState("server")
    BY <1>7 DEF Fix, Peers
  <2>2. /\ \A r \in Peers : links'[r] = links[r]
        /\ status'["server"] = "STUCK"
        /\ NewIds(C) = {}
    BY <1>1, <1>2, <2>1, NullStep DEF QInv, UInv
  <2>3. \A r \in Peers : Created(r, {})' = Created(r, {}) /\ IsFinalState(r)' = IsFinalState(r)
    BY <1>1, <2>2, SameDicts
  <2>4. status' = [r \in Peers |-> "STUCK"]
    BY <1>3, <1>7, <2>2 DEF Fix, Peers
  <2>5. Fix'
    BY <1>1, <1>5, <1>7, <2>2, <2>3, <2>4 DEF Fix
  <2>. QED
    BY <2>5
<1>8. CASE C = {} /\ ~Fix
  <2>1. /\ links'["server"] = Loaded("server", clientMsgs)
        /\ Created("server", {})' = {}
        /\ status'["server"] = IF IsFinalState("server")' THEN "FINISHED" ELSE "STUCK"
        /\ NewIds(C) = {}
    BY <1>1, <1>2, <1>3, <1>8, QuietStep DEF QInv, UInv
  <2>2. Cardinality(IsoChans') >= idx - 1
    BY <1>3, <1>4, <1>5, <1>8
  <2>3. CASE IsFinalState("server")'
    <3>1. IsFinalState("client")'
      BY <2>3, <1>2, <1>3, FinalSymmetricAfter
    <3>. QED
      BY <2>3, <3>1 DEF Passed
  <2>4. CASE ~IsFinalState("server")'
    BY <1>1, <1>5, <2>1, <2>2, <2>4 DEF ServerQuiet
  <2>. QED
    BY <2>3, <2>4
<1>. QED
  BY <1>6, <1>7, <1>8
\* client.step and the count: a round's second half keeps PInv, and the
\* ceiling test ends the loop only past MaxIterations.
LEMMA ClientStepPInv ==
    ASSUME QInv, UInv', ClientStep
    PROVE  PInv'
<1> DEFINE C == Created("client", serverMsgs)
<1>1. /\ pc = "clientStep" /\ pc' = IF CeilingReached(idx + 1) THEN "done" ELSE "loop"
      /\ Step("client", serverMsgs) /\ dir' = dir /\ idx' = idx + 1
      /\ clientMsgs' = clientMsgs \cup NewIds(C)
      /\ serverMsgs' = {}
  BY DEF ClientStep
<1>2. /\ "client" \in Peers /\ Other("client") = "server"
      /\ Out("client") = clientMsgs /\ Out("server") = serverMsgs
      /\ Out("client")' = clientMsgs' /\ Out("server")' = serverMsgs'
  BY DEF Peers, Other, Out
<1>3. /\ IInv /\ Mirrored' /\ TypeOK' /\ idx \in Nat
      /\ serverMsgs \subseteq DOMAIN links["server"]
      /\ \A r \in Peers : KeptIn(links[r], links'[r])
      /\ status'["server"] = status["server"]
      /\ status' \in [Peers -> Statuses]
  BY <1>1, <1>2, StepBasics DEF QInv
<1>4. /\ Cardinality(IsoChans) \in 0..4 /\ Cardinality(IsoChans') \in 0..4
      /\ Cardinality(IsoChans) <= Cardinality(IsoChans')
  BY <1>3, IsoCount
<1>5. clientMsgs = {}
  BY <1>1 DEF QInv, UInv, OutboxClean
<1>6. Passed' \/ Fix' \/ Cardinality(IsoChans') >= idx
  <2>1. CASE idx = 0
    BY <1>4, <2>1
  <2>2. CASE Passed
    BY <1>3, <2>2, PassedKept
  <2>3. CASE Cardinality(IsoChans) >= idx
    BY <1>3, <1>4, <2>3
  <2>4. CASE Fix
    <3>1. serverMsgs = {} /\ Created("client", {}) = {} /\ ~IsFinalState("client")
      BY <2>4 DEF Fix, Peers
    <3>2. /\ \A r \in Peers : links'[r] = links[r]
          /\ status'["client"] = "STUCK"
          /\ NewIds(C) = {}
      BY <1>1, <1>2, <3>1, NullStep DEF QInv, UInv
    <3>3. \A r \in Peers : Created(r, {})' = Created(r, {}) /\ IsFinalState(r)' = IsFinalState(r)
      BY <1>1, <3>2, SameDicts
    <3>4. status' = [r \in Peers |-> "STUCK"]
      BY <1>3, <2>4, <3>2 DEF Fix, Peers
    <3>. QED
      BY <1>1, <1>5, <2>4, <3>2, <3>3, <3>4 DEF Fix
  <2>5. CASE idx >= 1 /\ ServerQuiet /\ Cardinality(IsoChans) >= idx - 1
    <3>1. serverMsgs = {} /\ Created("server", {}) = {} /\ ~IsFinalState("server")
          /\ status["server"] = "STUCK"
      BY <2>5 DEF ServerQuiet
    <3>2. CASE C # {}
      <4>1. Cardinality(IsoChans) + 1 <= Cardinality(IsoChans')
        BY <1>1, <1>2, <1>3, <1>5, <3>2, StepGrows DEF QInv, UInv, SInv
      <4>. QED
        BY <1>3, <1>4, <2>5, <4>1
    <3>3. CASE C = {}
      <4>1. Created("client", {}) = {}
        BY <3>1, <3>3
      <4>2. /\ \A r \in Peers : links'[r] = links[r]
            /\ status'["client"] = IF IsFinalState("client") THEN "FINISHED" ELSE "STUCK"
            /\ NewIds(C) = {}
        BY <1>1, <1>2, <3>1, <4>1, NullStep DEF QInv, UInv
      <4>3. ~IsFinalState("client")
        <5>1. Mirrored
          BY SInvMirrored DEF QInv, UInv
        <5>. QED
          BY <5>1, <3>1, <1>2, FinalSymmetric
      <4>4. \A r \in Peers : Created(r, {})' = Created(r, {}) /\ IsFinalState(r)' = IsFinalState(r)
        BY <1>1, <4>2, SameDicts
      <4>5. status' = [r \in Peers |-> "STUCK"]
        BY <1>3, <3>1, <4>2, <4>3 DEF Peers
      <4>. QED
        BY <1>1, <1>5, <3>1, <4>1, <4>2, <4>3, <4>4, <4>5 DEF Fix, Peers
    <3>. QED
      BY <3>2, <3>3
  <2>. QED
    BY <1>1, <1>3, <2>1, <2>2, <2>3, <2>4, <2>5 DEF QInv, PInv
<1>. QED
  BY <1>1, <1>3, <1>6 DEF PInv, CeilingReached

\* The progress invariant holds in every reachable state.
LEMMA NextQInv == QInv /\ [Next]_vars => QInv'
<1> SUFFICES ASSUME QInv, [Next]_vars PROVE QInv'
  OBVIOUS
<1>1. UInv'
  BY NextUInv DEF QInv
<1> SUFFICES PInv'
  BY <1>1 DEF QInv
<1>2. CASE ServerStart
  BY <1>2 DEF ServerStart, QInv, PInv
<1>3. CASE ClientStart
  BY <1>3 DEF ClientStart, QInv, PInv
<1>4. CASE Exit
  <2>1. Passed'
    BY <1>4 DEF Exit, Passed, IsFinalState
  <2>. QED
    BY <1>4, <2>1 DEF Exit, PInv
<1>5. CASE ServerStep
  BY <1>1, <1>5, ServerStepPInv
<1>6. CASE ClientStep
  BY <1>1, <1>6, ClientStepPInv
<1>7. CASE Terminated \/ UNCHANGED vars
  <2>1. UNCHANGED vars
    BY <1>7 DEF Terminated
  <2>2. \A r \in Peers : Created(r, {})' = Created(r, {}) /\ IsFinalState(r)' = IsFinalState(r)
    BY <2>1, SameDicts DEF vars
  <2>3. IsoChans' = IsoChans
    BY <2>1 DEF vars, IsoChans
  <2>. QED
    BY <2>1, <2>2, <2>3 DEF vars, QInv, PInv, Fix, ServerQuiet, Passed, Peers
<1>. QED
  BY <1>2, <1>3, <1>4, <1>5, <1>6, <1>7 DEF Next

THEOREM QInvHolds == Spec => []QInv
BY InitQInv, NextQInv, PTL DEF Spec

\* run() returns with a failure only when the negotiation can make no more
\* progress: both peers' last steps were STUCK and nothing is in flight,
\* so a larger iteration ceiling would not have passed it either
\* (FailureIsQuiescent). Each round that does not reach that fixpoint opens
\* one of the 4 channels for an isolated link, so a ceiling of at least 5
\* rounds (the code's) is enough, for every scenario.
THEOREM FailureIsQuiescentHolds ==
    ASSUME MaxIterations >= 5
    PROVE  Spec => []FailureIsQuiescent
<1>1. QInv => FailureIsQuiescent
  <2> SUFFICES ASSUME QInv, pc = "done", ~Passed
               PROVE  /\ status = [p \in Peers |-> "STUCK"]
                      /\ serverMsgs = {} /\ clientMsgs = {}
    BY DEF FailureIsQuiescent
  <2>1. idx \in Nat /\ MaxIterations \in Nat
    BY ConstantsAssumption DEF QInv, UInv, SInv, RInv, IInv, TypeOK
  <2>2. Cardinality(IsoChans) \in 0..4
    BY IsoChansType, ChanSetCard
  <2>3. idx > MaxIterations /\ (Fix \/ Cardinality(IsoChans) >= idx - 1)
    BY DEF QInv, PInv
  <2>4. Fix
    BY <2>1, <2>2, <2>3
  <2>. QED
    BY <2>4 DEF Fix
<1>. QED
  BY <1>1, QInvHolds, PTL
\* is_final_state never holds for one peer and not the other: run()'s
\* loop test (either peer not final) and its verdict (both final) only
\* ever see the two agree.
FinalSym == \A p \in Peers : IsFinalState(p) => IsFinalState(Other(p))

THEOREM FinalStatesAgree == Spec => []FinalSym
<1>1. SInv => FinalSym
  BY SInvMirrored, FinalSymmetric DEF FinalSym
<1>. QED
  BY <1>1, SInvHolds, PTL

-----------------------------------------------------------------------------
(***************************************************************************)
(* Refinement of NegotiationAbstract under the mapping MetChans.           *)
(***************************************************************************)
\* The other peer's copy of a link that meets p's requirement on a channel
\* meets the other peer's requirement on that channel.
LEMMA ReqMirror ==
    ASSUME NEW p \in Peers, NEW L, NEW M,
           \A id \in DOMAIN L : L[id].ready =>
               id \in DOMAIN M /\ M[id].ready /\ Compl(L[id], M[id]),
           NEW i \in 1..4, Met(L, Reqs(p)[i])
    PROVE  \E j \in 1..4 : /\ Reqs(Other(p))[j].chan = Reqs(p)[i].chan
                           /\ Met(M, Reqs(Other(p))[j])
<1> DEFINE q == Other(p)
<1>1. q \in Peers /\ Other(q) = p
  BY DEF Other, Peers
<1> DEFINE c == ReqChans(p)[i]
<1>2. /\ Reqs(p)[i].chan = c /\ c \in Channels
      /\ Reqs(p)[i].send <=> c \in SendChans(p)
      /\ Reqs(p)[i].recv <=> c \notin SendChans(p)
      /\ Reqs(p)[i].isolated <=> c \in {"final_c2s", "final_s2c"}
  BY ReqShape, ReqIso
<1>3. PICK j \in 1..4 : ReqChans(q)[j] = c
  BY <1>1, <1>2, ReqChansCover
<1>4. /\ Reqs(q)[j].chan = c
      /\ Reqs(q)[j].send <=> c \in SendChans(q)
      /\ Reqs(q)[j].recv <=> c \notin SendChans(q)
      /\ Reqs(q)[j].isolated <=> c \in {"final_c2s", "final_s2c"}
  BY <1>1, <1>3, ReqShape, ReqIso
<1>5. c \in SendChans(q) <=> c \notin SendChans(p)
  BY <1>2, SendChansOther
<1>6. PICK id \in DOMAIN L : Satisfies(L[id], Reqs(p)[i])
  BY DEF Met
<1>7. id \in DOMAIN M /\ M[id].ready /\ Compl(L[id], M[id])
  BY <1>6 DEF Satisfies
<1>8. Satisfies(M[id], Reqs(q)[j])
  BY <1>2, <1>4, <1>5, <1>6, <1>7 DEF Satisfies, Compl
<1>. QED
  BY <1>2, <1>4, <1>7, <1>8 DEF Met

\* Hence a channel p has met is met by the other peer.
LEMMA MetInMirror ==
    ASSUME NEW p \in Peers, NEW L, NEW M,
           \A id \in DOMAIN L : L[id].ready =>
               id \in DOMAIN M /\ M[id].ready /\ Compl(L[id], M[id])
    PROVE  MetIn(L, p) \subseteq MetIn(M, Other(p))
<1> SUFFICES ASSUME NEW c \in MetIn(L, p) PROVE c \in MetIn(M, Other(p))
  OBVIOUS
<1>1. PICK i \in 1..4 : Reqs(p)[i].chan = c /\ Met(L, Reqs(p)[i])
  BY ReqChansType DEF MetIn
<1>2. PICK j \in 1..4 : Reqs(Other(p))[j].chan = c /\ Met(M, Reqs(Other(p))[j])
  BY <1>1, ReqMirror, ZenonT(60)
<1>3. Other(p) \in Peers /\ c \in Channels
  BY DEF Other, Peers, MetIn
<1>4. DOMAIN Reqs(Other(p)) = 1..4
  BY <1>3, ReqChansType
<1>. QED
  BY <1>2, <1>3, <1>4 DEF MetIn

\* Of two dicts that mirror each other, the server's and the client's met
\* channels are the same.
LEMMA MetSame ==
    ASSUME NEW Ls, NEW Lc,
           \A id \in DOMAIN Ls : Ls[id].ready =>
               id \in DOMAIN Lc /\ Lc[id].ready /\ Compl(Ls[id], Lc[id]),
           \A id \in DOMAIN Lc : Lc[id].ready =>
               id \in DOMAIN Ls /\ Ls[id].ready /\ Compl(Lc[id], Ls[id])
    PROVE  MetIn(Ls, "server") = MetIn(Lc, "client")
<1>1. "server" \in Peers /\ "client" \in Peers
      /\ Other("server") = "client" /\ Other("client") = "server"
  BY DEF Peers, Other
<1>2. MetIn(Ls, "server") \subseteq MetIn(Lc, "client")
  BY <1>1, MetInMirror
<1>3. MetIn(Lc, "client") \subseteq MetIn(Ls, "server")
  BY <1>1, MetInMirror
<1>. QED
  BY <1>2, <1>3

\* The mapping's invariant: both peers have met the same channels.
Agree == SInv /\ MetChans["server"] = MetChans["client"]

LEMMA SInvAgree == SInv => Agree
<1> SUFFICES ASSUME SInv PROVE MetChans["server"] = MetChans["client"]
  BY DEF Agree
<1>1. Mirrored
  BY SInvMirrored
<1>2. "server" \in Peers /\ "client" \in Peers
      /\ Other("server") = "client" /\ Other("client") = "server"
  BY DEF Peers, Other
<1>3. \A id \in DOMAIN links["server"] : links["server"][id].ready =>
         /\ id \in DOMAIN links["client"] /\ links["client"][id].ready
         /\ Compl(links["server"][id], links["client"][id])
  BY <1>1, <1>2 DEF Mirrored
<1>4. \A id \in DOMAIN links["client"] : links["client"][id].ready =>
         /\ id \in DOMAIN links["server"] /\ links["server"][id].ready
         /\ Compl(links["client"][id], links["server"][id])
  BY <1>1, <1>2 DEF Mirrored
<1>5. MetIn(links["server"], "server") = MetIn(links["client"], "client")
  BY <1>3, <1>4, MetSame, ZenonT(60)
<1>. QED
  BY <1>2, <1>5 DEF MetChans

\* What a peer has met it keeps met.
LEMMA MetGrows ==
    ASSUME NEW p, NEW L, NEW M, KeptIn(L, M)
    PROVE  MetIn(L, p) \subseteq MetIn(M, p)
BY MetKept DEF MetIn

\* A step of run() is a step of the abstract negotiation or a stutter.
LEMMA AgreeStep ==
    Agree /\ Agree' /\ [Next]_vars => [Abstract!ANext]_Abstract!avars
<1> SUFFICES ASSUME Agree, Agree', [Next]_vars
             PROVE  [Abstract!ANext]_Abstract!avars
  OBVIOUS
<1>1. \A p \in Peers : p = "server" \/ p = "client"
  BY DEF Peers
<1>2. \A p \in Peers : KeptIn(links[p], links'[p])
  BY NextKept DEF Agree, SInv
<1>3. \A p \in Peers : MetChans[p] \subseteq MetChans'[p]
  BY <1>2, MetGrows DEF MetChans
<1>4. /\ MetChans["server"] = MetChans["client"]
      /\ MetChans'["server"] = MetChans'["client"]
  BY DEF Agree
<1>5. CASE pc = "done"
  <2>1. links' = links /\ pc' = pc
    BY <1>5 DEF Next, ServerStart, ClientStart, Exit, ServerStep, ClientStep, Terminated, vars
  <2>. QED
    BY <2>1 DEF Abstract!avars, MetChans
<1>6. CASE pc # "done"
  <2>1. MetChans'["server"] \ MetChans["server"] \in SUBSET Channels
    <3>1. MetChans'["server"] = MetIn(links'["server"], "server")
      BY DEF MetChans, Peers
    <3>2. MetIn(links'["server"], "server") \subseteq Channels
      BY DEF MetIn
    <3>. QED
      BY <3>1, <3>2
  <2>2. MetChans' = [p \in Peers |-> MetChans[p] \cup (MetChans'["server"] \ MetChans["server"])]
    <3>1. MetChans' = [p \in Peers |-> MetChans'[p]]
      BY DEF MetChans
    <3>. QED
      BY <3>1, <1>1, <1>3, <1>4 DEF Peers
  <2>3. Abstract!Establish(MetChans'["server"] \ MetChans["server"])
    BY <2>2 DEF Abstract!Establish
  <2>4. CASE pc' = "done"
    BY <1>6, <2>1, <2>3, <2>4 DEF Abstract!ANext, Abstract!Return
  <2>5. CASE pc' # "done"
    BY <1>6, <2>1, <2>3, <2>5 DEF Abstract!ANext, Abstract!Progress
  <2>. QED
    BY <2>4, <2>5
<1>. QED
  BY <1>5, <1>6

\* run() implements the abstract negotiation (Refinement): every step of
\* load_link, its write through other_node and create_link meets a
\* channel's requirement for both peers at once or for neither, never
\* unmeets one, and run() returns once.
THEOREM RefinementHolds == Spec => Refinement
<1>1. Init => Abstract!AInit
  <2> SUFFICES ASSUME Init PROVE Abstract!AInit
    OBVIOUS
  <2>1. \A p \in Peers : MetIn(links[p], p) = {}
    BY DEF Init, MetIn, Met, EmptyLinks
  <2>2. MetChans = [p \in Peers |-> {}]
    BY <2>1 DEF MetChans
  <2>3. pc # "done"
    BY DEF Init
  <2>. QED
    BY <2>2, <2>3 DEF Abstract!AInit
<1>2. Spec => []Agree
  BY SInvHolds, SInvAgree, PTL
<1>. QED
  BY <1>1, <1>2, AgreeStep, PTL DEF Spec, Refinement, Abstract!ASpec

=============================================================================
