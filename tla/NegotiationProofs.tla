------------------------- MODULE NegotiationProofs -------------------------
(***************************************************************************)
(* Proofs about the negotiation of states.py for every scenario and every *)
(* iteration ceiling.                                                      *)
(*                                                                         *)
(* TypeOK is not inductive: load_link reads the creator's copy of every    *)
(* address it loads (self.other_node.links[addr.link]), so a step is only *)
(* well typed if every address in flight is held by its sender (MsgsHeld). *)
(* ReadyIffShared needs in addition that create_link's ids are fresh, i.e. *)
(* that every held id is below the global counter (IdsBelowCounter).       *)
(***************************************************************************)
EXTENDS Negotiation, FiniteSetTheorems, TLAPS

\* Every address in flight is held by the peer that sent it.
MsgsHeld ==
    /\ serverMsgs \subseteq DOMAIN links["server"]
    /\ clientMsgs \subseteq DOMAIN links["client"]

\* Every id a peer holds was handed out by link_idx before its current value.
IdsBelowCounter ==
    \A p \in Peers : \A id \in DOMAIN links[p] : id < linkIdx

IInv == TypeOK /\ MsgsHeld /\ IdsBelowCounter /\ ReadyIffShared

DirOK == dir \in [Channels -> CLIDirs]

-----------------------------------------------------------------------------
(***************************************************************************)
(* Lemmas about the link operators.                                        *)
(***************************************************************************)

\* The Link constructor builds a link record that is not ready.
LEMMA NewLinkType ==
    ASSUME DirOK, NEW c \in Channels, NEW loaded \in BOOLEAN, NEW iso \in BOOLEAN
    PROVE  /\ NewLink(dir, c, loaded, iso) \in LinkRec
           /\ NewLink(dir, c, loaded, iso).ready = FALSE
BY DEF DirOK, NewLink, IsSend, IsRecv, LinkRec, Dirs

\* The requirement lists and the start lists name channels.
LEMMA ReqChansType ==
    ASSUME NEW p \in Peers
    PROVE  /\ DOMAIN Reqs(p) = 1..4
           /\ ReqChans(p) \in [1..4 -> Channels]
BY DEF Peers, Reqs, Req, ReqChans, Channels

LEMMA StartChansType ==
    ASSUME NEW p \in Peers
    PROVE  /\ StartChans(p) \in [1..2 -> Channels]
           /\ StartSet(p) \subseteq 1..2
BY DEF StartChans, MakeArgs, StartTests, StartSet, Channels, Peers

\* The sets of indices a call creates links for are finite sets of
\* naturals.
LEMMA CreatedType ==
    ASSUME NEW p \in Peers, NEW msgs
    PROVE  Created(p, msgs) \subseteq 1..4
BY ReqChansType DEF Created

\* The i-th created link gets an id at or above the counter and below the
\* counter's next value.
LEMMA RankBound ==
    ASSUME NEW S \in SUBSET Int, IsFiniteSet(S), NEW i \in S
    PROVE  /\ Rank(S, i) \in Nat
           /\ Rank(S, i) < Cardinality(S)
<1>1. IsFiniteSet(S \ {i}) /\ Cardinality(S \ {i}) = Cardinality(S) - 1
  BY FS_RemoveElement
<1>2. {j \in S : j < i} \subseteq S \ {i}
  OBVIOUS
<1>3. IsFiniteSet({j \in S : j < i})
      /\ Cardinality({j \in S : j < i}) <= Cardinality(S \ {i})
  BY <1>1, <1>2, FS_Subset
<1>4. Cardinality({j \in S : j < i}) \in Nat /\ Cardinality(S \ {i}) \in Nat
  BY <1>1, <1>3, FS_CardinalityType
<1>5. Cardinality(S) \in Nat
  BY FS_CardinalityType
<1>. QED
  BY <1>1, <1>3, <1>4, <1>5 DEF Rank

LEMMA NewIdsRange ==
    ASSUME linkIdx \in Nat \ {0}, NEW S \in SUBSET Int, IsFiniteSet(S)
    PROVE  /\ Cardinality(S) \in Nat
           /\ \A id \in NewIds(S) : /\ id \in Nat \ {0}
                                   /\ linkIdx <= id
                                   /\ id < linkIdx + Cardinality(S)
BY RankBound, FS_CardinalityType DEF NewIds

\* create_link: the new links are well typed and not ready, and the old
\* ones are kept.
LEMMA CreateLinksFacts ==
    ASSUME DirOK, NEW D, NEW L \in [D -> LinkRec], NEW chans, NEW S,
           \A i \in S : chans[i] \in Channels, NEW iso \in BOOLEAN
    PROVE  /\ CreateLinks(L, chans, S, iso) \in [D \cup NewIds(S) -> LinkRec]
           /\ \A id \in NewIds(S) : CreateLinks(L, chans, S, iso)[id].ready = FALSE
           /\ \A id \in D \ NewIds(S) : CreateLinks(L, chans, S, iso)[id] = L[id]
<1>1. \A id \in NewIds(S) : IndexOf(S, id) \in S
  BY DEF NewIds, IndexOf
<1>2. \A id \in NewIds(S) : /\ NewLink(dir, chans[IndexOf(S, id)], FALSE, iso) \in LinkRec
                           /\ NewLink(dir, chans[IndexOf(S, id)], FALSE, iso).ready = FALSE
  BY <1>1, NewLinkType
<1>. QED
  BY <1>2 DEF CreateLinks

\* load_link: the loader's copies of the loaded ids are well typed and
\* ready, and its other links are kept.
LEMMA LoadFacts ==
    ASSUME DirOK, NEW D, NEW L \in [D -> LinkRec], NEW Do, NEW Lo \in [Do -> LinkRec],
           NEW msgs \in SUBSET Do
    PROVE  /\ Load(L, Lo, msgs) \in [D \cup msgs -> LinkRec]
           /\ \A id \in msgs : Load(L, Lo, msgs)[id].ready
           /\ \A id \in D \ msgs : Load(L, Lo, msgs)[id] = L[id]
<1>1. \A id \in msgs : NewLink(dir, Lo[id].chan, TRUE, Lo[id].isolated) \in LinkRec
  BY NewLinkType DEF LinkRec
<1>2. \A id \in msgs : [NewLink(dir, Lo[id].chan, TRUE, Lo[id].isolated) EXCEPT !.ready = TRUE]
                          \in LinkRec
  BY <1>1 DEF LinkRec
<1>3. Load(L, Lo, msgs) = [id \in D \cup msgs |->
          IF id \in msgs THEN [NewLink(dir, Lo[id].chan, TRUE, Lo[id].isolated)
                                  EXCEPT !.ready = TRUE]
                         ELSE L[id]]
  BY DEF Load
<1>4. \A id \in msgs : [NewLink(dir, Lo[id].chan, TRUE, Lo[id].isolated)
                          EXCEPT !.ready = TRUE].ready
  BY <1>1 DEF LinkRec
<1>. QED
  BY <1>2, <1>3, <1>4

\* load_link's write to the creator: the creator's links are kept, and
\* those loaded become ready.
LEMMA MarkReadyFacts ==
    ASSUME NEW Do, NEW Lo \in [Do -> LinkRec], NEW msgs
    PROVE  /\ MarkReady(Lo, msgs) \in [Do -> LinkRec]
           /\ \A id \in Do : MarkReady(Lo, msgs)[id].ready = (Lo[id].ready \/ id \in msgs)
BY DEF MarkReady, LinkRec

-----------------------------------------------------------------------------
(***************************************************************************)
(* One step of a peer (step): what it does to both dicts and the counter. *)
(***************************************************************************)
LEMMA StepFacts ==
    ASSUME IInv, NEW p \in Peers, NEW msgs \in SUBSET DOMAIN links[Other(p)],
           Step(p, msgs), dir' = dir
    PROVE  /\ DOMAIN links' = Peers
           /\ \A q \in Peers : /\ DOMAIN links'[q] \subseteq LinkIds
                               /\ links'[q] \in [DOMAIN links'[q] -> LinkRec]
           /\ linkIdx' \in LinkIds
           /\ IdsBelowCounter'
           /\ ReadyIffShared'
           /\ DOMAIN links'[p] = DOMAIN links[p] \cup msgs \cup NewIds(Created(p, msgs))
           /\ DOMAIN links'[Other(p)] = DOMAIN links[Other(p)]
           /\ status' \in [Peers -> Statuses]
           /\ \A id \in DOMAIN links[p] \ msgs : links'[p][id] = links[p][id]
           /\ links'[Other(p)] = MarkReady(links[Other(p)], msgs)
           /\ \A id \in NewIds(Created(p, msgs)) :
                 id \notin DOMAIN links[p] /\ id \notin DOMAIN links[Other(p)]
<1> DEFINE q == Other(p)
           Dp == DOMAIN links[p]
           Dq == DOMAIN links[q]
           S == Created(p, msgs)
           N == NewIds(S)
           L1 == Loaded(p, msgs)
           L2 == StepLinks(p, msgs)
           M == MarkReady(links[q], msgs)
<1>1. q \in Peers /\ q # p /\ Other(q) = p
  BY DEF Other, Peers
<1>2. DirOK
  BY DEF IInv, TypeOK, DirOK
<1>3. links[p] \in [Dp -> LinkRec] /\ links[q] \in [Dq -> LinkRec]
  BY <1>1 DEF IInv, TypeOK
<1>4. linkIdx \in Nat \ {0} /\ Dp \subseteq Nat \ {0} /\ Dq \subseteq Nat \ {0}
  BY <1>1 DEF IInv, TypeOK, LinkIds
<1>5. \A id \in Dp \cup Dq : id < linkIdx
  BY <1>1 DEF IInv, IdsBelowCounter
<1>6. /\ \A id \in Dp : links[p][id].ready <=> id \in Dq
      /\ \A id \in Dq : links[q][id].ready <=> id \in Dp
  BY <1>1 DEF IInv, ReadyIffShared
<1>7. /\ L1 \in [Dp \cup msgs -> LinkRec]
      /\ \A id \in msgs : L1[id].ready
      /\ \A id \in Dp \ msgs : L1[id] = links[p][id]
  <2>1. Load(links[p], links[q], msgs) \in [Dp \cup msgs -> LinkRec]
    BY <1>2, <1>3, LoadFacts
  <2>2. \A id \in msgs : Load(links[p], links[q], msgs)[id].ready
    BY <1>2, <1>3, LoadFacts
  <2>3. \A id \in Dp \ msgs : Load(links[p], links[q], msgs)[id] = links[p][id]
    BY DEF Load
  <2>. QED
    BY <2>1, <2>2, <2>3 DEF Loaded
<1>8. S \subseteq 1..4 /\ IsFiniteSet(S) /\ S \subseteq Int
  <2>1. S \subseteq 1..4
    BY CreatedType
  <2>2. IsFiniteSet(1..4)
    <3>1. 1 \in Int /\ 4 \in Int
      OBVIOUS
    <3>. QED
      BY <3>1, FS_Interval
  <2>. QED
    BY <2>1, <2>2, FS_Subset
<1>9. /\ Cardinality(S) \in Nat
      /\ \A id \in N : id \in Nat \ {0} /\ linkIdx <= id /\ id < linkIdx + Cardinality(S)
  BY <1>4, <1>8, NewIdsRange
<1>10. /\ L2 \in [Dp \cup msgs \cup N -> LinkRec]
       /\ \A id \in N : L2[id].ready = FALSE
       /\ \A id \in (Dp \cup msgs) \ N : L2[id] = L1[id]
  <2>1. \A i \in S : ReqChans(p)[i] \in Channels
    BY <1>8, ReqChansType
  <2>2. CreateLinks(L1, ReqChans(p), S, TRUE) \in [(Dp \cup msgs) \cup N -> LinkRec]
    BY <1>2, <1>7, <2>1, CreateLinksFacts
  <2>3. \A id \in N : CreateLinks(L1, ReqChans(p), S, TRUE)[id].ready = FALSE
    BY DEF CreateLinks, NewLink
  <2>4. \A id \in (Dp \cup msgs) \ N : CreateLinks(L1, ReqChans(p), S, TRUE)[id] = L1[id]
    BY <1>7 DEF CreateLinks
  <2>. QED
    BY <2>2, <2>3, <2>4 DEF StepLinks
<1>11. /\ M \in [Dq -> LinkRec]
       /\ \A id \in Dq : M[id].ready = (links[q][id].ready \/ id \in msgs)
  BY <1>3, MarkReadyFacts
<1>12. /\ links' = [r \in Peers |-> IF r = p THEN L2 ELSE MarkReady(links[r], msgs)]
       /\ linkIdx' = linkIdx + Cardinality(S)
       /\ status' = [status EXCEPT ![p] = StepStatus(p, msgs)]
  BY DEF Step
<1>13. DOMAIN links' = Peers /\ links'[p] = L2 /\ links'[q] = M
  BY <1>1, <1>12
<1>14. \A id \in N : id \notin Dp /\ id \notin Dq /\ id \notin msgs
  <2>1. msgs \subseteq Dq
    OBVIOUS
  <2>. QED
    BY <2>1, <1>4, <1>5, <1>9
<1>15. ReadyIffShared'
  <2> SUFFICES ASSUME NEW r \in Peers, NEW id \in DOMAIN links'[r]
               PROVE  links'[r][id].ready <=> id \in DOMAIN links'[Other(r)]
    BY DEF ReadyIffShared
  <2>1. CASE r = p
    <3>1. CASE id \in N
      BY <2>1, <3>1, <1>1, <1>10, <1>11, <1>13, <1>14
    <3>2. CASE id \in msgs
      BY <2>1, <3>2, <1>1, <1>7, <1>10, <1>11, <1>13, <1>14
    <3>3. CASE id \in Dp \ msgs
      BY <2>1, <3>3, <1>1, <1>6, <1>7, <1>10, <1>11, <1>13, <1>14
    <3>. QED
      BY <2>1, <3>1, <3>2, <3>3, <1>10, <1>13
  <2>2. CASE r = q
    <3>1. id \in Dq
      BY <2>2, <1>11, <1>13
    <3>2. links'[r][id].ready = (links[q][id].ready \/ id \in msgs)
      BY <2>2, <3>1, <1>11, <1>13
    <3>3. DOMAIN links'[Other(r)] = Dp \cup msgs \cup N
      BY <2>2, <1>1, <1>10, <1>13
    <3>4. id \notin N
      BY <3>1, <1>14
    <3>. QED
      BY <3>1, <3>2, <3>3, <3>4, <1>6
  <2>. QED
    BY <2>1, <2>2, <1>1 DEF Peers, Other
<1>16. status' \in [Peers -> Statuses]
  <2>1. StepStatus(p, msgs) \in Statuses
    BY DEF StepStatus, Statuses
  <2>2. status \in [Peers -> Statuses]
    BY DEF IInv, TypeOK
  <2>. QED
    BY <2>1, <2>2, <1>12
<1>17. IdsBelowCounter'
  BY <1>1, <1>4, <1>5, <1>9, <1>10, <1>11, <1>12, <1>13 DEF IdsBelowCounter, Peers
<1>18. \A id \in Dp \ msgs : links'[p][id] = links[p][id]
  BY <1>7, <1>10, <1>13, <1>14
<1>. QED
  BY <1>1, <1>4, <1>9, <1>10, <1>11, <1>12, <1>13, <1>14, <1>15, <1>16, <1>17, <1>18
     DEF LinkIds, Peers

(***************************************************************************)
(* start of a peer: the out-of-band links it creates.                      *)
(***************************************************************************)
LEMMA StartFacts ==
    ASSUME IInv, NEW p \in Peers, Start(p), dir' = dir
    PROVE  /\ DOMAIN links' = Peers
           /\ \A q \in Peers : /\ DOMAIN links'[q] \subseteq LinkIds
                               /\ links'[q] \in [DOMAIN links'[q] -> LinkRec]
           /\ linkIdx' \in LinkIds
           /\ IdsBelowCounter'
           /\ ReadyIffShared'
           /\ DOMAIN links'[p] = DOMAIN links[p] \cup NewIds(StartSet(p))
           /\ links'[Other(p)] = links[Other(p)]
           /\ \A id \in DOMAIN links[p] : links'[p][id] = links[p][id]
           /\ \A id \in NewIds(StartSet(p)) :
                 id \notin DOMAIN links[p] /\ id \notin DOMAIN links[Other(p)]
<1> DEFINE q == Other(p)
           Dp == DOMAIN links[p]
           Dq == DOMAIN links[q]
           S == StartSet(p)
           N == NewIds(S)
           L2 == CreateLinks(links[p], StartChans(p), S, FALSE)
<1>1. q \in Peers /\ q # p /\ Other(q) = p
  BY DEF Other, Peers
<1>2. DirOK
  BY DEF IInv, TypeOK, DirOK
<1>3. links[p] \in [Dp -> LinkRec] /\ links[q] \in [Dq -> LinkRec]
  BY <1>1 DEF IInv, TypeOK
<1>4. linkIdx \in Nat \ {0} /\ Dp \subseteq Nat \ {0} /\ Dq \subseteq Nat \ {0}
  BY <1>1 DEF IInv, TypeOK, LinkIds
<1>5. \A id \in Dp \cup Dq : id < linkIdx
  BY <1>1 DEF IInv, IdsBelowCounter
<1>6. /\ \A id \in Dp : links[p][id].ready <=> id \in Dq
      /\ \A id \in Dq : links[q][id].ready <=> id \in Dp
  BY <1>1 DEF IInv, ReadyIffShared
<1>7. S \subseteq 1..2 /\ IsFiniteSet(S) /\ S \subseteq Int
  <2>1. S \subseteq 1..2
    BY StartChansType
  <2>2. IsFiniteSet(1..2)
    <3>1. 1 \in Int /\ 2 \in Int
      OBVIOUS
    <3>. QED
      BY <3>1, FS_Interval
  <2>. QED
    BY <2>1, <2>2, FS_Subset
<1>8. /\ Cardinality(S) \in Nat
      /\ \A id \in N : id \in Nat \ {0} /\ linkIdx <= id /\ id < linkIdx + Cardinality(S)
  BY <1>4, <1>7, NewIdsRange
<1>9. /\ L2 \in [Dp \cup N -> LinkRec]
      /\ \A id \in N : L2[id].ready = FALSE
      /\ \A id \in Dp \ N : L2[id] = links[p][id]
  <2>1. \A i \in S : StartChans(p)[i] \in Channels
    BY <1>7, StartChansType
  <2>2. L2 \in [Dp \cup N -> LinkRec]
    BY <1>2, <1>3, <2>1, CreateLinksFacts
  <2>3. \A id \in N : L2[id].ready = FALSE
    BY DEF CreateLinks, NewLink
  <2>4. \A id \in Dp \ N : L2[id] = links[p][id]
    BY DEF CreateLinks
  <2>. QED
    BY <2>2, <2>3, <2>4
<1>10. /\ links' = [links EXCEPT ![p] = L2]
       /\ linkIdx' = linkIdx + Cardinality(S)
  BY DEF Start
<1>11. DOMAIN links' = Peers /\ links'[p] = L2 /\ links'[q] = links[q]
  <2>1. DOMAIN links = Peers
    BY DEF IInv, TypeOK
  <2>. QED
    BY <1>1, <1>10, <2>1
<1>12. \A id \in N : id \notin Dp /\ id \notin Dq
  BY <1>4, <1>5, <1>8
<1>13. ReadyIffShared'
  <2> SUFFICES ASSUME NEW r \in Peers, NEW id \in DOMAIN links'[r]
               PROVE  links'[r][id].ready <=> id \in DOMAIN links'[Other(r)]
    BY DEF ReadyIffShared
  <2>1. CASE r = p /\ id \in N
    BY <2>1, <1>1, <1>9, <1>11, <1>12
  <2>2. CASE r = p /\ id \in Dp \ N
    BY <2>2, <1>1, <1>6, <1>9, <1>11
  <2>3. CASE r = q
    <3>1. id \in Dq
      BY <2>3, <1>3, <1>11
    <3>2. DOMAIN links'[Other(r)] = Dp \cup N
      BY <2>3, <1>1, <1>9, <1>11
    <3>. QED
      BY <2>3, <3>1, <3>2, <1>6, <1>11, <1>12
  <2>. QED
    BY <2>1, <2>2, <2>3, <1>9, <1>11 DEF Peers, Other
<1>14. DOMAIN links'[p] = Dp \cup N /\ DOMAIN links'[q] = Dq
  BY <1>3, <1>9, <1>11
<1>15. linkIdx' \in Nat \ {0} /\ linkIdx <= linkIdx'
  BY <1>4, <1>8, <1>10
<1>16. IdsBelowCounter'
  <2> SUFFICES ASSUME NEW r \in Peers, NEW id \in DOMAIN links'[r]
               PROVE  id < linkIdx'
    BY DEF IdsBelowCounter
  <2>1. CASE r = p
    <3>1. id \in Dp \cup N
      BY <2>1, <1>14
    <3>2. CASE id \in Dp
      BY <3>2, <1>4, <1>5, <1>15
    <3>3. CASE id \in N
      BY <3>3, <1>8, <1>10
    <3>. QED
      BY <3>1, <3>2, <3>3
  <2>2. CASE r = q
    <3>1. id \in Dq
      BY <2>2, <1>14
    <3>2. id < linkIdx /\ id \in Nat
      BY <3>1, <1>4, <1>5
    <3>. QED
      BY <3>2, <1>4, <1>15
  <2>. QED
    BY <2>1, <2>2, <1>1 DEF Peers, Other
<1>17. \A r \in Peers : /\ DOMAIN links'[r] \subseteq LinkIds
                        /\ links'[r] \in [DOMAIN links'[r] -> LinkRec]
  BY <1>1, <1>3, <1>4, <1>8, <1>9, <1>11, <1>14 DEF LinkIds, Peers, Other
<1>18. \A id \in Dp : links'[p][id] = links[p][id]
  BY <1>9, <1>11, <1>12
<1>. QED
  BY <1>11, <1>12, <1>13, <1>14, <1>15, <1>16, <1>17, <1>18 DEF LinkIds

-----------------------------------------------------------------------------
(***************************************************************************)
(* The inductive invariant.                                                *)
(***************************************************************************)
PCs == {"serverStart", "clientStart", "loop", "clientStep", "done"}

LEMMA InitIInv == Init => IInv
<1> SUFFICES ASSUME Init PROVE IInv
  OBVIOUS
<1>1. \A p \in Peers : links[p] = EmptyLinks /\ DOMAIN links[p] = {}
  BY DEF Init, EmptyLinks
<1>2. EmptyLinks \in [{} -> LinkRec]
  BY DEF EmptyLinks
<1>3. DOMAIN links = Peers
  BY DEF Init
<1>4. status \in [Peers -> Statuses]
  BY DEF Init, Statuses
<1>5. dir \in [Channels -> CLIDirs] /\ clientOOB \in BOOLEAN
  <2>1. PICK sc \in Scenarios : dir = sc[1] /\ clientOOB = sc[2]
    BY DEF Init
  <2>2. sc \in [Channels -> CLIDirs] \X BOOLEAN
    <3>1. GeneratedScenarios \subseteq [Channels -> CLIDirs] \X BOOLEAN
      BY ConstantsAssumption DEF GeneratedScenarios
    <3>. QED
      BY <3>1 DEF Scenarios
  <2>. QED
    BY <2>1, <2>2
<1>6. TypeOK
  BY <1>1, <1>2, <1>3, <1>4, <1>5 DEF Init, TypeOK, LinkIds
<1>. QED
  BY <1>1, <1>6 DEF Init, IInv, MsgsHeld, IdsBelowCounter, ReadyIffShared

LEMMA NextIInv == IInv /\ [Next]_vars => IInv'
<1> SUFFICES ASSUME IInv, [Next]_vars PROVE IInv'
  OBVIOUS
<1>0. /\ DOMAIN links = Peers
      /\ serverMsgs \subseteq DOMAIN links["server"]
      /\ clientMsgs \subseteq DOMAIN links["client"]
      /\ idx \in Nat
      /\ pc \in PCs
      /\ clientOOB \in BOOLEAN
      /\ dir \in [Channels -> CLIDirs]
  BY DEF IInv, TypeOK, MsgsHeld, PCs
<1>1. CASE ServerStart
  <2>1. Start("server") /\ dir' = dir
    BY <1>1 DEF ServerStart
  <2>2. /\ DOMAIN links'["server"] = DOMAIN links["server"] \cup NewIds(StartSet("server"))
        /\ links'["client"] = links["client"]
    BY <2>1, StartFacts DEF Other, Peers
  <2>. QED
    BY <1>0, <1>1, <2>1, <2>2, StartFacts
       DEF ServerStart, IInv, TypeOK, MsgsHeld, Peers
<1>2. CASE ClientStart
  <2>1. Start("client") /\ dir' = dir
    BY <1>2 DEF ClientStart
  <2>2. /\ DOMAIN links'["client"] = DOMAIN links["client"] \cup NewIds(StartSet("client"))
        /\ links'["server"] = links["server"]
    BY <2>1, StartFacts DEF Other, Peers
  <2>. QED
    BY <1>0, <1>2, <2>1, <2>2, StartFacts
       DEF ClientStart, IInv, TypeOK, MsgsHeld, Peers
<1>3. CASE Exit
  BY <1>3 DEF Exit, IInv, TypeOK, MsgsHeld, IdsBelowCounter, ReadyIffShared
<1>4. CASE ServerStep
  <2>1. Step("server", clientMsgs) /\ dir' = dir
    BY <1>4 DEF ServerStep
  <2>2. clientMsgs \in SUBSET DOMAIN links[Other("server")]
    BY <1>0 DEF Other
  <2>3. DOMAIN links'["server"] =
          DOMAIN links["server"] \cup clientMsgs \cup NewIds(Created("server", clientMsgs))
    BY <2>1, <2>2, StepFacts DEF Peers
  <2>. QED
    BY <1>0, <1>4, <2>1, <2>2, <2>3, StepFacts
       DEF ServerStep, IInv, TypeOK, MsgsHeld, Peers
<1>5. CASE ClientStep
  <2>1. Step("client", serverMsgs) /\ dir' = dir
    BY <1>5 DEF ClientStep
  <2>2. serverMsgs \in SUBSET DOMAIN links[Other("client")]
    BY <1>0 DEF Other
  <2>3. DOMAIN links'["client"] =
          DOMAIN links["client"] \cup serverMsgs \cup NewIds(Created("client", serverMsgs))
    BY <2>1, <2>2, StepFacts DEF Peers
  <2>4. pc' \in PCs /\ idx' \in Nat
    BY <1>0, <1>5 DEF ClientStep, PCs
  <2>. QED
    BY <1>0, <1>5, <2>1, <2>2, <2>3, <2>4, StepFacts
       DEF ClientStep, IInv, TypeOK, MsgsHeld, Peers, PCs
<1>6. CASE Terminated \/ UNCHANGED vars
  BY <1>6 DEF Terminated, vars, IInv, TypeOK, MsgsHeld, IdsBelowCounter, ReadyIffShared
<1>. QED
  BY <1>1, <1>2, <1>3, <1>4, <1>5, <1>6 DEF Next

\* The inductive invariant holds in every reachable state of run().
THEOREM IInvHolds == Spec => []IInv
BY InitIInv, NextIInv, PTL DEF Spec

\* Type correctness: every dict holds well-formed links keyed by ids the
\* counter handed out, and every address in flight can be loaded.
THEOREM TypeCorrect == Spec => []TypeOK
<1>1. IInv => TypeOK
  BY DEF IInv
<1>. QED
  BY IInvHolds, <1>1, PTL

\* For every scenario and every ceiling, a peer's copy of a link is ready
\* exactly when the other peer holds it too: load_link's write through
\* other_node keeps the two dicts consistent.
THEOREM ReadyIffSharedHolds == Spec => []ReadyIffShared
<1>1. IInv => ReadyIffShared
  BY DEF IInv
<1>. QED
  BY IInvHolds, <1>1, PTL
=============================================================================
