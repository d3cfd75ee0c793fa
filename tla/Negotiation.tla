---------------------------- MODULE Negotiation ----------------------------
(***************************************************************************)
(* The two peers of states.py (NodeState and its Client and Server         *)
(* variants) and the driver loop run() that alternates their steps, for    *)
(* one scenario whose parameters Init chooses as run_params receives them. *)
(*                                                                         *)
(* links[p] is peer p's dict of links, keyed by link id.  A link id is the *)
(* value of the global counter link_idx when create_link made it (the      *)
(* string "<channel>-link-<n>" is injective in n).  An address in flight   *)
(* is the creator's Link object itself, so the messages are sets of link   *)
(* ids and the loader reads channel and isolation from the creator's copy. *)
(* server_msgs and client_msgs are Python lists; loading is keyed by id    *)
(* and ids are unique, so only their sets of elements matter.              *)
(***************************************************************************)
EXTENDS Integers, FiniteSets, Links

CONSTANTS
    MaxIterations,  \* the ceiling of run()'s loop: it stops once idx > 5
    GeneratorMode,  \* TRUE: parameters pass prune_invalid_params (no argv);
                    \* FALSE: any parameters, as the one-argument CLI takes
    CLIDirs         \* the directionality strings a command line may carry

ASSUME ConstantsAssumption ==
    /\ MaxIterations \in Nat
    /\ GeneratorMode \in BOOLEAN
    /\ Dirs \subseteq CLIDirs

VARIABLES
    dir,         \* the directionality of each channel (the scenario)
    clientOOB,   \* params['client_oob']
    links,       \* links[p]: peer p's dict from link id to link record
    linkIdx,     \* the global counter link_idx
    serverMsgs,  \* server_msgs: ids the server has sent, not yet loaded
    clientMsgs,  \* client_msgs: ids the client has sent, not yet loaded
    idx,         \* run()'s iteration counter
    status,      \* the status the last step of each peer returned
    pc           \* where run() is

vars == <<dir, clientOOB, links, linkIdx, serverMsgs, clientMsgs, idx, status, pc>>

Peers == {"server", "client"}

Other(p) == IF p = "server" THEN "client" ELSE "server"

Statuses == {"NONE", "STUCK", "CREATED NEW LINKS", "FINISHED"}

(***************************************************************************)
(* The requirement lists of make_requirements (isolated=True), one per     *)
(* channel: the initial links need not be isolated, the final ones must.   *)
(***************************************************************************)
Reqs(p) ==
    IF p = "server"
    THEN << Req("init_s2c", TRUE, FALSE, FALSE), Req("init_c2s", FALSE, TRUE, FALSE),
            Req("final_s2c", TRUE, FALSE, TRUE), Req("final_c2s", FALSE, TRUE, TRUE) >>
    ELSE << Req("init_c2s", TRUE, FALSE, FALSE), Req("init_s2c", FALSE, TRUE, FALSE),
            Req("final_c2s", TRUE, FALSE, TRUE), Req("final_s2c", FALSE, TRUE, TRUE) >>

ReqChans(p) == [i \in DOMAIN Reqs(p) |-> Reqs(p)[i].chan]

\* prune_invalid_params: a client that creates its initial c2s link
\* (C2L) and may not share it out of band is filtered out.
Valid(d, oob) == ~(d["init_c2s"] = "C2L" /\ ~oob)

\* A requirement is met in the dict L (the any(...) of step and satisfies).
Met(L, r) == \E id \in DOMAIN L : Satisfies(L[id], r)

\* is_final_state of peer p when its dict is L.
FinalIn(L, p) == \A i \in DOMAIN Reqs(p) : Met(L, Reqs(p)[i])

IsFinalState(p) == FinalIn(links[p], p)

\* can_send: some ready link may be used to send.
CanSendIn(L) == \E id \in DOMAIN L : L[id].ready /\ L[id].send

\* Mutant: step's test falls through to "bidirectional" for any
\* directionality that is neither L2C nor C2L.
ResponsibleElseBidi(r) ==
    \/ dir[r.chan] \notin {"L2C", "C2L"}
    \/ dir[r.chan] = "L2C" /\ r.recv
    \/ dir[r.chan] = "C2L" /\ r.send

\* Mutant: the L2C creator is taken to be the sender.
ResponsibleL2CSend(r) ==
    \/ dir[r.chan] = "BIDI"
    \/ dir[r.chan] = "L2C" /\ r.send
    \/ dir[r.chan] = "C2L" /\ r.send

\* The side responsible for creating a link that meets r (step).
Responsible(r) ==
    \/ dir[r.chan] = "BIDI"
    \/ dir[r.chan] = "L2C" /\ r.recv
    \/ dir[r.chan] = "C2L" /\ r.send

(***************************************************************************)
(* create_link, for the links a call creates in order of the indices S of *)
(* a channel list: the i-th gets the counter's value plus the number of    *)
(* links created before it.                                                *)
(***************************************************************************)
Rank(S, i) == Cardinality({j \in S : j < i})

NewIds(S) == {linkIdx + Rank(S, i) : i \in S}

IndexOf(S, id) == CHOOSE i \in S : linkIdx + Rank(S, i) = id

CreateLinks(L, chans, S, iso) ==
    [id \in DOMAIN L \cup NewIds(S) |->
        IF id \in NewIds(S) THEN NewLink(dir, chans[IndexOf(S, id)], FALSE, iso)
                            ELSE L[id]]

\* Mutant: the loader derives its capabilities as if it had created it.
LoadAsCreator(L, Lo, msgs) ==
    [id \in DOMAIN L \cup msgs |->
        IF id \in msgs THEN [NewLink(dir, Lo[id].chan, FALSE, Lo[id].isolated)
                                EXCEPT !.ready = TRUE]
                       ELSE L[id]]

\* load_link for every id in msgs: the loader's new ready copy, built from
\* the creator's Link object Lo[id] ...
Load(L, Lo, msgs) ==
    [id \in DOMAIN L \cup msgs |->
        IF id \in msgs THEN [NewLink(dir, Lo[id].chan, TRUE, Lo[id].isolated)
                                EXCEPT !.ready = TRUE]
                       ELSE L[id]]

\* Mutant: the write to the creator's copy is dropped.
MarkReadyNoOther(Lo, msgs) == Lo

\* Mutant: the creator's copy is replaced by the loader's new Link.
MarkReadyAliased(Lo, msgs) ==
    [id \in DOMAIN Lo |-> IF id \in msgs THEN [NewLink(dir, Lo[id].chan, TRUE, Lo[id].isolated)
                                                EXCEPT !.ready = TRUE]
                                         ELSE Lo[id]]

\* ... and its write to the creator's copy (self.other_node.links[...]).
MarkReady(Lo, msgs) ==
    [id \in DOMAIN Lo |-> IF id \in msgs THEN [Lo[id] EXCEPT !.ready = TRUE]
                                         ELSE Lo[id]]

(***************************************************************************)
(* Peer p's step(msgs).  After loading, if p can send, it creates one     *)
(* isolated link for every requirement it is responsible for and no held  *)
(* link meets.  A link created in the loop is not ready, so it meets no    *)
(* later requirement: the set below is what the loop's any(...) computes. *)
(***************************************************************************)
Loaded(p, msgs) == Load(links[p], links[Other(p)], msgs)

\* Mutant: the missing requirements are computed before loading.
CreatedBeforeLoad(p, msgs) ==
    IF CanSendIn(links[p])
    THEN {i \in DOMAIN Reqs(p) : ~Met(links[p], Reqs(p)[i]) /\ Responsible(Reqs(p)[i])}
    ELSE {}

Created(p, msgs) ==
    IF CanSendIn(Loaded(p, msgs))
    THEN {i \in DOMAIN Reqs(p) : ~Met(Loaded(p, msgs), Reqs(p)[i]) /\ Responsible(Reqs(p)[i])}
    ELSE {}

StepLinks(p, msgs) == CreateLinks(Loaded(p, msgs), ReqChans(p), Created(p, msgs), TRUE)

\* Mutant: finished_or returns (messages, status), so run() takes the
\* address list for the status.
StepStatusSwapped(p, msgs) == NewIds(Created(p, msgs))

\* finished_or and step's two returns.
StepStatus(p, msgs) ==
    IF FinalIn(StepLinks(p, msgs), p) THEN "FINISHED"
    ELSE IF Created(p, msgs) # {} THEN "CREATED NEW LINKS"
    ELSE "STUCK"

\* Mutant: create_link forgets link_idx += 1.
StepNoAdvance(p, msgs) ==
    /\ links' = [q \in Peers |-> IF q = p THEN StepLinks(p, msgs)
                                          ELSE MarkReady(links[q], msgs)]
    /\ linkIdx' = linkIdx
    /\ status' = [status EXCEPT ![p] = StepStatus(p, msgs)]

Step(p, msgs) ==
    /\ links' = [q \in Peers |-> IF q = p THEN StepLinks(p, msgs)
                                          ELSE MarkReady(links[q], msgs)]
    /\ linkIdx' = linkIdx + Cardinality(Created(p, msgs))
    /\ status' = [status EXCEPT ![p] = StepStatus(p, msgs)]

(***************************************************************************)
(* start of Server and Client: out-of-band addresses, not isolated.       *)
(***************************************************************************)
\* The initial channels of the Args make_args builds: the server sends on
\* s2c and receives on c2s, the client the other way round.  (The final
\* channels, and the client's final_recv = final_c2s slip, are never read.)
MakeArgs(p) ==
    IF p = "server" THEN [init_send |-> "init_s2c", init_recv |-> "init_c2s"]
                    ELSE [init_send |-> "init_c2s", init_recv |-> "init_s2c"]

\* The tests of start in program order: the argument it looks at and the
\* directionalities for which it creates a link on it.
StartTests(p) ==
    IF p = "server" THEN << <<"init_recv", {"L2C", "BIDI"}>>, <<"init_send", {"C2L"}>> >>
                    ELSE << <<"init_send", {"C2L"}>>, <<"init_recv", {"L2C"}>> >>

StartChans(p) == [i \in 1..2 |-> MakeArgs(p)[StartTests(p)[i][1]]]

StartSet(p) == {i \in 1..2 : dir[StartChans(p)[i]] \in StartTests(p)[i][2]}

Start(p) ==
    /\ links' = [links EXCEPT ![p] = CreateLinks(links[p], StartChans(p), StartSet(p), FALSE)]
    /\ linkIdx' = linkIdx + Cardinality(StartSet(p))

(***************************************************************************)
(* run() and the scenario it is given.                                     *)
(***************************************************************************)
EmptyLinks == [id \in {} |-> Req("init_c2s", FALSE, FALSE, FALSE)]

\* generate_scenarios: the product of the value lists, pruned.
GeneratedScenarios == {s \in [Channels -> Dirs] \X BOOLEAN : Valid(s[1], s[2])}

\* __main__: without an argument the generated scenarios run; with one,
\* run_params(json.loads(argv[1])) runs whatever it names, directionality
\* strings unchecked.
Scenarios ==
    IF GeneratorMode THEN GeneratedScenarios ELSE [Channels -> CLIDirs] \X BOOLEAN

Init ==
    /\ \E sc \in Scenarios : dir = sc[1] /\ clientOOB = sc[2]
    /\ links = [p \in Peers |-> EmptyLinks]
    /\ linkIdx = 1
    /\ serverMsgs = {}
    /\ clientMsgs = {}
    /\ idx = 0
    /\ status = [p \in Peers |-> "NONE"]
    /\ pc = "serverStart"

\* server_msgs = server.start(server_args)
ServerStart ==
    /\ pc = "serverStart"
    /\ Start("server")
    /\ serverMsgs' = NewIds(StartSet("server"))
    /\ pc' = "clientStart"
    /\ UNCHANGED <<dir, clientOOB, clientMsgs, idx, status>>

\* client_msgs = client.start(client_args), dropped unless client_oob.
ClientStart ==
    /\ pc = "clientStart"
    /\ Start("client")
    /\ clientMsgs' = IF clientOOB THEN NewIds(StartSet("client")) ELSE {}
    /\ pc' = "loop"
    /\ UNCHANGED <<dir, clientOOB, serverMsgs, idx, status>>

\* The loop test fails: both peers are final.
Exit ==
    /\ pc = "loop"
    /\ IsFinalState("client") /\ IsFinalState("server")
    /\ pc' = "done"
    /\ UNCHANGED <<dir, clientOOB, links, linkIdx, serverMsgs, clientMsgs, idx, status>>

\* The loop test holds; server.step(client_msgs), its output appended to
\* server_msgs.
ServerStep ==
    /\ pc = "loop"
    /\ ~(IsFinalState("client") /\ IsFinalState("server"))
    /\ Step("server", clientMsgs)
    /\ serverMsgs' = serverMsgs \cup NewIds(Created("server", clientMsgs))
    /\ clientMsgs' = {}
    /\ pc' = "clientStep"
    /\ UNCHANGED <<dir, clientOOB, idx>>

\* Mutant: a ceiling below the rounds a negotiation may need.
CeilingReachedEarly(i) == i > 1

\* run()'s ceiling test: idx > 5.
CeilingReached(i) == i > MaxIterations

\* Mutant: server_msgs is cleared before client.step is called, not after.
ClientStepClearsFirst ==
    /\ pc = "clientStep"
    /\ Step("client", {})
    /\ clientMsgs' = clientMsgs \cup NewIds(Created("client", {}))
    /\ serverMsgs' = {}
    /\ idx' = idx + 1
    /\ pc' = IF CeilingReached(idx + 1) THEN "done" ELSE "loop"
    /\ UNCHANGED <<dir, clientOOB>>

\* client.step(server_msgs), then the iteration count and its ceiling.
ClientStep ==
    /\ pc = "clientStep"
    /\ Step("client", serverMsgs)
    /\ clientMsgs' = clientMsgs \cup NewIds(Created("client", serverMsgs))
    /\ serverMsgs' = {}
    /\ idx' = idx + 1
    /\ pc' = IF CeilingReached(idx + 1) THEN "done" ELSE "loop"
    /\ UNCHANGED <<dir, clientOOB>>

\* run() has returned; the process stays put.
Terminated ==
    /\ pc = "done"
    /\ UNCHANGED vars

Next == ServerStart \/ ClientStart \/ Exit \/ ServerStep \/ ClientStep \/ Terminated

Spec == Init /\ [][Next]_vars

\* run() is one sequential loop with no waiting: each enabled step is taken.
FairSpec == Spec /\ WF_vars(Next)

\* run()'s verdict.
Passed == IsFinalState("server") /\ IsFinalState("client")

-----------------------------------------------------------------------------
LinkIds == Nat \ {0}

TypeOK ==
    /\ dir \in [Channels -> CLIDirs]
    /\ clientOOB \in BOOLEAN
    /\ DOMAIN links = Peers
    /\ \A p \in Peers : DOMAIN links[p] \subseteq LinkIds
                      /\ links[p] \in [DOMAIN links[p] -> LinkRec]
    /\ linkIdx \in LinkIds
    /\ serverMsgs \subseteq LinkIds
    /\ clientMsgs \subseteq LinkIds
    /\ idx \in Nat
    /\ status \in [Peers -> Statuses]
    /\ pc \in {"serverStart", "clientStart", "loop", "clientStep", "done"}

-----------------------------------------------------------------------------
(***************************************************************************)
(* Properties.                                                             *)
(***************************************************************************)

\* The channels a peer is meant to send on: the server on s2c, the client
\* on c2s.
SendChans(p) ==
    IF p = "server" THEN {"init_s2c", "final_s2c"} ELSE {"init_c2s", "final_c2s"}

\* Ready means loaded by both: a peer's copy of a link is ready exactly when
\* the other peer holds the link too.  load_link makes the loader's copy
\* ready and, through other_node, the creator's copy; nothing else may.
ReadyIffShared ==
    \A p \in Peers : \A id \in DOMAIN links[p] :
        links[p][id].ready <=> id \in DOMAIN links[Other(p)]

\* The two peers' copies of one link (create_link's and load_link's) agree
\* on channel and isolation and have swapped capabilities: what one may
\* send, the other may receive.
CopiesComplementary ==
    \A id \in DOMAIN links["server"] \cap DOMAIN links["client"] :
        LET s == links["server"][id]
            c == links["client"][id]
        IN  /\ s.chan = c.chan
            /\ s.isolated = c.isolated
            /\ s.send = c.recv
            /\ s.recv = c.send

\* No peer may send against a unidirectional channel's direction: the
\* capability derivation of is_send, the responsibility rule of step and
\* start's choice of which side creates agree on who sends.
NoWrongWaySend ==
    \A p \in Peers : \A id \in DOMAIN links[p] :
        LET l == links[p][id]
        IN  l.send /\ dir[l.chan] # "BIDI" => l.chan \in SendChans(p)

\* The protocol never creates a redundant isolated link: across both peers
\* at most one isolated link exists per channel, although both peers may
\* be responsible for a BIDI channel.
AllIds == DOMAIN links["server"] \cup DOMAIN links["client"]

Holder(id) == IF id \in DOMAIN links["server"] THEN "server" ELSE "client"

NoRedundantIsolatedLink ==
    \A c \in Channels :
        Cardinality({id \in AllIds : /\ links[Holder(id)][id].chan = c
                                     /\ links[Holder(id)][id].isolated}) <= 1

\* The iteration ceiling never cuts off a run that could still progress:
\* when run() gives up, both peers were STUCK in the last round and no
\* address is in flight, so every further round would repeat it.
FailureIsQuiescent ==
    pc = "done" /\ ~Passed =>
        /\ status = [p \in Peers |-> "STUCK"]
        /\ serverMsgs = {}
        /\ clientMsgs = {}

\* No peer ever holds a dead link, one it can neither send nor receive on.
\* is_send returns None for a directionality run_params does not know (a
\* typo on the command line, never rejected); such a channel must never get
\* a link, from start or from step's responsibility test, and every known
\* directionality must give each side a capability.
NoDeadLink ==
    \A p \in Peers : \A id \in DOMAIN links[p] : links[p][id].send \/ links[p][id].recv

\* Every link a peer holds eventually becomes ready, that is, its address
\* eventually reaches the other peer's load_link, except the client's start
\* links that run() drops without client_oob: run() never ends its loop (by
\* the loop test, or by the ceiling right after client_msgs.extend) with an
\* address still in server_msgs or client_msgs, and never clears a list
\* before the other peer's step has read it.
EveryLinkLoaded ==
    <>[](\A p \in Peers : \A id \in DOMAIN links[p] :
            \/ links[p][id].ready
            \/ p = "client" /\ ~clientOOB /\ ~links[p][id].isolated)

\* A step never drops a link, never changes a link's channel, isolation
\* or capabilities, and never makes a ready link unready.
LinksStable ==
    [][\A p \in Peers : \A id \in DOMAIN links[p] :
          /\ id \in DOMAIN links'[p]
          /\ links'[p][id].chan = links[p][id].chan
          /\ links'[p][id].isolated = links[p][id].isolated
          /\ links'[p][id].send = links[p][id].send
          /\ links'[p][id].recv = links[p][id].recv
          /\ links[p][id].ready => links'[p][id].ready]_vars

(***************************************************************************)
(* The abstract negotiation of NegotiationAbstract, under the mapping: a  *)
(* peer has met its need on channel c when some link it holds satisfies   *)
(* its requirement on c, and the run has returned when run() is past its  *)
(* loop.                                                                   *)
(***************************************************************************)
MetIn(L, p) == {c \in Channels : \E i \in DOMAIN Reqs(p) : Reqs(p)[i].chan = c /\ Met(L, Reqs(p)[i])}

MetChans == [p \in Peers |-> MetIn(links[p], p)]

Abstract == INSTANCE NegotiationAbstract
                WITH Parties <- Peers, Needs <- Channels,
                     met <- MetChans, returned <- (pc = "done")

\* run() implements the abstract negotiation: every step (a load, the
\* write through other_node, a create_link) meets a channel's requirement
\* for both peers at once or for neither, never unmeets one, and run()
\* returns once.
Refinement == Abstract!ASpec

\* spec.md, section 8: a scenario whose final channels are both C2L and whose
\* client shares nothing out of band, so that neither side can originate the
\* final isolated link, ends FAILED.
FinalC2LWithoutOOBFails ==
    pc = "done" /\ dir["final_c2s"] = "C2L" /\ dir["final_s2c"] = "C2L" /\ ~clientOOB
        => ~Passed

\* spec.md, section 7: a malformed directionality string is detected before
\* a run starts and rejected, rather than entering the driver loop.
MalformedRejectedBeforeLoop ==
    (\E c \in Channels : dir[c] \notin Dirs) => pc \in {"serverStart", "clientStart"}

\* prune_invalid_params' comment: a client whose initial c2s channel is C2L
\* and that may not share its address out of band cannot initiate the
\* connection, so such a scenario is impossible and is filtered out.
PrunedScenarioFails ==
    pc = "done" /\ ~Valid(dir, clientOOB) => ~Passed
=============================================================================
