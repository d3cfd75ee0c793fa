------------------------------- MODULE Links -------------------------------
(***************************************************************************)
(* Channels, links and the "satisfies" order of states.py.                 *)
(*                                                                         *)
(* A channel is one of the four channels a scenario builds (run_params):  *)
(* the initial and the final channel in each direction.  Its name is the  *)
(* channel's role; its directionality is a scenario parameter, so the     *)
(* operators below take the directionality map dir as an argument.       *)
(*                                                                         *)
(* A link is the record of a Link object: its channel, the send/recv      *)
(* capabilities derived once at construction, the isolation flag and the *)
(* ready flag.  The link id is the key of the map that holds the record.  *)
(***************************************************************************)

\* The three directionalities a channel may have (generate_scenarios).
Dirs == {"BIDI", "C2L", "L2C"}

\* The four channels of a scenario (run_params).  "c2s" channels carry
\* client-to-server traffic, "s2c" channels server-to-client traffic.
Channels == {"init_c2s", "init_s2c", "final_c2s", "final_s2c"}

\* A link as a Link object holds it; requirements have the same shape and
\* use only chan, send, recv and isolated.
LinkRec == [chan : Channels, send : BOOLEAN, recv : BOOLEAN,
            isolated : BOOLEAN, ready : BOOLEAN]

\* is_send: may the side that holds a link on a channel of directionality
\* d send on it, given whether it loaded the address (TRUE) or created it.
\* C2L is creator-to-loader, L2C loader-to-creator.  For any other string
\* is_send falls off its end and returns None, which every caller (can_send,
\* __gt__) treats as false.
IsSend(d, loaded) ==
    CASE d = "BIDI" -> TRUE
      [] d = "L2C"  -> loaded
      [] d = "C2L"  -> ~loaded
      [] OTHER      -> FALSE

\* is_recv is is_send with the roles swapped.
IsRecv(d, loaded) == IsSend(d, ~loaded)

\* The Link constructor as create_link and load_link call it: the
\* capabilities are derived from the channel's directionality once, and
\* a new link is never ready.
NewLink(dir, c, loaded, iso) ==
    [chan |-> c, send |-> IsSend(dir[c], loaded), recv |-> IsRecv(dir[c], loaded),
     isolated |-> iso, ready |-> FALSE]

\* Link.__gt__: the held link l satisfies the requirement r.
Satisfies(l, r) ==
    /\ l.ready
    /\ l.chan = r.chan
    /\ r.isolated => l.isolated
    /\ r.send => l.send
    /\ r.recv => l.recv

\* A requirement record (make_requirements builds them with ready=True,
\* which Satisfies never reads).
Req(c, s, r, iso) ==
    [chan |-> c, send |-> s, recv |-> r, isolated |-> iso, ready |-> TRUE]
=============================================================================
