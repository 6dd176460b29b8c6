----------------------------- MODULE MCPlayerPage -----------------------------
(* One browser. *)
EXTENDS PlayerPageProps, TLC

OldestFirst == [e \in Entries |-> e]

Alike == Permutations(Tabs) \cup Permutations(Nonces)

\* The tabs have been opened: the engine has loaded and the socket is open.
OpenedInit ==
    /\ DeskInit
    /\ tabs = [t \in Tabs |-> [Opened(FirstPlayer, NoNonce) EXCEPT !.phase = "ready"]]
    /\ stored = [session |-> FirstPlayer, nonce |-> NoNonce]
    /\ drawn = {FirstPlayer}
    /\ socket = [t \in Tabs |-> "open"]
    /\ inbox = [t \in Tabs |-> <<>>]
    /\ admits = {}
    /\ reads = [t \in Tabs |-> Mail("none")]
    /\ leaves = [t \in Tabs |-> Mail("none")]
OpenedSpec == OpenedInit /\ [][PageNext]_allVars

\* A quick server: while a read is under way or a connected tab is not what the next
\* state would make of it, nothing else happens at the server, to the payments or to
\* the clock.  What a tab does not know then it missed while its socket was down.
Hears(t) == ApplyState(tabs[t], StateOf(tabs[t].session)) = tabs[t]
Behind(t) == reads[t].kind # "none" \/ (Connected(t) /\ ~Hears(t))
Prompt == (\E t \in Tabs : Behind(t)) => UNCHANGED <<vars, deskVars>>
PromptSpec == OpenedInit /\ [][PageNext /\ Prompt]_allVars
=============================================================================
