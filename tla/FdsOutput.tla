------------------------------ MODULE FdsOutput ------------------------------
(* The FDS output (plugins/output/fds): records go to a file that is changed *)
(* from time to time, with the session and templates they belong to, which   *)
(* the plugin knows by the addresses of the session and of the snapshot.     *)
(* Both may have been freed, and another one may have got the address.  The  *)
(* file comes from libfds: a record needs a template in its context.         *)
(* Templates of ID 1 describe flows, those of ID 2 options.                  *)
EXTENDS Naturals, Sequences, FiniteSets, SequencesExt

CONSTANTS
    SesAddress,   \* addresses of sessions
    SnapAddress,  \* addresses of snapshots
    MaxLives,     \* bound: sessions
    MaxDefs       \* bound: definitions of templates

Ids == {1, 2}
NoSnap == 0

VARIABLES
    selecting,    \* outputSelection is used
    fdsOpen,      \* m_file
    params,       \* m_session2params: [sid, snap, ids] of the sessions known
    contexts,     \* the file: its sessions, [who, defs] by sid
    faithful,     \* every record in the file is what it was
    live,         \* the sessions themselves: [who, snap, defs] by address; who 0: none
    lives, defs,  \* number of sessions, and of definitions, so far
    reused        \* an address the file's contexts rely on was freed and used again

fdsOutVars == <<selecting, fdsOpen, params, contexts, faithful, live, lives, defs, reused>>

Unknown == [sid |-> 0, snap |-> NoSnap, ids |-> {}]
Undefined == [id \in Ids |-> 0]
NoSession == [who |-> 0, snap |-> NoSnap, defs |-> Undefined]

Init ==
    /\ selecting \in BOOLEAN
    /\ fdsOpen = TRUE /\ contexts = <<>> /\ faithful = TRUE      \* or init fails
    /\ params = [a \in SesAddress |-> Unknown]
    /\ live = [a \in SesAddress |-> NoSession] /\ lives = 0 /\ defs = 0 /\ reused = FALSE

-----------------------------------------------------------------------------
(* Sessions and snapshots, outside of the plugin.  Old snapshots are freed   *)
(* when the garbage of the parser has passed all outputs.                    *)

SessionOpens(a) ==
    /\ live[a].who = 0 /\ lives < MaxLives /\ lives' = lives + 1
    /\ live' = [live EXCEPT ![a].who = lives + 1]
    /\ reused' = (reused \/ params[a] # Unknown)
    /\ UNCHANGED <<selecting, fdsOpen, params, contexts, faithful, defs>>

SessionCloses(a) ==
    /\ live[a].who # 0 /\ live' = [live EXCEPT ![a] = NoSession]
    /\ UNCHANGED <<selecting, fdsOpen, params, contexts, faithful, lives, defs, reused>>

\* A template is defined or withdrawn: a snapshot at an address nobody uses.
NewSnapshot(a) ==
    /\ live[a].who # 0 /\ defs < MaxDefs /\ defs' = defs + 1
    /\ \E p \in SnapAddress \ {live[b].snap : b \in SesAddress}, id \in Ids, d \in {0, defs + 1} :
         /\ live' = [live EXCEPT ![a].snap = p, ![a].defs[id] = d]
         /\ reused' = (reused \/ params[a].snap = p)
    /\ UNCHANGED <<selecting, fdsOpen, params, contexts, faithful, lives>>

-----------------------------------------------------------------------------
(* Storage.  r is [params, contexts, faithful, ok].                            *)

\* session_get
Session(r, a) ==
    IF r.params[a] # Unknown THEN r
    ELSE [r EXCEPT !.contexts = Append(@, [who |-> live[a].who, defs |-> {}]),
                   !.params[a].sid = Len(r.contexts) + 1]

\* Options templates are left out if fields are selected.
Kept == IF selecting THEN {1} ELSE Ids
InSnapshot(a) == {id \in Kept : live[a].defs[id] # 0}

\* tmplts_update: what differs is defined anew, what is gone is removed.
TemplatesUpdate(r, a) ==
    LET p == r.params[a]
        new == InSnapshot(a)
        kept == {t \in r.contexts[p.sid].defs : t[1] \notin new \cup p.ids}
        now == kept \cup {<<id, live[a].defs[id]>> : id \in new}
    IN  [r EXCEPT !.contexts[p.sid].defs = now, !.params[a].snap = live[a].snap,
                  !.params[a].ids = new]

\* The selected fields are copied; a record without one is left out.
NothingLeft(empty) == selecting /\ empty

\* write_rec needs a template, and has its own ways to fail.
WriteRecord(r, a, id, empty, fails) ==
    LET u == IF r.params[a].snap = live[a].snap THEN r ELSE TemplatesUpdate(r, a)
        c == u.contexts[u.params[a].sid]
    IN  IF NothingLeft(empty) THEN u
        ELSE IF fails \/ (\A t \in c.defs : t[1] # id) THEN [u EXCEPT !.ok = FALSE]
        ELSE [u EXCEPT !.faithful = @ /\ (reused \/ (c.who = live[a].who
                                                   /\ <<id, live[a].defs[id]>> \in c.defs))]

Storage == [params |-> params, contexts |-> contexts, faithful |-> faithful, ok |-> TRUE]
NewWindow == [Storage EXCEPT !.params = [a \in SesAddress |-> Unknown], !.contexts = <<>>]

\* What is left of it: after a failure the window is closed.
Keep(r) ==
    /\ fdsOpen' = r.ok
    /\ params' = IF r.ok THEN r.params ELSE NewWindow.params
    /\ contexts' = IF r.ok THEN r.contexts ELSE <<>>
    /\ faithful' = r.faithful
    /\ reused' = (reused /\ r.ok /\ \E a \in SesAddress : r.params[a] # Unknown)

\* window_check comes first; its window may be new, and fail to be made.
\* A message of more records is as good as one of each of them.
IpfixMessage(a, new) ==
    /\ live[a].snap # NoSnap
    /\ \E id \in Ids, empty, fails \in BOOLEAN :
         /\ live[a].defs[id] # 0
         /\ IF fdsOpen \/ new
            THEN Keep(WriteRecord(Session(IF new THEN NewWindow ELSE Storage, a), a, id, empty, fails))
            ELSE UNCHANGED <<fdsOpen, params, contexts, faithful, reused>>
    /\ UNCHANGED <<selecting, live, lives, defs>>

WindowOnly(ok) ==     \* a periodic message, or a failure of window_new
    /\ Keep([NewWindow EXCEPT !.ok = ok])
    /\ UNCHANGED <<selecting, live, lives, defs>>

Next ==
    \/ \E a \in SesAddress : SessionOpens(a) \/ SessionCloses(a) \/ NewSnapshot(a)
    \/ \E a \in SesAddress, new \in BOOLEAN : IpfixMessage(a, new)
    \/ \E ok \in BOOLEAN : WindowOnly(ok)

-----------------------------------------------------------------------------
(* A record in the file has the session it came from and the template it was *)
(* made by, whatever of both was defined, withdrawn or changed in between,   *)
(* and wherever writing failed; provided that no session or snapshot the     *)
(* present file still refers to was freed and its address used again.        *)
RecordsKeepContext == faithful

(* Without that condition: what the plugin knows by an address is still that.*)
AddressesAreIdentities == ~reused

(* What the plugin remembers of a context is what the file has in it.        *)
ContextsInStep ==
    \A a \in SesAddress : params[a] # Unknown =>
        /\ fdsOpen /\ params[a].sid \in DOMAIN contexts
        /\ {t[1] : t \in contexts[params[a].sid].defs} = params[a].ids
=============================================================================
