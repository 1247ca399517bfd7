------------------------------- MODULE Permits -------------------------------
(* The work permits of parallel development sessions (tools/work_permits.py)  *)
(* and the hook that enforces them (scripts/hooks/permit_guard.py): one file  *)
(* per permit, taken under a lock file made with an exclusive create, alive   *)
(* as long as the process of its session, closed by its session or at its     *)
(* end.  Scopes are globs over paths; overlap is decided on the globs alone.  *)
EXTENDS Naturals, Sequences, FiniteSets, SequencesExt

CONSTANTS Sessions, Paths, Scopes,
          MaxPermits,  \* bound: permits written
          MaxKills,    \* bound: sessions killed
          Return       \* bound: whether sessions start after one was killed

(* A path is a sequence of names; a glob is a sequence of segments, each with *)
(* the names it stands for: a "literal", a "wild"card, or ** ("deep", at most *)
(* one).                                                                     *)

VARIABLES
  permit,    \* the permits of the store that nobody closed
  issued,    \* the number of the last one
  proc,      \* per session: its process, counted over restarts; 0 before the first, none when dead
  alive,
  lock,      \* .acquire.lock: absent, or the session that made it and whether it is 30 s old
  cmd,       \* per session: permit.py acquire, where it is
  unharvested,  \* sessions with a marker of permits closed without a harvest
  kills

store == <<permit, issued>>
vars == <<store, proc, alive, lock, cmd, unharvested, kills>>

NoLock == [by |-> {}, old |-> FALSE]
NoCmd == [pc |-> "off", type |-> "advisory", scope |-> <<>>, force |-> FALSE]

TypeOK ==
  /\ issued <= MaxPermits /\ \A p \in permit : p.no \in 1 .. issued
  /\ alive \subseteq Sessions
  /\ \A s \in Sessions : cmd[s].pc \in {"off", "wait", "unlink", "check", "write"}
  /\ lock.by \subseteq Sessions /\ unharvested \subseteq Sessions

Init ==
  /\ permit = {} /\ issued = 0 /\ alive = Sessions /\ proc = [s \in Sessions |-> 0]
  /\ lock = NoLock /\ cmd = [s \in Sessions |-> NoCmd] /\ unharvested = {} /\ kills = 0

----------------------------------------------------------------------------
(* Globs.                                                                    *)

Literal(g) == \A i \in DOMAIN g : g[i].kind = "literal"

\* The segments i .. of a path and of a glob without ** match one by one.
Fits(p, g) == Len(p) = Len(g) /\ \A i \in DOMAIN g : p[i] \in g[i].names

(* ** stands for any number of directories, and at the end for something.     *)
Match(p, g) ==
  LET deep == {i \in DOMAIN g : g[i].kind = "deep"}
  IN IF deep = {} THEN Fits(p, g)
     ELSE LET k == CHOOSE i \in deep : TRUE
              rest == Len(g) - k
          IN /\ Len(p) >= k - 1 + rest + (IF rest = 0 THEN 1 ELSE 0)
             /\ Fits(SubSeq(p, 1, k - 1), SubSeq(g, 1, k - 1))
             /\ Fits(SubSeq(p, Len(p) - rest + 1, Len(p)), SubSeq(g, k + 1, Len(g)))

Name(seg) == CHOOSE n \in seg.names : TRUE
Named(g) == [i \in DOMAIN g |-> Name(g[i])]

(* The directories before the first wildcard; of a literal, its directory.    *)
ScopePrefix(g) ==
  LET wild == {i \in DOMAIN g : g[i].kind # "literal"}
      k == IF wild = {} THEN Len(g) ELSE CHOOSE i \in wild : \A j \in wild : i <= j
  IN Named(SubSeq(g, 1, k - 1))

Comparable(p, q) == IsPrefix(p, q) \/ IsPrefix(q, p)

ScopesOverlapSame(g, h) ==  \* mutant: wildcards overlap when they start in the same directory
  CASE Literal(g) /\ Literal(h) -> Comparable(Named(g), Named(h))
    [] Literal(g) /\ ~Literal(h) -> Match(Named(g), h)
    [] ~Literal(g) /\ Literal(h) -> Match(Named(h), g)
    [] OTHER -> ScopePrefix(g) = ScopePrefix(h)

ScopesOverlap(g, h) ==
  CASE Literal(g) /\ Literal(h) -> Comparable(Named(g), Named(h))
    [] Literal(g) /\ ~Literal(h) -> Match(Named(g), h)
    [] ~Literal(g) /\ Literal(h) -> Match(Named(h), g)
    [] OTHER -> Comparable(ScopePrefix(g), ScopePrefix(h))

----------------------------------------------------------------------------
(* The store.                                                                *)

(* A permit lives as long as its holder's process.                           *)
Alive(p) == p.session \in alive /\ p.pid = proc[p.session]
Active == {p \in permit : Alive(p)}
Mine(s) == {p \in Active : p.session = s}

Conflicts(s, scope) ==
  {p \in Active : p.session # s /\ p.type = "exclusive" /\ ScopesOverlap(p.scope, scope)}

To(s, pc) == cmd' = [cmd EXCEPT ![s].pc = pc]

Acquire(s) ==
  /\ s \in alive /\ cmd[s].pc = "off"
  /\ Cardinality({u \in Sessions : cmd[u].pc # "off"}) < MaxPermits - issued
  /\ To(s, "wait")
  /\ UNCHANGED <<store, proc, alive, lock, unharvested, kills>>

Create(s) ==
  /\ cmd[s].pc = "wait" /\ lock.by = {}
  /\ lock' = [by |-> {s}, old |-> FALSE]
  /\ \E type \in {"exclusive", "advisory"}, scope \in Scopes, force \in BOOLEAN :
       cmd' = [cmd EXCEPT ![s] = [pc |-> "check", type |-> type, scope |-> scope, force |-> force]]
  /\ UNCHANGED <<store, proc, alive, unharvested, kills>>

(* A lock 30 s old is unlinked, whatever lock is there by then.               *)
SeeOld(s) ==
  /\ cmd[s].pc = "wait" /\ lock.by # {} /\ lock.old /\ To(s, "unlink")
  /\ UNCHANGED <<store, proc, alive, lock, unharvested, kills>>

Unlink(s) ==
  /\ cmd[s].pc = "unlink" /\ lock' = NoLock /\ To(s, "wait")
  /\ UNCHANGED <<store, proc, alive, unharvested, kills>>

\* Mutant: a session that gives up unlinks the lock it waited for.
BusyUnlinks(s) ==
  /\ cmd[s].pc = "wait" /\ lock.by # {}
  /\ cmd' = [cmd EXCEPT ![s] = NoCmd] /\ lock' = NoLock
  /\ UNCHANGED <<store, proc, alive, unharvested, kills>>

Busy(s) ==
  /\ cmd[s].pc = "wait" /\ lock.by # {}
  /\ cmd' = [cmd EXCEPT ![s] = NoCmd]
  /\ UNCHANGED <<store, proc, alive, lock, unharvested, kills>>

Check(s) ==
  /\ cmd[s].pc = "check"
  /\ IF Conflicts(s, cmd[s].scope) # {} /\ ~cmd[s].force
     THEN cmd' = [cmd EXCEPT ![s] = NoCmd] /\ lock' = NoLock
     ELSE To(s, "write") /\ UNCHANGED lock
  /\ UNCHANGED <<store, proc, alive, unharvested, kills>>

(* The file is written and the lock is unlinked, whoever made it.  The number *)
(* of the permit was taken before; two that write at once take the same.      *)
Write(s) ==
  /\ cmd[s].pc = "write"
  /\ issued' = issued + 1
  /\ permit' = permit \cup {[no |-> issued', session |-> s, pid |-> proc[s], type |-> cmd[s].type,
                             scope |-> cmd[s].scope, forced |-> cmd[s].force]}
  /\ cmd' = [cmd EXCEPT ![s] = NoCmd] /\ lock' = NoLock
  /\ UNCHANGED <<proc, alive, unharvested, kills>>

Close(s) ==
  /\ cmd[s].pc = "off" /\ s \in alive
  /\ \E p \in Mine(s) : permit' = permit \ {p}
  /\ UNCHANGED <<issued, proc, alive, lock, cmd, unharvested, kills>>

----------------------------------------------------------------------------
(* Sessions.  The hooks of a session run before and after its tool calls.     *)

Blockers(s, p) == {q \in Active : q.type = "exclusive" /\ q.session # s /\ Match(p, q.scope)}

(* What the hook before an edit lets through; docs and knowledge only warn.   *)
MayEdit(s, p) == Blockers(s, p) = {}

OnSessionEnd(s) ==
  /\ s \in alive /\ cmd[s].pc = "off" /\ Mine(s) # {}
  /\ permit' = permit \ Mine(s) /\ unharvested' = unharvested \cup {s}
  /\ alive' = alive \ {s}
  /\ UNCHANGED <<issued, proc, lock, cmd, kills>>

(* A killed session closes nothing; the lock it held grows old.               *)
Kill(s) ==
  /\ s \in alive /\ kills < MaxKills /\ kills' = kills + 1
  /\ alive' = alive \ {s}
  /\ cmd' = [cmd EXCEPT ![s] = NoCmd]
  /\ lock' = IF lock.by = {s} THEN [lock EXCEPT !.old = TRUE] ELSE lock
  /\ UNCHANGED <<store, proc, unharvested>>

(* A session starts: the markers are reported and unlinked.                   *)
OnSessionStart(s) ==
  /\ (Return \/ kills = 0) /\ s \notin alive /\ proc[s] < 1
  /\ alive' = alive \cup {s} /\ proc' = [proc EXCEPT ![s] = @ + 1]
  /\ unharvested' = {}
  /\ UNCHANGED <<store, lock, cmd, kills>>

Next == \E s \in Sessions :
  \/ Acquire(s) \/ Create(s) \/ SeeOld(s) \/ Unlink(s) \/ Busy(s) \/ Check(s) \/ Write(s)
  \/ Close(s) \/ OnSessionEnd(s) \/ Kill(s) \/ OnSessionStart(s)

Spec == Init /\ [][Next]_vars

----------------------------------------------------------------------------
(* While no permit was forced, exactly the holder of an exclusive permit may   *)
(* edit inside its scope: overlap is never under-reported, check and write    *)
(* happen under one lock, and no two sessions win the same path.              *)
ExclusiveAlone ==
  (\A p \in Active : ~p.forced) =>
    \A p \in Active, path \in Paths :
      p.type = "exclusive" /\ Match(path, p.scope) => {s \in Sessions : MayEdit(s, path)} = {p.session}
=============================================================================
