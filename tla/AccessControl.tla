----------------------------- MODULE AccessControl -----------------------------
(***************************************************************************)
(* What the agents' API promises about credentials (docstring of           *)
(* app/api_auth.py): a process serves without a look at the accounts only  *)
(* credentials that are valid, or stopped being valid CacheTtl ago at most.*)
(***************************************************************************)
EXTENDS Naturals

CONSTANTS Users, Passwords, Procs, CacheTtl

VARIABLES
  access,  \* access[c]: whether c is valid, and when it last stopped, 0 for never
  served,  \* served[p]: what process p serves without a look at the accounts
  clock

Creds == [user : Users, password : Passwords]

Init ==
  /\ access = [c \in Creds |-> [valid |-> FALSE, lost |-> 0]]
  /\ served = [p \in Procs |-> {}]
  /\ clock = 1

May(c, now) == access[c].valid \/ (access[c].lost # 0 /\ now <= access[c].lost + CacheTtl)

\* What an account looks like from outside: one password of the login, or none, is valid.
Edit(u) ==
  /\ \E pws \in {{}} \cup {{pw} : pw \in Passwords} :
       access' = [c \in Creds |->
                    IF c.user # u THEN access[c]
                    ELSE [valid |-> c.password \in pws,
                          lost |-> IF access[c].valid /\ c.password \notin pws
                                   THEN clock ELSE access[c].lost]]
  /\ UNCHANGED <<served, clock>>

Serve(p, c) ==
  /\ May(c, clock)
  /\ served' = [served EXCEPT ![p] = @ \cup {c}]
  /\ UNCHANGED <<access, clock>>

Forget(p) ==
  /\ \E kept \in SUBSET served[p] : served' = [served EXCEPT ![p] = kept]
  /\ UNCHANGED <<access, clock>>

\* Time passes: entries run out, those of lost credentials in time.
Tick ==
  /\ clock' = clock + 1
  /\ served' \in [Procs -> SUBSET Creds]
  /\ \A p \in Procs : served'[p] \subseteq {c \in served[p] : May(c, clock + 1)}
  /\ UNCHANGED access

Next ==
  \/ Tick
  \/ \E u \in Users : Edit(u)
  \/ \E p \in Procs : Forget(p) \/ \E c \in Creds : Serve(p, c)

Spec == Init /\ [][Next]_<<access, served, clock>>
==============================================================================
