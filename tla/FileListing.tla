----------------------------- MODULE FileListing -----------------------------
(***************************************************************************)
(* What list_rds_tables promises while other programs write the files: the *)
(* answer of a call is what its file was at one moment of the call.        *)
(***************************************************************************)
EXTENDS Integers

CONSTANTS
  Callers, \* threads and worker processes that list tables
  Sources, \* files
  None     \* no value

VARIABLES
  now,    \* what each file is: its stamp (size and mtime) and its text
  asked,  \* the file each caller lists
  answer  \* what it is told

vars == <<now, asked, answer>>

Init ==
  /\ now = [s \in Sources |-> [stamp |-> 0, text |-> [head |-> 0, tail |-> 0]]]
  /\ asked = [p \in Callers |-> None]
  /\ answer = [p \in Callers |-> None]

\* Another program writes to a file: any text, under a stamp it never had.
Change(s) ==
  /\ now' = [now EXCEPT ![s] = now'[s]]
  /\ now'[s].stamp > now[s].stamp
  /\ UNCHANGED <<asked, answer>>

Ask(p) ==
  /\ asked[p] = None
  /\ \E s \in Sources : asked' = [asked EXCEPT ![p] = s]
  /\ UNCHANGED <<now, answer>>

Answer(p) ==
  /\ asked[p] # None /\ answer[p] = None
  /\ answer' = [answer EXCEPT ![p] = [path  |-> asked[p],
                                      stamp |-> now[asked[p]].stamp,
                                      text  |-> now[asked[p]].text]]
  /\ UNCHANGED <<now, asked>>

Next ==
  \/ \E s \in Sources : Change(s)
  \/ \E p \in Callers : Ask(p) \/ Answer(p)

Spec == Init /\ [][Next]_vars
=============================================================================
