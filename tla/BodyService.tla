---------------------------- MODULE BodyService -----------------------------
(***************************************************************************)
(* What a parser promises its caller, without the threads that read the    *)
(* files, their futures, and the body that is put together part by part:   *)
(* a call gives a whole body of what was asked, each file as it was while  *)
(* the call went on, or it throws because a file was not there; and what   *)
(* the tasks of a caller hold is one body, for as long as nobody disturbs  *)
(* it.  The process may end instead, at any time.                          *)
(***************************************************************************)
EXTENDS Sequences, Functions

CONSTANTS
  Callers, Files, Params, Contents,
  NoFile,   \* what is on the disk where there is no file
  Mixed     \* of a file that is written while it is read

VARIABLES
  disk,     \* file -> what is in it
  wanted,   \* caller -> what its call is for, {} when there is none
  been,     \* caller -> file -> what has been in the file since the call began
  held      \* caller -> the bodies that its tasks would send

serviceVars == <<disk, wanted, been, held>>

Request == [params: Seq(Params), files: Seq(Files), chunks: BOOLEAN, kept: BOOLEAN]
Nothing == [f \in Files |-> {}]

Init ==
  /\ disk \in [Files -> Contents \cup {NoFile}]
  /\ wanted = [c \in Callers |-> {}] /\ been = [c \in Callers |-> Nothing]
  /\ held = [c \in Callers |-> {}]

\* Of the many requests, the one that is now wanted.
Ask(c) ==
  /\ wanted[c] = {}
  /\ \E w \in wanted'[c] : w \in Request /\ wanted' = [wanted EXCEPT ![c] = {w}]
  /\ been' = [been EXCEPT ![c] = [f \in Files |-> {disk[f]}]]
  /\ UNCHANGED <<disk, held>>

Over(c) ==
  /\ wanted' = [wanted EXCEPT ![c] = {}]
  /\ been' = [been EXCEPT ![c] = Nothing]
  /\ UNCHANGED disk

\* Of a parser that the caller keeps, the new body is the only one; of one that
\* it does not keep, there is none.
Readable(x, s) == x \in s \/ (x = Mixed /\ \E y, z \in s : y # z)
Give(c, w) ==
  /\ ~w.chunks
  /\ \E contents \in [DOMAIN w.files -> Contents \cup {Mixed}] :
       /\ \A n \in DOMAIN w.files : Readable(contents[n], been[c][w.files[n]])
       /\ held' = [held EXCEPT ![c] =
            IF w.kept THEN {[params |-> w.params, files |-> w.files, contents |-> contents]} ELSE {}]
  /\ Over(c)

Refuse(c, w) ==
  /\ w.chunks \/ \E f \in Range(w.files) : NoFile \in been[c][f]
  /\ Over(c)
  /\ UNCHANGED held

\* Between its calls a caller adds to its parser, destroys it, has its tasks
\* answered, or comes out of a call that threw.
Disturb(c) ==
  /\ wanted[c] = {}
  /\ \E h \in SUBSET held[c] : held' = [held EXCEPT ![c] = h]
  /\ UNCHANGED <<disk, wanted, been>>

Write(f, x) ==
  /\ disk' = [disk EXCEPT ![f] = x]
  /\ been' = [c \in Callers |-> IF wanted[c] = {} THEN been[c]
                                ELSE [been[c] EXCEPT ![f] = @ \cup {x}]]
  /\ held' = [c \in Callers |-> {b \in held[c] : f \notin Range(b.files)}]
  /\ UNCHANGED wanted

BreakDown ==
  /\ wanted' = [c \in Callers |-> {}] /\ been' = [c \in Callers |-> Nothing]
  /\ held' = [c \in Callers |-> {}]
  /\ UNCHANGED disk

Next ==
  \/ BreakDown
  \/ \E c \in Callers :
       Ask(c) \/ Disturb(c) \/ \E w \in wanted[c] : Give(c, w) \/ Refuse(c, w)
  \/ \E f \in Files, x \in Contents \cup {NoFile} : Write(f, x)

Spec == Init /\ [][Next]_serviceVars
=============================================================================
