----------------------- MODULE MultipartBodiesProofs ------------------------
(***************************************************************************)
(* For any number of parsers, files and threads: the body that a task is   *)
(* made with is complete, the threads that read its files do not outlive   *)
(* what they read from, and a parser keeps what BodyService promises.      *)
(*                                                                         *)
(* The states of different parsers meet in the disk alone, so the          *)
(* invariant is about one parser, Sound, and a step of one parser is shown *)
(* to keep it in terms of what it has: its object s, what its caller does  *)
(* c, its futures r, and what its files have been v, with the disk d.      *)
(***************************************************************************)
EXTENDS MultipartBodies, FiniteSetTheorems, TLAPS

OnDisk == Contents \cup {Unreadable}
InBody == Contents \cup {Torn}
Seen == [Files -> SUBSET OnDisk]
Doing == {"idle", "generating", "unwinding", "waiting"}

\* What is in the body is what the futures said, and a future says what its file
\* was since the call began.
Told(x, seenBefore) ==
  /\ x.at = "open" => x.content \in seenBefore
  /\ x.at = "done" => Possible(x.content, seenBefore)
  /\ x.at = "failed" => Unreadable \in seenBefore
Generated(s, r, v, d) ==
  /\ s.body_content_.params = s.params_
  /\ Len(s.body_content_.files) = Len(s.body_content_.contents)
  /\ Len(s.body_content_.contents) <= Len(s.files_)
  /\ \A n \in 1..Len(s.body_content_.contents) :
       /\ r[n].at = "done"
       /\ s.body_content_.files[n] = s.files_[n]
       /\ Possible(s.body_content_.contents[n], v[s.files_[n]])
  /\ \A i \in DOMAIN r : Told(r[i], v[s.files_[i]])
  /\ \A f \in Files : IsFiniteSet(v[f]) /\ d[f] \in v[f]

Sound(s, c, r, v, d) ==
  /\ c \in {"idle", "waiting"} => r = <<>>
  /\ c \in {"generating", "unwinding"} => DOMAIN r = DOMAIN s.files_
  /\ \A i \in DOMAIN r : r[i].at \in {"open", "done"} => r[i].content \in InBody
  /\ c = "generating" => Generated(s, r, v, d)

BodyInv == \A p \in Parsers : Sound(parser[p], pc[p], reads[p], seen[p], disk)
Inv == TypeOK /\ BodyInv

-----------------------------------------------------------------------------
(* What a file has been. *)

\* The states that a file has been in only become more.
LEMMA PossibleStays ==
  ASSUME NEW s, NEW c, NEW x, IsFiniteSet(s), Possible(c, s)
  PROVE  Possible(c, s \cup {x}) /\ IsFiniteSet(s \cup {x})
<1>1. IsFiniteSet(s \cup {x}) /\ Cardinality(s \cup {x}) >= Cardinality(s)
  <2>1. IsFiniteSet(s \cup {x})
    BY FS_AddElement
  <2>2. Cardinality(s) <= Cardinality(s \cup {x})
    BY <2>1, FS_Subset
  <2>3. Cardinality(s) \in Nat /\ Cardinality(s \cup {x}) \in Nat
    BY <2>1, FS_CardinalityType
  <2> QED BY <2>1, <2>2, <2>3
<1>2. Cardinality(s) \in Nat /\ Cardinality(s \cup {x}) \in Nat
  BY <1>1, FS_CardinalityType
<1> QED BY <1>1, <1>2 DEF Possible

\* A file that has been two things has been more than one.
LEMMA TornIsPossible ==
  ASSUME NEW s, NEW c \in s, NEW d \in s, c # d, IsFiniteSet(s)
  PROVE  Possible(Torn, s)
<1>1. IsFiniteSet({c}) /\ Cardinality({c}) = 1
  BY FS_Singleton
<1>2. Cardinality({c, d}) = 2 /\ IsFiniteSet({c, d})
  <2>1. {c, d} = {c} \cup {d}
    OBVIOUS
  <2>2. Cardinality({c} \cup {d}) = Cardinality({c}) + 1 /\ IsFiniteSet({c} \cup {d})
    BY <1>1, FS_AddElement
  <2> QED BY <1>1, <2>1, <2>2
<1>3. Cardinality({c, d}) <= Cardinality(s)
  BY FS_Subset
<1>4. Cardinality(s) \in Nat
  BY FS_CardinalityType
<1> QED BY <1>2, <1>3, <1>4 DEF Possible
-----------------------------------------------------------------------------
(* What each step does to one parser. *)

LEMMA BodyOf ==
  ASSUME NEW x \in Seq(Params), NEW y \in Seq(Files), NEW z \in Seq(InBody)
  PROVE  [params |-> x, files |-> y, contents |-> z] \in Body
<1>1. Body = [params : Seq(Params), files : Seq(Files), contents : Seq(InBody)]
  BY DEF Body, InBody
<1> QED BY <1>1

LEMMA ParserWith ==
  ASSUME NEW s \in Parser, NEW b \in Body, NEW t, t = [s EXCEPT !.body_content_ = b]
  PROVE  /\ t \in Parser /\ t.body_content_ = b
         /\ t.params_ = s.params_ /\ t.files_ = s.files_ /\ t.chunkFiles_ = s.chunkFiles_
BY DEF Parser

\* What Begin makes of a parser and of a disk.
Begun(s) == [s EXCEPT !.body_content_ = [NoBody EXCEPT !.params = s.params_]]
Asked(s) == [i \in DOMAIN s.files_ |-> [at |-> "asked", content |-> Unreadable]]
SeenFirst(d) == [f \in Files |-> {d[f]}]
LEMMA BeginSound ==
  ASSUME NEW s \in Parser, NEW d \in [Files -> OnDisk]
  PROVE  /\ Begun(s) \in Parser /\ Asked(s) \in Seq(Read) /\ SeenFirst(d) \in Seen
         /\ Sound(Begun(s), "generating", Asked(s), SeenFirst(d), d)
<1> DEFINE b == [NoBody EXCEPT !.params = s.params_]
           t == [s EXCEPT !.body_content_ = b]
           a == [at |-> "asked", content |-> Unreadable]
           r == [i \in DOMAIN s.files_ |-> a]
           v == [f \in Files |-> {d[f]}]
<1>1. s.params_ \in Seq(Params) /\ s.files_ \in Seq(Files)
  BY DEF Parser
<1>2. b \in Body /\ b.params = s.params_ /\ b.files = <<>> /\ b.contents = <<>>
  <2>1. b = [params |-> s.params_, files |-> <<>>, contents |-> <<>>]
    BY DEF NoBody
  <2>2. <<>> \in Seq(Files) /\ <<>> \in Seq(InBody)
    OBVIOUS
  <2>3. [params |-> s.params_, files |-> <<>>, contents |-> <<>>] \in Body
    BY <1>1, <2>2, BodyOf
  <2> HIDE DEF b
  <2> QED BY <2>1, <2>3
<1>3. t \in Parser /\ t.params_ = s.params_ /\ t.files_ = s.files_ /\ t.body_content_ = b
  <2> HIDE DEF b
  <2> QED BY <1>2 DEF Parser
<1>4. r \in Seq(Read) /\ DOMAIN r = DOMAIN s.files_ /\ \A i \in DOMAIN r : r[i].at = "asked"
  <2>1. a \in Read
    BY DEF Read
  <2>2. DOMAIN s.files_ = 1..Len(s.files_) /\ Len(s.files_) \in Nat
    BY <1>1
  <2> QED BY <2>1, <2>2
<1>5. v \in Seen /\ \A f \in Files : IsFiniteSet(v[f]) /\ d[f] \in v[f]
  <2>1. \A f \in Files : d[f] \in OnDisk /\ {d[f]} \in SUBSET OnDisk
    OBVIOUS
  <2>2. v \in Seen
    BY <2>1 DEF Seen
  <2>3. \A f \in Files : v[f] = {d[f]}
    OBVIOUS
  <2> QED BY <2>2, <2>3, FS_Singleton
<1>6. Generated(t, r, v, d)
  <2> HIDE DEF t, r, v, b
  <2> QED BY <1>1, <1>2, <1>3, <1>4, <1>5 DEF Generated, Told
<1> HIDE DEF t, r, v
<1>7. Sound(t, "generating", r, v, d)
  BY <1>3, <1>4, <1>6 DEF Sound
<1>8. t = Begun(s) /\ r = Asked(s) /\ v = SeenFirst(d)
  BY DEF t, r, v, b, Begun, Asked, SeenFirst
<1> QED BY <1>3, <1>4, <1>5, <1>7, <1>8

LEMMA SetReadSound ==
  ASSUME NEW s, NEW c \in {"generating", "unwinding"}, NEW r \in Seq(Read), NEW v, NEW d,
         Sound(s, c, r, v, d), NEW i \in DOMAIN r, r[i].at # "done",
         NEW x \in Read, x.at \in {"open", "done"} => x.content \in InBody,
         c = "generating" => Told(x, v[s.files_[i]])
  PROVE  [r EXCEPT ![i] = x] \in Seq(Read) /\ Sound(s, c, [r EXCEPT ![i] = x], v, d)
<1> DEFINE q == [r EXCEPT ![i] = x]
<1>1. q \in Seq(Read) /\ DOMAIN q = DOMAIN r /\ q[i] = x /\ \A j \in DOMAIN r : j # i => q[j] = r[j]
  OBVIOUS
<1> HIDE DEF q
<1>2. DOMAIN q = DOMAIN s.files_
  BY <1>1 DEF Sound
<1>3. \A j \in DOMAIN q : q[j].at \in {"open", "done"} => q[j].content \in InBody
  BY <1>1 DEF Sound
<1>4. c = "generating" => Generated(s, q, v, d)
  <2> SUFFICES ASSUME c = "generating", Generated(s, r, v, d) PROVE Generated(s, q, v, d)
    BY DEF Sound
  <2>1. \A n \in 1..Len(s.body_content_.contents) : n # i /\ q[n] = r[n]
    <3> SUFFICES ASSUME NEW n \in 1..Len(s.body_content_.contents) PROVE n # i /\ q[n] = r[n]
      OBVIOUS
    <3>1. n # i
      BY DEF Generated
    <3>2. q[n] = r[n]
      BY <3>1 DEF q
    <3> QED BY <3>1, <3>2
  <2>2. \A j \in DOMAIN q : Told(q[j], v[s.files_[j]])
    BY <1>1 DEF Generated
  <2> QED BY <2>1, <2>2 DEF Generated
<1>5. Sound(s, c, q, v, d)
  BY <1>2, <1>3, <1>4 DEF Sound
<1> QED BY <1>1, <1>5 DEF q

LEMMA AppendedOne ==
  ASSUME NEW S, NEW s \in Seq(S), NEW e \in S
  PROVE  /\ Append(s, e) \in Seq(S) /\ Len(Append(s, e)) = Len(s) + 1
         /\ Append(s, e)[Len(s) + 1] = e
         /\ \A i \in 1..Len(s) : Append(s, e)[i] = s[i]
OBVIOUS

LEMMA CollectSound ==
  ASSUME NEW s \in Parser, NEW r \in Seq(Read), NEW v, NEW d, Sound(s, "generating", r, v, d),
         Len(s.body_content_.contents) # Len(s.files_),
         NEW n, n = Len(s.body_content_.contents) + 1, r[n].at = "done"
  PROVE  LET b == [params |-> s.body_content_.params,
                   files |-> Append(s.body_content_.files, s.files_[n]),
                   contents |-> Append(s.body_content_.contents, r[n].content)]
             t == [s EXCEPT !.body_content_ = b]
         IN t \in Parser /\ Sound(t, "generating", r, v, d)
<1> DEFINE fs == s.body_content_.files
           cs == s.body_content_.contents
           f == s.files_[n]
           x == r[n].content
           b == [params |-> s.body_content_.params, files |-> Append(fs, f), contents |-> Append(cs, x)]
           t == [s EXCEPT !.body_content_ = b]
<1> HIDE DEF t, b
<1>1. /\ s.params_ \in Seq(Params) /\ s.files_ \in Seq(Files) /\ s.chunkFiles_ \in 0..MaxParts
      /\ s.body_content_.params \in Seq(Params) /\ fs \in Seq(Files) /\ cs \in Seq(InBody)
  BY DEF Parser, Body, InBody
<1>2. Len(fs) = Len(cs) /\ Len(cs) \in Nat /\ Len(cs) <= Len(s.files_) /\ Len(s.files_) \in Nat
  BY <1>1 DEF Sound, Generated
<1>3. n \in 1..Len(s.files_) /\ n \in DOMAIN r
  BY <1>1, <1>2 DEF Sound
<1>4. f \in Files /\ x \in InBody /\ Possible(x, v[f])
  BY <1>1, <1>3 DEF Sound, Generated, Told
<1> HIDE DEF fs, cs, f, x
<1>5. /\ Append(fs, f) \in Seq(Files) /\ Append(cs, x) \in Seq(InBody)
      /\ Len(Append(fs, f)) = n /\ Len(Append(cs, x)) = n
      /\ Append(fs, f)[n] = f /\ Append(cs, x)[n] = x
      /\ \A k \in 1..n : k # n => k \in 1..Len(cs) /\ Append(fs, f)[k] = fs[k] /\ Append(cs, x)[k] = cs[k]
  <2>1. Append(fs, f) \in Seq(Files) /\ Append(cs, x) \in Seq(InBody)
    BY <1>1, <1>4, AppendedOne
  <2>2. n = Len(fs) + 1 /\ n = Len(cs) + 1 /\ Len(cs) \in Nat
    BY <1>2 DEF cs
  <2>3. Len(Append(fs, f)) = n /\ Append(fs, f)[n] = f /\ \A k \in 1..Len(fs) : Append(fs, f)[k] = fs[k]
    BY <1>1, <1>4, <2>2, AppendedOne
  <2>4. Len(Append(cs, x)) = n /\ Append(cs, x)[n] = x /\ \A k \in 1..Len(cs) : Append(cs, x)[k] = cs[k]
    BY <1>1, <1>4, <2>2, AppendedOne
  <2>5. \A k \in 1..n : k # n => k \in 1..Len(cs) /\ k \in 1..Len(fs)
    BY <2>2
  <2> QED BY <2>1, <2>3, <2>4, <2>5
<1>6. b = [params |-> s.body_content_.params, files |-> Append(fs, f), contents |-> Append(cs, x)]
  BY DEF b
<1>7. b \in Body /\ b.params = s.body_content_.params /\ b.files = Append(fs, f) /\ b.contents = Append(cs, x)
  <2>1. [params |-> s.body_content_.params, files |-> Append(fs, f), contents |-> Append(cs, x)] \in Body
    BY <1>1, <1>5, BodyOf
  <2> QED BY <1>6, <2>1
<1>8. t \in Parser /\ t.body_content_ = b /\ t.params_ = s.params_ /\ t.files_ = s.files_
  BY <1>7, ParserWith DEF t
<1>9. \A k \in 1..n : /\ r[k].at = "done" /\ Append(fs, f)[k] = s.files_[k]
                      /\ Possible(Append(cs, x)[k], v[s.files_[k]])
  <2> SUFFICES ASSUME NEW k \in 1..n
               PROVE  /\ r[k].at = "done" /\ Append(fs, f)[k] = s.files_[k]
                      /\ Possible(Append(cs, x)[k], v[s.files_[k]])
    OBVIOUS
  <2>1. CASE k = n
    BY <1>4, <1>5, <2>1 DEF f
  <2>2. CASE k # n
    <3>1. k \in 1..Len(cs) /\ Append(fs, f)[k] = fs[k] /\ Append(cs, x)[k] = cs[k]
      BY <1>5, <2>2
    <3>2. r[k].at = "done" /\ fs[k] = s.files_[k] /\ Possible(cs[k], v[s.files_[k]])
      BY <3>1 DEF Sound, Generated, fs, cs
    <3> QED BY <3>1, <3>2
  <2> QED BY <2>1, <2>2
<1>10. Generated(t, r, v, d)
  <2>1. Generated(s, r, v, d)
    BY DEF Sound
  <2>2. s.body_content_.params = s.params_ /\ n <= Len(s.files_)
        /\ (\A i \in DOMAIN r : Told(r[i], v[s.files_[i]]))
        /\ \A g \in Files : IsFiniteSet(v[g]) /\ d[g] \in v[g]
    BY <1>3, <2>1 DEF Generated
  <2>3. t.body_content_.params = t.params_ /\ t.body_content_.files = Append(fs, f)
        /\ t.body_content_.contents = Append(cs, x)
    BY <1>7, <1>8, <2>2
  <2>4. Len(t.body_content_.files) = n /\ Len(t.body_content_.contents) = n /\ n <= Len(t.files_)
    BY <1>5, <1>8, <2>2, <2>3
  <2>5. \A k \in 1..Len(t.body_content_.contents) :
          /\ r[k].at = "done" /\ t.body_content_.files[k] = t.files_[k]
          /\ Possible(t.body_content_.contents[k], v[t.files_[k]])
    BY <1>8, <1>9, <2>3, <2>4
  <2>6. \A i \in DOMAIN r : Told(r[i], v[t.files_[i]])
    BY <1>8, <2>2
  <2> QED BY <2>2, <2>3, <2>4, <2>5, <2>6 DEF Generated
<1>11. Sound(t, "generating", r, v, d)
  BY <1>8, <1>10 DEF Sound
<1> QED BY <1>8, <1>11 DEF t, b, fs, f, cs, x

LEMMA WriteSound ==
  ASSUME NEW s \in Parser, NEW c, NEW r, NEW v \in Seen, NEW d \in [Files -> OnDisk],
         Sound(s, c, r, v, d), NEW f \in Files, NEW x \in OnDisk
  PROVE  LET w == IF c = "generating" THEN [v EXCEPT ![f] = @ \cup {x}] ELSE v
         IN w \in Seen /\ Sound(s, c, r, w, [d EXCEPT ![f] = x])
<1>1. CASE c # "generating"
  BY <1>1 DEF Sound
<1>2. CASE c = "generating"
  <2> DEFINE w == [v EXCEPT ![f] = @ \cup {x}]
             e == [d EXCEPT ![f] = x]
  <2>1. Generated(s, r, v, d) /\ DOMAIN r = DOMAIN s.files_ /\ s.files_ \in Seq(Files)
    BY <1>2 DEF Sound, Parser
  <2>2. w \in Seen /\ w[f] = v[f] \cup {x} /\ \A g \in Files : g # f => w[g] = v[g] /\ e[g] = d[g]
    BY DEF Seen
  <2>3. e[f] = x
    OBVIOUS
  <2> HIDE DEF w, e
  <2>4. \A g \in Files : v[g] \subseteq w[g] /\ \A y : Possible(y, v[g]) => Possible(y, w[g])
    <3>1. IsFiniteSet(v[f])
      BY <2>1 DEF Generated
    <3>2. \A y : Possible(y, v[f]) => Possible(y, v[f] \cup {x})
      BY <3>1, PossibleStays
    <3> QED BY <2>2, <3>2
  <2>5. \A g \in Files : IsFiniteSet(w[g]) /\ e[g] \in w[g]
    <3>1. \A g \in Files : IsFiniteSet(v[g]) /\ d[g] \in v[g]
      BY <2>1 DEF Generated
    <3>2. IsFiniteSet(v[f] \cup {x})
      BY <3>1, FS_AddElement
    <3> QED BY <2>2, <2>3, <3>1, <3>2
  <2>6. \A i \in DOMAIN r : s.files_[i] \in Files
    BY <2>1
  <2>7. \A n \in 1..Len(s.body_content_.contents) : n \in DOMAIN r
    BY <2>1 DEF Generated, Parser, Body
  <2>8. Generated(s, r, w, e)
    <3>1. \A i \in DOMAIN r : Told(r[i], w[s.files_[i]])
      BY <2>1, <2>4, <2>6 DEF Generated, Told
    <3>2. \A n \in 1..Len(s.body_content_.contents) :
            Possible(s.body_content_.contents[n], w[s.files_[n]])
      BY <2>1, <2>4, <2>6, <2>7 DEF Generated
    <3> QED BY <2>1, <2>5, <3>1, <3>2 DEF Generated
  <2>9. Sound(s, c, r, w, e)
    BY <1>2, <2>8 DEF Sound
  <2> QED BY <1>2, <2>2, <2>9 DEF w, e
<1> QED BY <1>1, <1>2
-----------------------------------------------------------------------------
(* What a step shows of the whole, from what it shows of its parser. *)

\* The bodies of BodyComplete and FilesStay.
Whole(p) ==
  LET b == parser[p].body_content_ IN
  /\ b.params = parser[p].params_ /\ b.files = parser[p].files_
  /\ DOMAIN b.contents = DOMAIN b.files
  /\ \A n \in DOMAIN b.files : Possible(b.contents[n], seen[p][b.files[n]])
TasksWhole == \A p \in Parsers : Len(tasks'[p]) > Len(tasks[p]) => Whole(p)
FilesKept ==
  \A p \in Parsers : Reading(p) # {} /\ process' = "running" =>
    pc'[p] # "idle" /\ parser'[p].files_ = parser[p].files_

\* A step of p leaves the other parsers alone.
Others(p) ==
  \A q \in Parsers : q # p =>
    /\ parser'[q] = parser[q] /\ pc'[q] = pc[q] /\ reads'[q] = reads[q] /\ seen'[q] = seen[q]
    /\ tasks'[q] = tasks[q]

LEMMA Lengths ==
  ASSUME TypeOK, NEW q \in Parsers
  PROVE  Len(tasks[q]) \in Nat
BY DEF TypeOK

LEMMA IdleReadsNothing ==
  ASSUME Inv, NEW q \in Parsers, Reading(q) # {}
  PROVE  pc[q] \in {"generating", "unwinding"}
<1>1. pc[q] \in Doing
  BY DEF Inv, TypeOK, Doing
<1>2. reads[q] # <<>>
  BY DEF Reading
<1> QED BY <1>1, <1>2 DEF Inv, BodyInv, Sound, Doing

LEMMA StepOfOne ==
  ASSUME Inv, TypeOK', NEW p \in Parsers, disk' = disk, Others(p),
         Sound(parser'[p], pc'[p], reads'[p], seen'[p], disk),
         Len(tasks'[p]) <= Len(tasks[p]) \/ Whole(p),
         Reading(p) = {} \/ (pc'[p] # "idle" /\ parser'[p].files_ = parser[p].files_)
  PROVE  Inv' /\ TasksWhole /\ FilesKept
<1>1. BodyInv'
  <2> SUFFICES ASSUME NEW q \in Parsers PROVE Sound(parser'[q], pc'[q], reads'[q], seen'[q], disk)
    BY DEF BodyInv
  <2>1. CASE q = p
    BY <2>1
  <2>2. CASE q # p
    BY <2>2 DEF Inv, BodyInv, Others
  <2> QED BY <2>1, <2>2
<1>2. TasksWhole
  <2> SUFFICES ASSUME NEW q \in Parsers, Len(tasks'[q]) > Len(tasks[q]) PROVE Whole(q)
    BY DEF TasksWhole
  <2>1. Len(tasks[q]) \in Nat
    BY Lengths DEF Inv
  <2>2. Len(tasks'[q]) \in Nat
    BY DEF TypeOK
  <2>3. q = p
    BY <2>1 DEF Others
  <2> QED BY <2>1, <2>2, <2>3
<1>3. FilesKept
  <2> SUFFICES ASSUME NEW q \in Parsers, Reading(q) # {}
               PROVE  pc'[q] # "idle" /\ parser'[q].files_ = parser[q].files_
    BY DEF FilesKept
  <2>1. CASE q = p
    BY <2>1
  <2>2. CASE q # p
    BY <2>2, IdleReadsNothing DEF Others
  <2> QED BY <2>1, <2>2
<1> QED BY <1>1, <1>2, <1>3 DEF Inv

LEMMA StepWhileIdle ==
  ASSUME Inv, TypeOK', NEW p \in Parsers, disk' = disk, Others(p), reads' = reads,
         pc[p] \in {"idle", "waiting"}, pc'[p] \in {"idle", "waiting"},
         Len(tasks'[p]) <= Len(tasks[p])
  PROVE  Inv' /\ TasksWhole /\ FilesKept
<1>1. reads[p] = <<>>
  BY DEF Inv, BodyInv, Sound
<1>2. Reading(p) = {}
  BY <1>1 DEF Reading
<1>3. Sound(parser'[p], pc'[p], reads'[p], seen'[p], disk)
  BY <1>1 DEF Sound
<1> QED BY <1>2, <1>3, StepOfOne

\* The tasks of a parser of which something is noted are as many tasks.
LEMMA TouchedTasks ==
  ASSUME NEW ts \in Seq(Task)
  PROVE  /\ [i \in DOMAIN ts |-> Touched(ts[i])] \in Seq(Task)
         /\ Len([i \in DOMAIN ts |-> Touched(ts[i])]) = Len(ts)
<1>1. \A i \in DOMAIN ts : Touched(ts[i]) \in Task
  <2> SUFFICES ASSUME NEW i \in DOMAIN ts PROVE Touched(ts[i]) \in Task
    OBVIOUS
  <2>1. ts[i] \in Task /\ Lost \in SUBSET Body
    BY DEF Lost
  <2> QED BY <2>1 DEF Task, Touched
<1>2. DOMAIN ts = 1..Len(ts) /\ Len(ts) \in Nat
  OBVIOUS
<1> HIDE DEF Touched
<1> QED BY <1>1, <1>2

LEMMA OverwrittenTasks ==
  ASSUME NEW ts \in Seq(Task), NEW b
  PROVE  /\ [i \in DOMAIN ts |-> Overwritten(ts[i], b)] \in Seq(Task)
         /\ Len([i \in DOMAIN ts |-> Overwritten(ts[i], b)]) = Len(ts)
<1>1. \A i \in DOMAIN ts : Overwritten(ts[i], b) \in Task
  <2> SUFFICES ASSUME NEW i \in DOMAIN ts PROVE Overwritten(ts[i], b) \in Task
    OBVIOUS
  <2>1. ts[i] \in Task /\ Lost \in SUBSET Body
    BY DEF Lost
  <2> QED BY <2>1 DEF Task, Overwritten
<1>2. DOMAIN ts = 1..Len(ts) /\ Len(ts) \in Nat
  OBVIOUS
<1> QED BY <1>1, <1>2
-----------------------------------------------------------------------------
(* The invariant, one action after another. *)

Kept == Inv' /\ TasksWhole /\ FilesKept

LEMMA Fresh ==
  NewParser \in Parser /\ NotSeen \in Seen /\ NoBody \in Body
<1>1. NoBody \in Body
  <2>1. <<>> \in Seq(Params) /\ <<>> \in Seq(Files) /\ <<>> \in Seq(InBody)
    OBVIOUS
  <2> QED BY <2>1, BodyOf DEF NoBody
<1>2. NewParser \in Parser
  BY <1>1, BoundsAssumption DEF NewParser, Parser
<1>3. NotSeen \in Seen
  BY DEF NotSeen, Seen
<1> QED BY <1>1, <1>2, <1>3

LEMMA InitInv == Init => Inv
<1> SUFFICES ASSUME Init PROVE Inv
  OBVIOUS
<1>1. NewParser \in Parser /\ NotSeen \in Seen
  BY Fresh
<1> HIDE DEF NewParser, NotSeen
<1>2. TypeOK
  BY <1>1 DEF Init, TypeOK, Seen, OnDisk
<1>3. BodyInv
  BY DEF Init, BodyInv, Sound
<1> QED BY <1>2, <1>3 DEF Inv

LEMMA MultipartParserKept ==
  ASSUME Inv, NEW p \in Parsers, MultipartParser(p)
  PROVE  Kept
<1>1. TypeOK' /\ tasks' = tasks
  BY DEF Inv, TypeOK, MultipartParser
<1>2. Others(p)
  BY DEF MultipartParser, Others
<1>3. Len(tasks'[p]) <= Len(tasks[p])
  BY <1>1, Lengths DEF Inv
<1> QED BY <1>1, <1>2, <1>3, StepWhileIdle DEF MultipartParser, Kept

LEMMA DestroyKept ==
  ASSUME Inv, NEW p \in Parsers, Destroy(p)
  PROVE  Kept
<1> DEFINE ts == [i \in DOMAIN tasks[p] |-> Touched(tasks[p][i])]
<1>1. TypeOK
  BY DEF Inv
<1>2. tasks' = [tasks EXCEPT ![p] = ts]
  BY DEF Destroy, Each
<1>3. ts \in Seq(Task) /\ Len(ts) = Len(tasks[p]) /\ Len(tasks[p]) \in Nat
  BY <1>1, TouchedTasks, Lengths DEF TypeOK
<1> HIDE DEF ts
<1>4. TypeOK'
  BY <1>1, <1>2, <1>3, Fresh DEF Destroy, TypeOK
<1>5. Others(p)
  BY <1>1, <1>2 DEF Destroy, Others, TypeOK
<1>6. Len(tasks'[p]) <= Len(tasks[p])
  BY <1>1, <1>2, <1>3 DEF TypeOK
<1> QED BY <1>4, <1>5, <1>6, StepWhileIdle DEF Destroy, Kept

\* One more part in a parser that the caller holds.
LEMMA FillsKept ==
  ASSUME Inv, NEW p \in Parsers, Fills(p), NEW s \in Parser, parser' = [parser EXCEPT ![p] = s]
  PROVE  Kept
<1> DEFINE ts == [i \in DOMAIN tasks[p] |-> Touched(tasks[p][i])]
<1>1. TypeOK
  BY DEF Inv
<1>2. tasks' = [tasks EXCEPT ![p] = ts]
  BY DEF Fills, Each
<1>3. ts \in Seq(Task) /\ Len(ts) = Len(tasks[p]) /\ Len(tasks[p]) \in Nat
  BY <1>1, TouchedTasks, Lengths DEF TypeOK
<1> HIDE DEF ts
<1>4. TypeOK'
  BY <1>1, <1>2, <1>3 DEF Fills, TypeOK
<1>5. Others(p)
  BY <1>1, <1>2 DEF Fills, Others, TypeOK
<1>6. Len(tasks'[p]) <= Len(tasks[p])
  BY <1>1, <1>2, <1>3 DEF TypeOK
<1> QED BY <1>4, <1>5, <1>6, StepWhileIdle DEF Fills, Kept

LEMMA OneMore ==
  ASSUME NEW a \in Nat, NEW b \in Nat, NEW m \in Nat, NEW c \in 0..m, a + b + c < m
  PROVE  c + 1 \in 0..m
OBVIOUS

LEMMA AddKept ==
  ASSUME Inv, NEW p \in Parsers,
         \/ \E x \in Params : addParameter(p, x)
         \/ \E f \in Files : addFile(p, f)
         \/ addChunkFile(p)
  PROVE  Kept
<1> DEFINE s == parser[p]
<1>1. s \in Parser /\ Fills(p)
  BY DEF Inv, TypeOK, addParameter, addFile, addChunkFile
<1>2. /\ s.params_ \in Seq(Params) /\ s.files_ \in Seq(Files) /\ s.chunkFiles_ \in 0..MaxParts
      /\ s.body_content_ \in Body
  BY <1>1 DEF Parser
<1>3. CASE \E x \in Params : addParameter(p, x)
  <2>1. PICK x \in Params : addParameter(p, x)
    BY <1>3
  <2> DEFINE t == [s EXCEPT !.params_ = Append(s.params_, x)]
  <2>2. Append(s.params_, x) \in Seq(Params)
    BY <1>2, AppendedOne
  <2>3. t \in Parser
    BY <1>1, <2>2 DEF Parser
  <2>4. parser' = [parser EXCEPT ![p] = t]
    BY <2>1 DEF addParameter
  <2> HIDE DEF t
  <2> QED BY <1>1, <2>3, <2>4, FillsKept
<1>4. CASE \E f \in Files : addFile(p, f)
  <2>1. PICK f \in Files : addFile(p, f)
    BY <1>4
  <2> DEFINE t == [s EXCEPT !.files_ = Append(s.files_, f)]
  <2>2. Append(s.files_, f) \in Seq(Files)
    BY <1>2, AppendedOne
  <2>3. t \in Parser
    BY <1>1, <2>2 DEF Parser
  <2>4. parser' = [parser EXCEPT ![p] = t]
    BY <2>1 DEF addFile
  <2> HIDE DEF t
  <2> QED BY <1>1, <2>3, <2>4, FillsKept
<1>5. CASE addChunkFile(p)
  <2> DEFINE t == [s EXCEPT !.chunkFiles_ = s.chunkFiles_ + 1]
  <2>1. s.chunkFiles_ + 1 \in 0..MaxParts
    <3>1. Len(s.params_) + Len(s.files_) + s.chunkFiles_ < MaxParts
      BY <1>5 DEF addChunkFile, Fills, Parts
    <3>2. Len(s.params_) \in Nat /\ Len(s.files_) \in Nat
      BY <1>2
    <3>3. MaxParts \in Nat
      BY BoundsAssumption
    <3> QED BY <1>2, <3>1, <3>2, <3>3, OneMore
  <2>2. t \in Parser
    BY <1>1, <2>1 DEF Parser
  <2>3. parser' = [parser EXCEPT ![p] = t]
    BY <1>5 DEF addChunkFile
  <2> HIDE DEF t
  <2> QED BY <1>1, <2>2, <2>3, FillsKept
<1> QED BY <1>3, <1>4, <1>5

LEMMA BeginKept ==
  ASSUME Inv, NEW p \in Parsers, NEW s \in Parser, Begin(p, s),
         pc[p] = "idle", NEW o \in {"none", "kept", "local"},
         obj' = [obj EXCEPT ![p] = o], UNCHANGED <<process, disk, tasks>>
  PROVE  Kept
<1>1. TypeOK /\ disk \in [Files -> OnDisk]
  BY DEF Inv, TypeOK, OnDisk
<1>2. /\ Begun(s) \in Parser /\ Asked(s) \in Seq(Read) /\ SeenFirst(disk) \in Seen
      /\ Sound(Begun(s), "generating", Asked(s), SeenFirst(disk), disk)
  BY <1>1, BeginSound
<1>3. /\ parser' = [parser EXCEPT ![p] = Begun(s)] /\ pc' = [pc EXCEPT ![p] = "generating"]
      /\ reads' = [reads EXCEPT ![p] = Asked(s)] /\ seen' = [seen EXCEPT ![p] = SeenFirst(disk)]
  BY DEF Begin, Begun, Asked, SeenFirst
<1>4. TypeOK'
  BY <1>1, <1>2, <1>3 DEF TypeOK, Seen, OnDisk
<1>5. Others(p)
  BY <1>1, <1>3 DEF Others, TypeOK
<1>6. Sound(parser'[p], pc'[p], reads'[p], seen'[p], disk)
  BY <1>1, <1>2, <1>3 DEF TypeOK
<1>7. Reading(p) = {}
  BY IdleReadsNothing
<1>8. Len(tasks'[p]) <= Len(tasks[p])
  BY <1>1, Lengths
<1> QED BY <1>4, <1>5, <1>6, <1>7, <1>8, StepOfOne DEF Kept

LEMMA GenBegins ==
  ASSUME Inv, NEW p \in Parsers,
         getReqSendTask(p) \/ \E params \in Lists(Params), files \in Lists(Files) : getCommonReqSendTask(p, params, files)
  PROVE  Kept
<1>1. TypeOK
  BY DEF Inv
<1>2. CASE getReqSendTask(p)
  <2>1. parser[p] \in Parser /\ obj[p] \in {"none", "kept", "local"} /\ obj = [obj EXCEPT ![p] = obj[p]]
    BY <1>1 DEF TypeOK
  <2>2. obj' = [obj EXCEPT ![p] = obj[p]] /\ Begin(p, parser[p]) /\ pc[p] = "idle" /\ UNCHANGED <<process, disk, tasks>>
    BY <1>2, <2>1 DEF getReqSendTask
  <2> QED BY <2>1, <2>2, BeginKept
<1>3. CASE \E params \in Lists(Params), files \in Lists(Files) : getCommonReqSendTask(p, params, files)
  <2>1. PICK params \in Lists(Params), files \in Lists(Files) : getCommonReqSendTask(p, params, files)
    BY <1>3
  <2> DEFINE s == [NewParser EXCEPT !.params_ = params, !.files_ = files]
  <2>2. params \in Seq(Params) /\ files \in Seq(Files)
    BY BoundsAssumption DEF Lists
  <2>3. s \in Parser
    BY <2>2, Fresh, BoundsAssumption DEF NewParser, Parser
  <2>4. obj' = [obj EXCEPT ![p] = "local"] /\ Begin(p, s) /\ pc[p] = "idle" /\ UNCHANGED <<process, disk, tasks>>
    BY <2>1 DEF getCommonReqSendTask
  <2> HIDE DEF s
  <2> QED BY <2>3, <2>4, BeginKept
<1> QED BY <1>2, <1>3

\* A future of p is set.
LEMMA SetReadKept ==
  ASSUME Inv, NEW p \in Parsers, NEW i \in DOMAIN reads[p], NEW x \in Read,
         reads' = [reads EXCEPT ![p][i] = x], reads[p][i].at \in {"asked", "open"},
         x.at \in {"open", "done"} => x.content \in InBody,
         pc[p] = "generating" =>
           Told(x, seen[p][parser[p].files_[i]]),
         UNCHANGED <<process, disk, obj, parser, pc, seen, tasks>>
  PROVE  Kept
<1> DEFINE q == [reads[p] EXCEPT ![i] = x]
<1>1. TypeOK /\ reads[p] \in Seq(Read) /\ Sound(parser[p], pc[p], reads[p], seen[p], disk)
  BY DEF Inv, TypeOK, BodyInv
<1>2. pc[p] \in {"generating", "unwinding"}
  <2>1. i \in Reading(p)
    BY DEF Reading
  <2> QED BY <2>1, IdleReadsNothing
<1>3. reads' = [reads EXCEPT ![p] = q]
  OBVIOUS
<1>4. q \in Seq(Read) /\ Sound(parser[p], pc[p], q, seen[p], disk)
  <2>1. reads[p][i].at # "done"
    OBVIOUS
  <2> QED BY <1>1, <1>2, <2>1, SetReadSound
<1> HIDE DEF q
<1>5. TypeOK'
  BY <1>1, <1>3, <1>4 DEF TypeOK
<1>6. Others(p)
  BY <1>1, <1>3 DEF Others, TypeOK
<1>7. reads'[p] = q
  BY <1>1, <1>3 DEF TypeOK
<1>8. Sound(parser'[p], pc'[p], reads'[p], seen'[p], disk)
  BY <1>4, <1>7
<1>9. Len(tasks'[p]) <= Len(tasks[p])
  BY <1>1, Lengths
<1> QED BY <1>2, <1>5, <1>6, <1>8, <1>9, StepOfOne DEF Kept

LEMMA ReaderKept ==
  ASSUME Inv, NEW p \in Parsers, Reader(p)
  PROVE  Kept
<1>1. PICK i \in DOMAIN reads[p] : Open(p, i) \/ ReadFile(p, i)
  BY DEF Reader
<1> DEFINE f == parser[p].files_[i]
<1>2. Sound(parser[p], pc[p], reads[p], seen[p], disk) /\ reads[p] \in Seq(Read)
  BY DEF Inv, TypeOK, BodyInv
<1>3. reads[p][i].at \in {"asked", "open"}
  BY <1>1 DEF Open, ReadFile
<1>4. pc[p] \in {"generating", "unwinding"}
  <2>1. i \in Reading(p)
    BY <1>3 DEF Reading
  <2> QED BY <2>1, IdleReadsNothing
<1>5. f \in Files
  <2>1. parser[p].files_ \in Seq(Files) /\ i \in DOMAIN parser[p].files_
    BY <1>2, <1>4 DEF Inv, TypeOK, Parser, Sound
  <2> QED BY <2>1
<1>6. disk[f] \in OnDisk
  BY <1>5 DEF Inv, TypeOK, OnDisk
<1>7. pc[p] = "generating" => IsFiniteSet(seen[p][f]) /\ disk[f] \in seen[p][f]
  BY <1>2, <1>5 DEF Sound, Generated
<1> HIDE DEF f
<1>8. CASE Open(p, i)
  <2> DEFINE a == IF disk[f] = Unreadable THEN "failed" ELSE "open"
             x == [at |-> a, content |-> disk[f]]
  <2>1. reads' = [reads EXCEPT ![p][i] = x] /\ UNCHANGED <<process, disk, obj, parser, pc, seen, tasks>>
    BY <1>8 DEF Open, SetRead, OpenFailed, f
  <2>2. x \in Read /\ x.at = a /\ x.content = disk[f]
    BY <1>6 DEF Read, OnDisk
  <2>3. a \in {"failed", "open"} /\ (a = "open" => disk[f] \in InBody)
    BY <1>6 DEF OnDisk, InBody
  <2>5. a = "failed" => disk[f] = Unreadable
    OBVIOUS
  <2> HIDE DEF x, a
  <2>4. /\ x.at \in {"open", "done"} => x.content \in InBody
        /\ pc[p] = "generating" => Told(x, seen[p][f])
    BY <1>7, <2>2, <2>3, <2>5 DEF Told
  <2> QED BY <1>3, <2>1, <2>2, <2>4, SetReadKept DEF f
<1>9. CASE ReadFile(p, i)
  <2> DEFINE c == reads[p][i].content
  <2>1. PICK e \in {c} \cup (IF disk[f] = c THEN {} ELSE {Torn, disk[f]} \ {Unreadable}) :
          /\ reads' = [reads EXCEPT ![p][i] = [at |-> "done", content |-> e]]
          /\ UNCHANGED <<process, disk, obj, parser, pc, seen, tasks>>
    BY <1>9 DEF ReadFile, SetRead, f
  <2> DEFINE x == [at |-> "done", content |-> e]
  <2>2. c \in InBody /\ (pc[p] = "generating" => c \in seen[p][f])
    BY <1>2, <1>9 DEF ReadFile, Sound, Generated, Told, f
  <2> HIDE DEF c
  <2>3. e \in InBody
    BY <1>6, <2>1, <2>2 DEF InBody, OnDisk
  <2>4. x \in Read /\ x.at = "done" /\ x.content = e
    BY <2>3 DEF Read, InBody
  <2>5. pc[p] = "generating" => Possible(e, seen[p][f])
    <3> SUFFICES ASSUME pc[p] = "generating" PROVE Possible(e, seen[p][f])
      OBVIOUS
    <3>1. CASE e = c
      BY <2>2, <3>1 DEF Possible
    <3>2. CASE e = disk[f]
      BY <1>7, <3>2 DEF Possible
    <3>3. CASE e # c /\ e # disk[f]
      <4>1. e = Torn /\ disk[f] # c
        BY <2>1, <3>3
      <4> QED BY <1>7, <2>2, <4>1, TornIsPossible
    <3> QED BY <3>1, <3>2, <3>3
  <2>6. reads' = [reads EXCEPT ![p][i] = x]
    BY <2>1
  <2> HIDE DEF x
  <2>7. pc[p] = "generating" => Told(x, seen[p][f])
    BY <2>4, <2>5 DEF Told
  <2>8. x.at \in {"open", "done"} => x.content \in InBody
    BY <2>3, <2>4
  <2>9. x \in Read /\ UNCHANGED <<process, disk, obj, parser, pc, seen, tasks>>
    BY <2>1, <2>4
  <2> QED BY <1>3, <2>6, <2>7, <2>8, <2>9, SetReadKept DEF f
<1> QED BY <1>1, <1>8, <1>9

LEMMA CollectKept ==
  ASSUME Inv, NEW p \in Parsers, Collect(p)
  PROVE  Kept
<1> DEFINE s == parser[p]
           r == reads[p]
           n == NextPart(p)
           b == [params |-> s.body_content_.params,
                 files |-> Append(s.body_content_.files, s.files_[n]),
                 contents |-> Append(s.body_content_.contents, r[n].content)]
           t == [s EXCEPT !.body_content_ = b]
<1>1. TypeOK /\ s \in Parser /\ s.body_content_ \in Body /\ r \in Seq(Read)
      /\ pc[p] = "generating" /\ Sound(s, "generating", r, seen[p], disk)
  BY DEF Inv, TypeOK, BodyInv, Parser, Collect, Generating
<1>2. parser' = [parser EXCEPT ![p] = t]
  BY DEF Collect, FutureOfNext, WithPart
<1>3. t \in Parser /\ Sound(t, "generating", r, seen[p], disk) /\ t.files_ = s.files_
  <2>1. Len(s.body_content_.contents) # Len(s.files_) /\ n = Len(s.body_content_.contents) + 1 /\ r[n].at = "done"
    BY DEF Collect, Complete, NextPart
  <2>2. t \in Parser /\ Sound(t, "generating", r, seen[p], disk)
    <3> HIDE DEF n, s, r
    <3> QED BY <1>1, <2>1, CollectSound
  <2>3. t.files_ = s.files_
    BY <1>1 DEF Parser
  <2> QED BY <2>2, <2>3
<1> HIDE DEF t, b, n, r
<1>4. TypeOK'
  BY <1>1, <1>2, <1>3 DEF Collect, TypeOK
<1>5. Others(p)
  BY <1>1, <1>2 DEF Collect, Others, TypeOK
<1>6. parser'[p] = t /\ pc' = pc /\ reads' = reads /\ seen' = seen /\ disk' = disk /\ tasks' = tasks
  BY <1>1, <1>2 DEF Collect, TypeOK
<1>7. Sound(parser'[p], pc'[p], reads'[p], seen'[p], disk)
  BY <1>1, <1>3, <1>6 DEF r
<1>8. Len(tasks'[p]) <= Len(tasks[p])
  BY <1>1, <1>6, Lengths
<1> QED BY <1>1, <1>3, <1>4, <1>5, <1>6, <1>7, <1>8, StepOfOne DEF Kept

LEMMA ThrowKept ==
  ASSUME Inv, NEW p \in Parsers, Throw(p)
  PROVE  Kept
<1>1. TypeOK /\ pc[p] = "generating" /\ Sound(parser[p], "generating", reads[p], seen[p], disk)
  BY DEF Inv, BodyInv, Throw, Generating
<1>2. pc' = [pc EXCEPT ![p] = "unwinding"] /\ UNCHANGED <<process, disk, obj, parser, reads, seen, tasks>>
  BY DEF Throw
<1>3. TypeOK' /\ pc'[p] = "unwinding" /\ Others(p)
  BY <1>1, <1>2 DEF TypeOK, Others
<1>4. Sound(parser'[p], pc'[p], reads'[p], seen'[p], disk)
  BY <1>1, <1>2, <1>3 DEF Sound
<1>5. Len(tasks'[p]) <= Len(tasks[p])
  BY <1>1, <1>2, Lengths
<1> QED BY <1>2, <1>3, <1>4, <1>5, StepOfOne DEF Kept
\* When the process ends, nothing is left that could be wrong.
LEMMA ChunkEndsKept ==
  ASSUME Inv, NEW p \in Parsers, ChunkEnds(p)
  PROVE  Kept
<1>1. TypeOK /\ Ends
  BY DEF Inv, ChunkEnds
<1>2. TypeOK'
  BY <1>1, Fresh DEF Ends, TypeOK, Seen, OnDisk
<1>3. BodyInv'
  BY <1>1 DEF Ends, BodyInv, Sound
<1>4. TasksWhole
  BY <1>1, Lengths DEF Ends, TasksWhole
<1>5. FilesKept
  BY <1>1 DEF Ends, FilesKept
<1> QED BY <1>2, <1>3, <1>4, <1>5 DEF Kept, Inv

LEMMA UnwindKept ==
  ASSUME Inv, NEW p \in Parsers, Unwind(p)
  PROVE  Kept
<1> DEFINE ts == [i \in DOMAIN tasks[p] |-> Overwritten(tasks[p][i], parser[p].body_content_)]
<1>1. TypeOK /\ tasks[p] \in Seq(Task) /\ Len(tasks[p]) \in Nat
  BY Lengths DEF Inv, TypeOK
<1>2. ts \in Seq(Task) /\ Len(ts) = Len(tasks[p])
  BY <1>1, OverwrittenTasks
<1>3. \/ tasks' = [tasks EXCEPT ![p] = ts] /\ UNCHANGED <<obj, parser>>
      \/ tasks' = tasks /\ obj' = [obj EXCEPT ![p] = "none"] /\ parser' = [parser EXCEPT ![p] = NewParser]
  BY DEF Unwind, Each
<1>4. /\ reads' = [reads EXCEPT ![p] = <<>>] /\ seen' = [seen EXCEPT ![p] = NotSeen]
      /\ pc' = [pc EXCEPT ![p] = "idle"] /\ UNCHANGED <<process, disk>> /\ Reading(p) = {}
  BY DEF Unwind, Forget, Joined
<1> HIDE DEF ts
<1>5. TypeOK'
  <2>1. parser' \in [Parsers -> Parser] /\ obj' \in [Parsers -> {"none", "kept", "local"}]
    BY <1>1, <1>3, Fresh DEF TypeOK
  <2>2. tasks' \in [Parsers -> Seq(Task)]
    BY <1>1, <1>2, <1>3 DEF TypeOK
  <2>3. /\ reads' \in [Parsers -> Seq(Read)] /\ pc' \in [Parsers -> {"idle", "generating", "unwinding", "waiting"}]
        /\ process' \in {"running", "ended"} /\ disk' \in [Files -> Contents \cup {Unreadable}]
    BY <1>1, <1>4 DEF TypeOK
  <2>4. seen' \in [Parsers -> [Files -> SUBSET (Contents \cup {Unreadable})]]
    BY <1>1, <1>4, Fresh DEF TypeOK, Seen, OnDisk
  <2> QED BY <2>1, <2>2, <2>3, <2>4 DEF TypeOK
<1>6. Others(p)
  BY <1>1, <1>3, <1>4 DEF Others, TypeOK
<1>7. Len(tasks'[p]) <= Len(tasks[p])
  BY <1>1, <1>2, <1>3 DEF TypeOK
<1>8. Sound(parser'[p], pc'[p], reads'[p], seen'[p], disk)
  BY <1>1, <1>4 DEF TypeOK, Sound
<1> QED BY <1>4, <1>5, <1>6, <1>7, <1>8, StepOfOne DEF Kept

LEMMA CompleteIsWhole ==
  ASSUME NEW p \in Parsers, Inv, pc[p] = "generating", Complete(p)
  PROVE  Whole(p) /\ Reading(p) = {}
<1> DEFINE s == parser[p]
           b == s.body_content_
           r == reads[p]
<1>1. /\ s.files_ \in Seq(Files) /\ b.files \in Seq(Files) /\ b.contents \in Seq(InBody)
      /\ DOMAIN r = DOMAIN s.files_ /\ Generated(s, r, seen[p], disk)
  BY DEF Inv, TypeOK, Parser, Body, InBody, BodyInv, Sound
<1>2. Len(b.contents) = Len(s.files_) /\ Len(b.files) = Len(s.files_)
  BY <1>1 DEF Complete, Generated
<1>3. \A n \in 1..Len(s.files_) : /\ r[n].at = "done" /\ b.files[n] = s.files_[n]
                                  /\ Possible(b.contents[n], seen[p][s.files_[n]])
  BY <1>1, <1>2 DEF Generated
<1>4. b.params = s.params_
  BY <1>1 DEF Generated
<1> HIDE DEF s, b, r
<1>5. b.files = s.files_ /\ DOMAIN b.contents = DOMAIN b.files /\ DOMAIN b.files = 1..Len(s.files_)
      /\ DOMAIN r = 1..Len(s.files_)
  BY <1>1, <1>2, <1>3
<1>6. \A n \in DOMAIN b.files : Possible(b.contents[n], seen[p][b.files[n]])
  BY <1>3, <1>5
<1>7. Reading(p) = {}
  BY <1>3, <1>5 DEF Reading, r
<1> QED BY <1>4, <1>5, <1>6, <1>7 DEF Whole, s, b

LEMMA FinishKept ==
  ASSUME Inv, NEW p \in Parsers, Finish(p)
  PROVE  Kept
<1> DEFINE b == parser[p].body_content_
           ts == [i \in DOMAIN tasks[p] |-> Overwritten(tasks[p][i], b)]
           us == Append(ts, NewTask(p, b))
<1>1. TypeOK /\ tasks[p] \in Seq(Task) /\ b \in Body
  BY DEF Inv, TypeOK, Parser
<1>2. Whole(p) /\ Reading(p) = {}
  BY CompleteIsWhole DEF Finish, Generating
<1>3. us \in Seq(Task)
  <2>1. ts \in Seq(Task)
    BY <1>1, OverwrittenTasks
  <2>2. NewTask(p, b) \in Task
    <3> DEFINE touched == \A f \in Range(parser[p].files_) : Cardinality(seen[p][f]) = 1
    <3>1. Lost \in SUBSET Body /\ {b} \in SUBSET Body
      BY <1>1 DEF Lost
    <3>2. (obj[p] = "kept") \in BOOLEAN /\ (obj[p] = "kept" /\ touched) \in BOOLEAN
      OBVIOUS
    <3> HIDE DEF b, touched
    <3>3. NewTask(p, b) = [body |-> IF obj[p] = "kept" THEN {b} ELSE Lost, kept |-> obj[p] = "kept",
                           sent |-> {}, untouched |-> obj[p] = "kept" /\ touched]
      BY DEF NewTask, touched
    <3> QED BY <3>1, <3>2, <3>3 DEF Task
  <2> HIDE DEF ts, b
  <2> QED BY <2>1, <2>2, AppendedOne
<1>4. tasks' = [tasks EXCEPT ![p] = us]
  BY DEF Finish
<1>5. /\ reads' = [reads EXCEPT ![p] = <<>>] /\ seen' = [seen EXCEPT ![p] = NotSeen]
      /\ pc' = [pc EXCEPT ![p] = "idle"] /\ UNCHANGED <<process, disk>>
      /\ \/ UNCHANGED <<obj, parser>>
         \/ obj' = [obj EXCEPT ![p] = "none"] /\ parser' = [parser EXCEPT ![p] = NewParser]
  BY DEF Finish, Forget
<1> HIDE DEF us
<1>6. TypeOK'
  <2>1. parser' \in [Parsers -> Parser] /\ obj' \in [Parsers -> {"none", "kept", "local"}]
    BY <1>1, <1>5, Fresh DEF TypeOK
  <2>2. tasks' \in [Parsers -> Seq(Task)]
    BY <1>1, <1>3, <1>4 DEF TypeOK
  <2>3. /\ reads' \in [Parsers -> Seq(Read)] /\ pc' \in [Parsers -> {"idle", "generating", "unwinding", "waiting"}]
        /\ process' \in {"running", "ended"} /\ disk' \in [Files -> Contents \cup {Unreadable}]
    BY <1>1, <1>5 DEF TypeOK
  <2>4. seen' \in [Parsers -> [Files -> SUBSET (Contents \cup {Unreadable})]]
    BY <1>1, <1>5, Fresh DEF TypeOK, Seen, OnDisk
  <2> QED BY <2>1, <2>2, <2>3, <2>4 DEF TypeOK
<1>7. Others(p)
  BY <1>1, <1>4, <1>5 DEF Others, TypeOK
<1>8. Sound(parser'[p], pc'[p], reads'[p], seen'[p], disk)
  BY <1>1, <1>5 DEF TypeOK, Sound
<1> QED BY <1>2, <1>5, <1>6, <1>7, <1>8, StepOfOne DEF Kept

LEMMA StartKept ==
  ASSUME Inv, NEW p \in Parsers, Start(p)
  PROVE  Kept
<1>1. TypeOK' /\ pc'[p] = "waiting" /\ tasks' = tasks
  BY DEF Inv, TypeOK, Start
<1>2. Others(p)
  BY DEF Start, Others, Inv, TypeOK
<1>3. Len(tasks'[p]) <= Len(tasks[p])
  BY <1>1, Lengths DEF Inv
<1> QED BY <1>1, <1>2, <1>3, StepWhileIdle DEF Start, Kept

LEMMA TransmitKept ==
  ASSUME Inv, NEW p \in Parsers, NEW i \in DOMAIN tasks[p], Transmit(p, i)
  PROVE  Kept
<1>1. TypeOK /\ tasks[p] \in Seq(Task)
  BY DEF Inv, TypeOK
<1>2. PICK m \in Memory(tasks[p][i]) : tasks' = [tasks EXCEPT ![p][i].sent = @ \cup {m}]
  BY DEF Transmit
<1> DEFINE t == [tasks[p][i] EXCEPT !.sent = tasks[p][i].sent \cup {m}]
           ts == [tasks[p] EXCEPT ![i] = t]
<1>3. tasks' = [tasks EXCEPT ![p] = ts]
  BY <1>2
<1>4. t \in Task
  <2>1. tasks[p][i] \in Task /\ m \in {"body", "garbage"}
    BY <1>1, <1>2 DEF Memory
  <2> QED BY <2>1 DEF Task
<1> HIDE DEF t
<1>5. ts \in Seq(Task) /\ Len(ts) = Len(tasks[p]) /\ Len(tasks[p]) \in Nat
  BY <1>1, <1>4
<1> HIDE DEF ts
<1>6. TypeOK'
  BY <1>1, <1>3, <1>5 DEF Transmit, TypeOK
<1>7. Others(p)
  BY <1>1, <1>3 DEF Transmit, Others, TypeOK
<1>8. Len(tasks'[p]) <= Len(tasks[p])
  BY <1>1, <1>3, <1>5 DEF TypeOK
<1> QED BY <1>6, <1>7, <1>8, StepWhileIdle DEF Transmit, Kept

LEMMA AnswerKept ==
  ASSUME Inv, NEW p \in Parsers, Answer(p)
  PROVE  Kept
<1>1. TypeOK' /\ pc'[p] = "idle" /\ tasks'[p] = <<>>
  BY DEF Inv, TypeOK, Answer
<1>2. Others(p)
  BY DEF Answer, Others, Inv, TypeOK
<1>3. Len(tasks'[p]) <= Len(tasks[p])
  BY <1>1, Lengths DEF Inv
<1> QED BY <1>1, <1>2, <1>3, StepWhileIdle DEF Answer, Kept

LEMMA WriteKept ==
  ASSUME Inv, NEW f \in Files, NEW x \in Contents \cup {Unreadable}, Write(f, x)
  PROVE  Kept
<1> DEFINE v(p) == IF pc[p] = "generating" THEN [seen[p] EXCEPT ![f] = @ \cup {x}] ELSE seen[p]
           u(p, i) == IF \E b \in tasks[p][i].body : f \in Range(b.files)
                        THEN Touched(tasks[p][i]) ELSE tasks[p][i]
           ts(p) == [i \in DOMAIN tasks[p] |-> u(p, i)]
<1>1. TypeOK /\ disk \in [Files -> OnDisk] /\ x \in OnDisk
  BY DEF Inv, TypeOK, OnDisk
<1>2. \A p \in Parsers : v(p) \in Seen /\ Sound(parser[p], pc[p], reads[p], v(p), [disk EXCEPT ![f] = x])
  <2> SUFFICES ASSUME NEW p \in Parsers
               PROVE  v(p) \in Seen /\ Sound(parser[p], pc[p], reads[p], v(p), [disk EXCEPT ![f] = x])
    OBVIOUS
  <2>1. parser[p] \in Parser /\ seen[p] \in Seen /\ Sound(parser[p], pc[p], reads[p], seen[p], disk)
    BY DEF Inv, TypeOK, BodyInv, Seen, OnDisk
  <2> QED BY <1>1, <2>1, WriteSound
<1>3. \A p \in Parsers : ts(p) \in Seq(Task) /\ Len(ts(p)) = Len(tasks[p])
  <2> SUFFICES ASSUME NEW p \in Parsers PROVE ts(p) \in Seq(Task) /\ Len(ts(p)) = Len(tasks[p])
    OBVIOUS
  <2>1. tasks[p] \in Seq(Task)
    BY <1>1 DEF TypeOK
  <2>2. \A i \in DOMAIN tasks[p] : u(p, i) \in Task
    <3> SUFFICES ASSUME NEW i \in DOMAIN tasks[p] PROVE u(p, i) \in Task
      OBVIOUS
    <3>1. tasks[p][i] \in Task /\ Lost \in SUBSET Body
      BY <2>1 DEF Lost
    <3>2. Touched(tasks[p][i]) \in Task
      BY <3>1 DEF Task, Touched
    <3> QED BY <3>1, <3>2
  <2>3. DOMAIN tasks[p] = 1..Len(tasks[p]) /\ Len(tasks[p]) \in Nat
    BY <2>1
  <2> HIDE DEF u
  <2> QED BY <2>2, <2>3
<1>4. /\ seen' = [p \in Parsers |-> v(p)] /\ tasks' = [p \in Parsers |-> ts(p)]
      /\ disk' = [disk EXCEPT ![f] = x] /\ UNCHANGED <<process, obj, parser, pc, reads>>
  BY DEF Write
<1> HIDE DEF v, u, ts
<1>5. TypeOK'
  BY <1>1, <1>2, <1>3, <1>4 DEF TypeOK, Seen, OnDisk
<1>6. BodyInv'
  BY <1>2, <1>4 DEF BodyInv
<1>7. TasksWhole
  <2> SUFFICES ASSUME NEW p \in Parsers PROVE ~(Len(tasks'[p]) > Len(tasks[p]))
    BY DEF TasksWhole
  <2>1. Len(tasks'[p]) = Len(tasks[p]) /\ Len(tasks[p]) \in Nat
    BY <1>1, <1>3, <1>4, Lengths
  <2> QED BY <2>1
<1>8. FilesKept
  BY <1>4, IdleReadsNothing DEF FilesKept
<1> QED BY <1>5, <1>6, <1>7, <1>8 DEF Kept, Inv
LEMMA StepInv == Inv /\ [Next]_vars => Kept
<1> SUFFICES ASSUME Inv, [Next]_vars PROVE Kept
  OBVIOUS
<1>1. CASE UNCHANGED vars
  <2>1. Inv'
    BY <1>1 DEF vars, Inv, TypeOK, BodyInv
  <2>2. TasksWhole
    BY <1>1, Lengths DEF vars, TasksWhole, Inv
  <2>3. FilesKept
    BY <1>1, IdleReadsNothing DEF vars, FilesKept
  <2> QED BY <2>1, <2>2, <2>3 DEF Kept
<1>2. ASSUME NEW p \in Parsers, Caller(p) PROVE Kept
  BY <1>2, MultipartParserKept, DestroyKept, AddKept, GenBegins, StartKept DEF Caller
<1>3. ASSUME NEW p \in Parsers, GenBodyContent(p) PROVE Kept
  BY <1>3, CollectKept, ThrowKept, ChunkEndsKept, UnwindKept, FinishKept DEF GenBodyContent
<1>4. ASSUME NEW p \in Parsers, Reader(p) PROVE Kept
  BY <1>4, ReaderKept
<1>5. ASSUME NEW p \in Parsers, Library(p) PROVE Kept
  BY <1>5, AnswerKept, TransmitKept DEF Library
<1>6. ASSUME NEW f \in Files, NEW c \in Contents \cup {Unreadable}, Write(f, c) PROVE Kept
  BY <1>6, WriteKept
<1> QED BY <1>1, <1>2, <1>3, <1>4, <1>5, <1>6 DEF Next

-----------------------------------------------------------------------------
(* What is sent. *)

\* A task that is untouched refers to a body that was made from its parser as it
\* is, and of its files as they are; a body made from it now is the same.
MadeFrom(b, s, d) ==
  /\ b.params = s.params_ /\ b.files = s.files_
  /\ Len(b.contents) = Len(s.files_)
  /\ \A n \in 1..Len(s.files_) : b.contents[n] = d[s.files_[n]]
Current(o, s, c, v, d, t) ==
  t.untouched =>
    /\ o = "kept" /\ s.chunkFiles_ = 0 /\ c # "unwinding" /\ t.sent \subseteq {"body"}
    /\ \E b \in Body : t.body = {b} /\ MadeFrom(b, s, d)
    /\ c = "generating" => \A n \in 1..Len(s.files_) : v[s.files_[n]] = {d[s.files_[n]]}
SentInv ==
  \A p \in Parsers : \A i \in DOMAIN tasks[p] :
    Current(obj[p], parser[p], pc[p], seen[p], disk, tasks[p][i])

LEMMA SentOfOne ==
  ASSUME SentInv, NEW p \in Parsers, disk' = disk,
         \A q \in Parsers : q # p => obj'[q] = obj[q] /\ parser'[q] = parser[q] /\ pc'[q] = pc[q]
                                     /\ seen'[q] = seen[q] /\ tasks'[q] = tasks[q],
         \A i \in DOMAIN tasks'[p] : Current(obj'[p], parser'[p], pc'[p], seen'[p], disk, tasks'[p][i])
  PROVE  SentInv'
<1> SUFFICES ASSUME NEW q \in Parsers, NEW i \in DOMAIN tasks'[q]
             PROVE  Current(obj'[q], parser'[q], pc'[q], seen'[q], disk, tasks'[q][i])
  BY DEF SentInv
<1>1. CASE q = p
  BY <1>1
<1>2. CASE q # p
  BY <1>2 DEF SentInv
<1> QED BY <1>1, <1>2

\* Nothing is said of tasks that are not untouched, and a parser that is not the
\* caller's, or that unwinds, has no others.
LEMMA NoneUntouched ==
  ASSUME SentInv, NEW p \in Parsers, obj[p] # "kept" \/ pc[p] = "unwinding" \/ parser[p].chunkFiles_ # 0
  PROVE  \A i \in DOMAIN tasks[p] : ~tasks[p][i].untouched
BY DEF SentInv, Current

LEMMA SentByCaller ==
  ASSUME Inv, SentInv, NEW p \in Parsers, MultipartParser(p) \/ Destroy(p) \/ Fills(p) \/ Start(p),
         \A q \in Parsers : q # p => obj'[q] = obj[q] /\ parser'[q] = parser[q]
  PROVE  SentInv'
<1>1. TypeOK /\ tasks[p] \in Seq(Task)
  BY DEF Inv, TypeOK
<1>2. \A q \in Parsers : q # p => obj'[q] = obj[q] /\ parser'[q] = parser[q] /\ pc'[q] = pc[q]
                                  /\ seen'[q] = seen[q] /\ tasks'[q] = tasks[q]
  BY <1>1 DEF MultipartParser, Destroy, Fills, Start, Each, TypeOK
<1>3. disk' = disk
  BY DEF MultipartParser, Destroy, Fills, Start
<1>4. CASE MultipartParser(p)
  <2>1. tasks' = tasks /\ obj[p] # "kept"
    BY <1>4 DEF MultipartParser
  <2>2. \A i \in DOMAIN tasks'[p] : ~tasks'[p][i].untouched
    BY <2>1, NoneUntouched
  <2>3. \A i \in DOMAIN tasks'[p] : Current(obj'[p], parser'[p], pc'[p], seen'[p], disk, tasks'[p][i])
    BY <2>2 DEF Current
  <2> QED BY <1>2, <1>3, <2>3, SentOfOne
<1>5. CASE Destroy(p) \/ Fills(p)
  <2>1. tasks'[p] = [i \in DOMAIN tasks[p] |-> Touched(tasks[p][i])]
    BY <1>1, <1>5 DEF Destroy, Fills, Each, TypeOK
  <2>2. \A i \in DOMAIN tasks[p] : ~Touched(tasks[p][i]).untouched
    BY <1>1 DEF Touched, Task
  <2>3. \A i \in DOMAIN tasks'[p] : ~tasks'[p][i].untouched
    BY <2>1, <2>2
  <2>4. \A i \in DOMAIN tasks'[p] : Current(obj'[p], parser'[p], pc'[p], seen'[p], disk, tasks'[p][i])
    BY <2>3 DEF Current
  <2> QED BY <1>2, <1>3, <2>4, SentOfOne
<1>6. CASE Start(p)
  <2>1. UNCHANGED <<obj, parser, seen, tasks>> /\ pc'[p] = "waiting"
    BY <1>1, <1>6 DEF Start, TypeOK
  <2>2. \A i \in DOMAIN tasks'[p] : Current(obj'[p], parser'[p], pc'[p], seen'[p], disk, tasks'[p][i])
    BY <2>1 DEF SentInv, Current
  <2> QED BY <1>2, <1>3, <2>2, SentOfOne
<1> QED BY <1>4, <1>5, <1>6

LEMMA SentBegins ==
  ASSUME Inv, SentInv, NEW p \in Parsers,
         getReqSendTask(p) \/ \E params \in Lists(Params), files \in Lists(Files) : getCommonReqSendTask(p, params, files)
  PROVE  SentInv'
<1>1. TypeOK /\ parser[p] \in Parser
  BY DEF Inv, TypeOK
<1>2. CASE getReqSendTask(p)
  <2>1. /\ parser' = [parser EXCEPT ![p] = Begun(parser[p])] /\ seen' = [seen EXCEPT ![p] = SeenFirst(disk)]
        /\ pc' = [pc EXCEPT ![p] = "generating"] /\ UNCHANGED <<disk, obj, tasks>>
    BY <1>2 DEF getReqSendTask, Begin, Begun, SeenFirst
  <2>2. /\ Begun(parser[p]).params_ = parser[p].params_ /\ Begun(parser[p]).files_ = parser[p].files_
        /\ Begun(parser[p]).chunkFiles_ = parser[p].chunkFiles_
    BY <1>1 DEF Begun, Parser
  <2>3. \A n \in 1..Len(parser[p].files_) : SeenFirst(disk)[parser[p].files_[n]] = {disk[parser[p].files_[n]]}
    <3>1. parser[p].files_ \in Seq(Files)
      BY <1>1 DEF Parser
    <3> QED BY <3>1 DEF SeenFirst
  <2>4. parser'[p] = Begun(parser[p]) /\ seen'[p] = SeenFirst(disk) /\ pc'[p] = "generating"
    BY <1>1, <2>1 DEF TypeOK
  <2>5. \A i \in DOMAIN tasks'[p] : Current(obj'[p], parser'[p], pc'[p], seen'[p], disk, tasks'[p][i])
    <3> SUFFICES ASSUME NEW i \in DOMAIN tasks[p], tasks[p][i].untouched
                 PROVE  Current(obj[p], Begun(parser[p]), "generating", SeenFirst(disk), disk, tasks[p][i])
      <4>1. tasks'[p] = tasks[p] /\ obj'[p] = obj[p]
        BY <2>1
      <4>2. \A i \in DOMAIN tasks[p] :
              ~tasks[p][i].untouched =>
                Current(obj[p], Begun(parser[p]), "generating", SeenFirst(disk), disk, tasks[p][i])
        BY DEF Current
      <4> QED BY <2>4, <4>1, <4>2
    <3>1. Current(obj[p], parser[p], pc[p], seen[p], disk, tasks[p][i])
      BY DEF SentInv
    <3>2. \A b \in Body : MadeFrom(b, parser[p], disk) => MadeFrom(b, Begun(parser[p]), disk)
      BY <2>2 DEF MadeFrom
    <3>3. \E b \in Body : tasks[p][i].body = {b} /\ MadeFrom(b, Begun(parser[p]), disk)
      BY <3>1, <3>2 DEF Current
    <3> QED BY <2>2, <2>3, <3>1, <3>3 DEF Current
  <2> QED BY <1>1, <2>1, <2>5, SentOfOne DEF TypeOK
<1>3. CASE \E params \in Lists(Params), files \in Lists(Files) : getCommonReqSendTask(p, params, files)
  <2>1. tasks' = tasks /\ disk' = disk /\ obj[p] # "kept"
    BY <1>3 DEF getCommonReqSendTask
  <2>2. \A i \in DOMAIN tasks'[p] : ~tasks'[p][i].untouched
    BY <2>1, NoneUntouched
  <2>3. \A i \in DOMAIN tasks'[p] : Current(obj'[p], parser'[p], pc'[p], seen'[p], disk, tasks'[p][i])
    BY <2>2 DEF Current
  <2>4. \A q \in Parsers : q # p => obj'[q] = obj[q] /\ parser'[q] = parser[q] /\ pc'[q] = pc[q]
                                    /\ seen'[q] = seen[q] /\ tasks'[q] = tasks[q]
    BY <1>1, <1>3 DEF getCommonReqSendTask, Begin, TypeOK
  <2> QED BY <2>1, <2>3, <2>4, SentOfOne
<1> QED BY <1>2, <1>3

\* The bodies that are made from a parser and files that do not change are the same.
LEMMA MadeFromIsOne ==
  ASSUME NEW b \in Body, NEW c \in Body, NEW s \in Parser, NEW d, MadeFrom(b, s, d), MadeFrom(c, s, d)
  PROVE  b = c
<1>1. b.contents \in Seq(InBody) /\ c.contents \in Seq(InBody) /\ s.files_ \in Seq(Files)
  BY DEF Body, Parser, InBody
<1>2. b.contents = c.contents
  BY <1>1 DEF MadeFrom
<1>3. b = [params |-> b.params, files |-> b.files, contents |-> b.contents]
  BY DEF Body
<1>4. c = [params |-> c.params, files |-> c.files, contents |-> c.contents]
  BY DEF Body
<1> QED BY <1>2, <1>3, <1>4 DEF MadeFrom

\* So is what Finish has made, when each of its files was one thing alone.
LEMMA WholeIsMadeFrom ==
  ASSUME Inv, NEW p \in Parsers, pc[p] = "generating", Complete(p),
         \A n \in 1..Len(parser[p].files_) : Cardinality(seen[p][parser[p].files_[n]]) = 1
  PROVE  MadeFrom(parser[p].body_content_, parser[p], disk)
<1> DEFINE s == parser[p]
           b == s.body_content_
<1>1. Whole(p)
  BY CompleteIsWhole
<1>2. s.files_ \in Seq(Files) /\ b.files \in Seq(Files) /\ b.contents \in Seq(InBody)
      /\ Generated(s, reads[p], seen[p], disk)
  BY DEF Inv, TypeOK, Parser, Body, InBody, BodyInv, Sound
<1>3. ASSUME NEW n \in 1..Len(s.files_) PROVE b.contents[n] = disk[s.files_[n]]
  <2> DEFINE f == s.files_[n]
             v == seen[p][f]
  <2>1. f \in Files
    BY <1>2
  <2>2. IsFiniteSet(v) /\ disk[f] \in v /\ Cardinality(v) = 1
    BY <1>2, <2>1 DEF Generated
  <2>3. Possible(b.contents[n], v)
    BY <1>1, <1>2 DEF Whole
  <2> HIDE DEF f, v
  <2>4. PICK x : v = {x}
    BY <2>2, FS_Singleton
  <2>5. ~(Cardinality(v) > 1)
    BY <2>2
  <2> QED BY <2>2, <2>3, <2>4, <2>5 DEF Possible, f
<1>4. Len(b.contents) = Len(s.files_)
  BY <1>2 DEF Complete
<1> QED BY <1>1, <1>3, <1>4 DEF Whole, MadeFrom

LEMMA SentByGen ==
  ASSUME Inv, SentInv, NEW p \in Parsers, Collect(p) \/ Throw(p)
  PROVE  SentInv'
<1>1. TypeOK /\ parser[p] \in Parser /\ pc[p] = "generating"
  BY DEF Inv, TypeOK, Collect, Throw, Generating
<1>2. \A q \in Parsers : q # p => obj'[q] = obj[q] /\ parser'[q] = parser[q] /\ pc'[q] = pc[q]
                                  /\ seen'[q] = seen[q] /\ tasks'[q] = tasks[q]
  BY <1>1 DEF Collect, Throw, TypeOK
<1>3. disk' = disk /\ UNCHANGED <<obj, seen, tasks>>
  BY DEF Collect, Throw
<1>4. CASE Collect(p)
  <2>1. parser'[p].params_ = parser[p].params_ /\ parser'[p].files_ = parser[p].files_
        /\ parser'[p].chunkFiles_ = parser[p].chunkFiles_ /\ pc' = pc
    BY <1>1, <1>4 DEF Collect, TypeOK, Parser
  <2>2. \A b \in Body : MadeFrom(b, parser[p], disk) => MadeFrom(b, parser'[p], disk)
    BY <2>1 DEF MadeFrom
  <2>3. ASSUME NEW i \in DOMAIN tasks[p], tasks[p][i].untouched
        PROVE  Current(obj[p], parser'[p], pc[p], seen[p], disk, tasks[p][i])
    <3>1. Current(obj[p], parser[p], pc[p], seen[p], disk, tasks[p][i])
      BY DEF SentInv
    <3>2. \E b \in Body : tasks[p][i].body = {b} /\ MadeFrom(b, parser'[p], disk)
      BY <2>2, <2>3, <3>1 DEF Current
    <3> QED BY <2>1, <2>3, <3>1, <3>2 DEF Current
  <2>4. \A i \in DOMAIN tasks'[p] : Current(obj'[p], parser'[p], pc'[p], seen'[p], disk, tasks'[p][i])
    BY <1>3, <2>1, <2>3 DEF Current
  <2> QED BY <1>2, <1>3, <2>4, SentOfOne
\* Nothing throws while a task is untouched: no chunk was added, and every file
\* is what it was when it was read.
<1>5. CASE Throw(p)
  <2>1. ASSUME NEW i \in DOMAIN tasks[p] PROVE ~tasks[p][i].untouched
    <3> SUFFICES ASSUME tasks[p][i].untouched PROVE FALSE
      OBVIOUS
    <3> DEFINE n == NextPart(p)
               s == parser[p]
    <3>1. PICK b \in Body : MadeFrom(b, s, disk)
      BY DEF SentInv, Current
    <3>2. s.chunkFiles_ = 0 /\ \A m \in 1..Len(s.files_) : seen[p][s.files_[m]] = {disk[s.files_[m]]}
      BY <1>1 DEF SentInv, Current
    <3>3. ~Complete(p) /\ reads[p][n].at = "failed"
      BY <1>5, <3>2 DEF Throw, Parser
    <3>4. Generated(s, reads[p], seen[p], disk) /\ DOMAIN reads[p] = DOMAIN s.files_ /\ s.files_ \in Seq(Files)
          /\ s.body_content_.contents \in Seq(InBody)
      BY <1>1 DEF Inv, BodyInv, Sound, Parser, Body, InBody
    <3>5. n \in 1..Len(s.files_) /\ n \in DOMAIN reads[p]
      BY <3>3, <3>4 DEF Generated, Complete, NextPart
    <3> HIDE DEF n, s
    <3>6. Unreadable \in seen[p][s.files_[n]]
      BY <3>3, <3>4, <3>5 DEF Generated, Told
    <3>7. disk[s.files_[n]] = Unreadable
      BY <3>2, <3>5, <3>6
    <3>8. b.contents[n] = Unreadable
      BY <3>1, <3>5, <3>7 DEF MadeFrom
    <3>9. b.contents[n] \in InBody
      <4>1. b.contents \in Seq(InBody) /\ Len(b.contents) = Len(s.files_)
        BY <3>1 DEF Body, InBody, MadeFrom
      <4> QED BY <3>5, <4>1
    <3> QED BY <3>8, <3>9, ContentsAssumption DEF InBody, Unreadable, Torn
  <2>2. \A i \in DOMAIN tasks'[p] : Current(obj'[p], parser'[p], pc'[p], seen'[p], disk, tasks'[p][i])
    BY <1>3, <2>1 DEF Current
  <2> QED BY <1>2, <1>3, <2>2, SentOfOne
<1> QED BY <1>4, <1>5

LEMMA SentUnwinds ==
  ASSUME Inv, SentInv, NEW p \in Parsers, Unwind(p)
  PROVE  SentInv'
<1> DEFINE b == parser[p].body_content_
           ts == [i \in DOMAIN tasks[p] |-> Overwritten(tasks[p][i], b)]
<1>1. TypeOK /\ tasks[p] \in Seq(Task)
  BY DEF Inv, TypeOK
<1>2. \A i \in DOMAIN tasks[p] : ~tasks[p][i].untouched
  BY NoneUntouched DEF Unwind
<1>3. \A i \in DOMAIN tasks[p] : ~Overwritten(tasks[p][i], b).untouched
  BY <1>1, <1>2 DEF Overwritten, Task
<1>4. tasks' = [tasks EXCEPT ![p] = ts] \/ tasks' = tasks
  BY DEF Unwind, Each
<1>5. \A i \in DOMAIN tasks'[p] : ~tasks'[p][i].untouched
  BY <1>1, <1>2, <1>3, <1>4 DEF TypeOK
<1>6. \A i \in DOMAIN tasks'[p] : Current(obj'[p], parser'[p], pc'[p], seen'[p], disk, tasks'[p][i])
  BY <1>5 DEF Current
<1>7. \A q \in Parsers : q # p => obj'[q] = obj[q] /\ parser'[q] = parser[q] /\ pc'[q] = pc[q]
                                  /\ seen'[q] = seen[q] /\ tasks'[q] = tasks[q]
  <2> HIDE DEF ts
  <2> QED BY <1>1, <1>4 DEF Unwind, Forget, TypeOK
<1> QED BY <1>6, <1>7, SentOfOne DEF Unwind, Forget

LEMMA SentFinishes ==
  ASSUME Inv, SentInv, NEW p \in Parsers, Finish(p)
  PROVE  SentInv'
<1> DEFINE s == parser[p]
           b == s.body_content_
           t == NewTask(p, b)
           ts == [i \in DOMAIN tasks[p] |-> Overwritten(tasks[p][i], b)]
<1>1. TypeOK /\ tasks[p] \in Seq(Task) /\ s \in Parser /\ b \in Body /\ s.files_ \in Seq(Files)
      /\ pc[p] = "generating" /\ Complete(p) /\ s.chunkFiles_ = 0
  BY DEF Inv, TypeOK, Parser, Finish, Generating
<1>2. /\ pc' = [pc EXCEPT ![p] = "idle"] /\ seen' = [seen EXCEPT ![p] = NotSeen] /\ disk' = disk
      /\ tasks' = [tasks EXCEPT ![p] = Append(ts, t)]
      /\ IF obj[p] = "kept" THEN UNCHANGED <<obj, parser>>
         ELSE obj' = [obj EXCEPT ![p] = "none"] /\ parser' = [parser EXCEPT ![p] = NewParser]
  BY DEF Finish, Forget
\* The tasks from before: a body like theirs changes nothing.
<1>3. ASSUME NEW i \in DOMAIN tasks[p], tasks[p][i].untouched
      PROVE  /\ obj[p] = "kept" /\ Overwritten(tasks[p][i], b) = tasks[p][i]
             /\ Current(obj[p], s, "idle", NotSeen, disk, tasks[p][i])
  <2>1. Current(obj[p], s, "generating", seen[p], disk, tasks[p][i])
    BY <1>1 DEF SentInv
  <2>2. PICK c \in Body : tasks[p][i].body = {c} /\ MadeFrom(c, s, disk)
    BY <1>3, <2>1 DEF Current
  <2>3. \A n \in 1..Len(s.files_) : Cardinality(seen[p][s.files_[n]]) = 1
    <3>1. \A n \in 1..Len(s.files_) : seen[p][s.files_[n]] = {disk[s.files_[n]]}
      BY <1>3, <2>1 DEF Current
    <3> QED BY <3>1, FS_Singleton
  <2>4. MadeFrom(b, s, disk)
    BY <1>1, <2>3, WholeIsMadeFrom
  <2> HIDE DEF b, s
  <2>5. c = b
    BY <1>1, <2>2, <2>4, MadeFromIsOne
  <2>6. Overwritten(tasks[p][i], b) = tasks[p][i]
    BY <2>2, <2>5 DEF Overwritten
  <2>7. Current(obj[p], s, "idle", NotSeen, disk, tasks[p][i])
    BY <2>1 DEF Current
  <2> QED BY <1>3, <2>1, <2>6, <2>7 DEF Current
\* The new task.
<1>4. ASSUME t.untouched
      PROVE  obj[p] = "kept" /\ Current(obj[p], s, "idle", NotSeen, disk, t)
  <2>1. obj[p] = "kept" /\ \A f \in Range(s.files_) : Cardinality(seen[p][f]) = 1
    BY <1>4 DEF NewTask
  <2>2. \A n \in 1..Len(s.files_) : Cardinality(seen[p][s.files_[n]]) = 1
    BY <1>1, <2>1 DEF Range
  <2>3. MadeFrom(b, s, disk)
    BY <1>1, <2>2, WholeIsMadeFrom
  <2>4. t.body = {b} /\ t.sent = {}
    BY <2>1 DEF NewTask
  <2> HIDE DEF t, b, s
  <2> QED BY <1>1, <2>1, <2>3, <2>4 DEF Current
<1>5. \A i \in DOMAIN tasks[p] : Overwritten(tasks[p][i], b).untouched = tasks[p][i].untouched
  BY <1>1 DEF Overwritten, Task
<1>6. \A q \in Parsers : q # p => obj'[q] = obj[q] /\ parser'[q] = parser[q] /\ pc'[q] = pc[q]
                                  /\ seen'[q] = seen[q] /\ tasks'[q] = tasks[q]
  <2> HIDE DEF ts, t
  <2> QED BY <1>1, <1>2 DEF TypeOK
<1>7. ASSUME NEW i \in DOMAIN tasks'[p]
      PROVE  Current(obj'[p], parser'[p], pc'[p], seen'[p], disk, tasks'[p][i])
  <2>1. tasks'[p] = Append(ts, t) /\ pc'[p] = "idle" /\ seen'[p] = NotSeen
    <3> HIDE DEF ts, t
    <3> QED BY <1>1, <1>2 DEF TypeOK
  <2>2. obj[p] = "kept" => obj'[p] = obj[p] /\ parser'[p] = s
    BY <1>2
  <2>3. ts \in Seq(Task) /\ Len(ts) = Len(tasks[p]) /\ Len(tasks[p]) \in Nat /\ DOMAIN tasks[p] = 1..Len(tasks[p])
    <3>1. ts \in Seq(Task) /\ Len(ts) = Len(tasks[p])
      BY <1>1, OverwrittenTasks
    <3> QED BY <1>1, <3>1
  <2>4. \A j \in DOMAIN tasks[p] : ts[j] = Overwritten(tasks[p][j], b)
    OBVIOUS
  <2> HIDE DEF ts, t, b, s
  <2>5. DOMAIN Append(ts, t) = 1..Len(tasks[p]) + 1 /\ Append(ts, t)[Len(tasks[p]) + 1] = t
        /\ \A j \in 1..Len(tasks[p]) : Append(ts, t)[j] = ts[j]
    BY <2>3
  <2>6. CASE i = Len(tasks[p]) + 1
    BY <1>4, <2>1, <2>2, <2>5, <2>6 DEF Current
  <2>7. CASE i # Len(tasks[p]) + 1
    <3>1. i \in DOMAIN tasks[p] /\ tasks'[p][i] = Overwritten(tasks[p][i], b)
      BY <2>1, <2>3, <2>4, <2>5, <2>7
    <3> QED BY <1>3, <1>5, <2>1, <2>2, <3>1 DEF Current
  <2> QED BY <2>6, <2>7
<1> QED BY <1>2, <1>6, <1>7, SentOfOne

LEMMA SentByLibrary ==
  ASSUME Inv, SentInv, NEW p \in Parsers, Library(p)
  PROVE  SentInv'
<1>1. TypeOK /\ tasks[p] \in Seq(Task)
  BY DEF Inv, TypeOK
<1>2. CASE Answer(p)
  <2>1. tasks'[p] = <<>> /\ disk' = disk
    BY <1>1, <1>2 DEF Answer, TypeOK
  <2>2. \A q \in Parsers : q # p => obj'[q] = obj[q] /\ parser'[q] = parser[q] /\ pc'[q] = pc[q]
                                    /\ seen'[q] = seen[q] /\ tasks'[q] = tasks[q]
    BY <1>1, <1>2 DEF Answer, TypeOK
  <2>3. \A i \in DOMAIN tasks'[p] : Current(obj'[p], parser'[p], pc'[p], seen'[p], disk, tasks'[p][i])
    BY <2>1
  <2> QED BY <2>1, <2>2, <2>3, SentOfOne
<1>3. ASSUME NEW i \in DOMAIN tasks[p], Transmit(p, i) PROVE SentInv'
  <2>1. PICK m \in Memory(tasks[p][i]) : tasks' = [tasks EXCEPT ![p][i].sent = @ \cup {m}]
    BY <1>3 DEF Transmit
  <2> DEFINE t == [tasks[p][i] EXCEPT !.sent = tasks[p][i].sent \cup {m}]
  <2>2. UNCHANGED <<obj, parser, pc, seen, disk>>
    BY <1>3 DEF Transmit
  <2>3. /\ \A q \in Parsers : q # p => tasks'[q] = tasks[q]
        /\ tasks'[p] = [tasks[p] EXCEPT ![i] = t]
    BY <1>1, <2>1 DEF TypeOK
  <2>4. t.body = tasks[p][i].body /\ t.untouched = tasks[p][i].untouched /\ t.sent = tasks[p][i].sent \cup {m}
    BY <1>1 DEF Task
  <2> HIDE DEF t
  <2>5. ASSUME t.untouched PROVE Current(obj[p], parser[p], pc[p], seen[p], disk, t)
    <3>1. Current(obj[p], parser[p], pc[p], seen[p], disk, tasks[p][i])
      BY DEF SentInv
    <3>2. PICK b \in Body : tasks[p][i].body = {b} /\ MadeFrom(b, parser[p], disk)
      BY <2>4, <2>5, <3>1 DEF Current
    <3>3. m = "body"
      BY <2>1, <3>2 DEF Memory, Lost
    <3> QED BY <2>4, <2>5, <3>1, <3>2, <3>3 DEF Current
  <2>6. \A j \in DOMAIN tasks'[p] : Current(obj'[p], parser'[p], pc'[p], seen'[p], disk, tasks'[p][j])
    <3> SUFFICES ASSUME NEW j \in DOMAIN tasks[p]
                 PROVE  Current(obj[p], parser[p], pc[p], seen[p], disk, tasks'[p][j])
      BY <2>2, <2>3
    <3>1. CASE j = i
      BY <2>3, <2>5, <3>1 DEF Current
    <3>2. CASE j # i
      BY <2>3, <3>2 DEF SentInv
    <3> QED BY <3>1, <3>2
  <2> QED BY <2>2, <2>3, <2>6, SentOfOne
<1> QED BY <1>2, <1>3 DEF Library

LEMMA SentAndWrite ==
  ASSUME Inv, SentInv, NEW f \in Files, NEW x \in Contents \cup {Unreadable}, Write(f, x)
  PROVE  SentInv'
<1> SUFFICES ASSUME NEW p \in Parsers, NEW i \in DOMAIN tasks'[p], tasks'[p][i].untouched
             PROVE  Current(obj[p], parser[p], pc[p], seen'[p], disk', tasks'[p][i])
  <2>1. obj' = obj /\ parser' = parser /\ pc' = pc
    BY DEF Write
  <2>2. \A p \in Parsers : \A i \in DOMAIN tasks'[p] :
          ~tasks'[p][i].untouched => Current(obj[p], parser[p], pc[p], seen'[p], disk', tasks'[p][i])
    BY DEF Current
  <2> QED BY <2>1, <2>2 DEF SentInv
<1> DEFINE t == tasks[p][i]
           s == parser[p]
           v == IF pc[p] = "generating" THEN [seen[p] EXCEPT ![f] = @ \cup {x}] ELSE seen[p]
<1>1. s.files_ \in Seq(Files) /\ disk \in [Files -> Contents \cup {Unreadable}] /\ seen[p] \in Seen
      /\ tasks[p] \in Seq(Task)
  BY DEF Inv, TypeOK, Parser, Seen, OnDisk
<1>2. /\ i \in DOMAIN tasks[p] /\ seen'[p] = v /\ disk' = [disk EXCEPT ![f] = x]
      /\ tasks'[p][i] = IF \E b \in t.body : f \in Range(b.files) THEN Touched(t) ELSE t
  BY DEF Write
<1>3. tasks'[p][i] = t /\ ~\E b \in t.body : f \in Range(b.files)
  <2>1. t \in Task
    BY <1>1, <1>2
  <2>2. ~Touched(t).untouched
    BY <2>1 DEF Touched, Task
  <2> HIDE DEF t
  <2> QED BY <1>2, <2>2
<1>4. Current(obj[p], s, pc[p], seen[p], disk, t) /\ t.untouched
  BY <1>2, <1>3 DEF SentInv
<1>5. PICK b \in Body : t.body = {b} /\ MadeFrom(b, s, disk)
  BY <1>4 DEF Current
<1> HIDE DEF t, s
<1>6. \A n \in 1..Len(s.files_) : s.files_[n] # f /\ s.files_[n] \in Files
  <2>1. f \notin Range(s.files_)
    BY <1>3, <1>5 DEF MadeFrom
  <2> QED BY <1>1, <2>1 DEF Range
<1>7. \A n \in 1..Len(s.files_) : disk'[s.files_[n]] = disk[s.files_[n]] /\ v[s.files_[n]] = seen[p][s.files_[n]]
  BY <1>1, <1>2, <1>6 DEF Seen
<1> HIDE DEF v
<1>8. MadeFrom(b, s, disk')
  BY <1>5, <1>7 DEF MadeFrom
<1>9. Current(obj[p], s, pc[p], v, disk', t)
  BY <1>4, <1>5, <1>7, <1>8 DEF Current
<1> QED BY <1>2, <1>3, <1>9 DEF s

LEMMA SentStep == Inv /\ SentInv /\ [Next]_vars => SentInv'
<1> SUFFICES ASSUME Inv, SentInv, [Next]_vars PROVE SentInv'
  OBVIOUS
<1>1. CASE UNCHANGED vars
  BY <1>1 DEF vars, SentInv
<1>2. ASSUME NEW p \in Parsers, Caller(p) PROVE SentInv'
  <2>1. ASSUME MultipartParser(p) \/ Destroy(p) \/ Start(p) PROVE SentInv'
    <3>1. \A q \in Parsers : q # p => obj'[q] = obj[q] /\ parser'[q] = parser[q]
      BY <2>1 DEF MultipartParser, Destroy, Start, Inv, TypeOK
    <3> QED BY <2>1, <3>1, SentByCaller
  <2>2. ASSUME addChunkFile(p) \/ (\E y \in Params : addParameter(p, y)) \/ \E f \in Files : addFile(p, f)
        PROVE  SentInv'
    <3>1. Fills(p) /\ \A q \in Parsers : q # p => obj'[q] = obj[q] /\ parser'[q] = parser[q]
      BY <2>2 DEF addChunkFile, addParameter, addFile, Fills, Inv, TypeOK
    <3> QED BY <3>1, SentByCaller
  <2> QED BY <1>2, <2>1, <2>2, SentBegins DEF Caller
<1>3. ASSUME NEW p \in Parsers, GenBodyContent(p) PROVE SentInv'
  <2>1. ASSUME ChunkEnds(p) PROVE SentInv'
    BY <2>1 DEF ChunkEnds, Ends, SentInv
  <2> QED BY <1>3, <2>1, SentByGen, SentUnwinds, SentFinishes DEF GenBodyContent
<1>4. ASSUME NEW p \in Parsers, Reader(p) PROVE SentInv'
  <2>1. UNCHANGED <<disk, obj, parser, pc, seen, tasks>>
    BY <1>4 DEF Reader, Open, ReadFile
  <2> QED BY <2>1 DEF SentInv
<1>5. ASSUME NEW p \in Parsers, Library(p) PROVE SentInv'
  BY <1>5, SentByLibrary
<1>6. ASSUME NEW f \in Files, NEW c \in Contents \cup {Unreadable}, Write(f, c) PROVE SentInv'
  BY <1>6, SentAndWrite
<1> QED BY <1>1, <1>2, <1>3, <1>4, <1>5, <1>6 DEF Next

-----------------------------------------------------------------------------
(* What BodyService sees of each step: the calls, what the files of a call    *)
(* have been, and the bodies that are held.  That tasks of one parser hold    *)
(* one body, HeldInv, is what a write to a file needs: with it, the tasks that *)
(* lose their body are those that held the file.                              *)

\* The tasks of a parser have one body at most, and those of a parser that the
\* caller does not keep have none.
OneBody(S) == \A b \in S : S = {b}
HeldInv == \A p \in Parsers : OneBody(Held(p)) /\ (obj[p] # "kept" => Held(p) = {})

\* What BodyService sees of a step of p.
OtherViews(p) ==
  /\ disk' = disk
  /\ \A q \in Parsers : q # p =>
       /\ obj'[q] = obj[q] /\ parser'[q] = parser[q] /\ pc'[q] = pc[q] /\ seen'[q] = seen[q]
       /\ tasks'[q] = tasks[q]
wanteds == [p \in Parsers |-> Wanted(p)]
beens == [p \in Parsers |-> Been(p)]
helds == [p \in Parsers |-> Held(p)]

LEMMA ViewOfOne ==
  ASSUME NEW p \in Parsers, OtherViews(p)
  PROVE  /\ wanteds' = [wanteds EXCEPT ![p] = Wanted(p)']
         /\ beens' = [beens EXCEPT ![p] = Been(p)']
         /\ helds' = [helds EXCEPT ![p] = Held(p)']
<1>1. \A q \in Parsers : q # p => Wanted(q)' = Wanted(q) /\ Been(q)' = Been(q)
  BY DEF OtherViews, Wanted, Been
<1>2. \A q \in Parsers : q # p => Held(q)' = Held(q)
  BY DEF OtherViews, Held
<1>3. wanteds' = [q \in Parsers |-> Wanted(q)'] /\ beens' = [q \in Parsers |-> Been(q)']
      /\ helds' = [q \in Parsers |-> Held(q)']
  BY DEF wanteds, beens, helds
<1>4. wanteds' = [wanteds EXCEPT ![p] = Wanted(p)']
  BY <1>1, <1>3 DEF wanteds
<1>5. beens' = [beens EXCEPT ![p] = Been(p)']
  BY <1>1, <1>3 DEF beens
<1>6. helds' = [helds EXCEPT ![p] = Held(p)']
  BY <1>2, <1>3 DEF helds
<1> QED BY <1>4, <1>5, <1>6

LEMMA ServiceStutters ==
  ASSUME NEW p \in Parsers, OtherViews(p),
         Wanted(p)' = Wanted(p), Been(p)' = Been(p), Held(p)' = Held(p)
  PROVE  UNCHANGED Service!serviceVars
<1>1. wanteds' = wanteds /\ beens' = beens /\ helds' = helds
  BY ViewOfOne DEF wanteds, beens, helds
<1>2. disk' = disk
  BY DEF OtherViews
<1> QED BY <1>1, <1>2 DEF Service!serviceVars, wanteds, beens, helds

LEMMA CallerDisturbs ==
  ASSUME NEW p \in Parsers, OtherViews(p), pc[p] # "generating", pc'[p] # "generating",
         Held(p)' \subseteq Held(p)
  PROVE  Service!Disturb(p)
<1>1. Wanted(p) = {} /\ Wanted(p)' = {} /\ Been(p) = NotSeen /\ Been(p)' = NotSeen
  BY DEF Wanted, Been, NotSeen
<1>2. wanteds' = wanteds /\ beens' = beens
  BY <1>1, ViewOfOne DEF wanteds, beens
<1>3. Held(p)' \in SUBSET Held(p) /\ helds' = [helds EXCEPT ![p] = Held(p)']
  BY ViewOfOne
<1>4. wanteds[p] = {} /\ helds[p] = Held(p)
  BY <1>1 DEF wanteds, helds
<1>5. \E h \in SUBSET helds[p] : helds' = [helds EXCEPT ![p] = h]
  BY <1>3, <1>4
<1>6. disk' = disk
  BY DEF OtherViews
<1> QED BY <1>2, <1>4, <1>5, <1>6, Zenon DEF Service!Disturb, wanteds, beens, helds

LEMMA CallersFill ==
  ASSUME Inv, NEW p \in Parsers,
         \/ Destroy(p) \/ addChunkFile(p) \/ Answer(p)
         \/ \E x \in Params : addParameter(p, x)
         \/ \E f \in Files : addFile(p, f)
  PROVE  Service!Disturb(p) /\ OtherViews(p) /\ Held(p)' = {}
<1>1. TypeOK /\ tasks \in [Parsers -> Seq(Task)]
  BY DEF Inv, TypeOK
<1>2. OtherViews(p) /\ pc[p] # "generating" /\ pc'[p] # "generating"
  <2>1. CASE Answer(p)
    BY <1>1, <2>1 DEF OtherViews, Answer, TypeOK
  <2>2. CASE ~Answer(p)
    <3>1. /\ disk' = disk /\ pc[p] = "idle" /\ UNCHANGED <<pc, seen>>
          /\ tasks' = Each(p, Touched)
          /\ \E o, s : obj' = [obj EXCEPT ![p] = o] /\ parser' = [parser EXCEPT ![p] = s]
      <4>1. obj = [obj EXCEPT ![p] = obj[p]]
        BY <1>1 DEF TypeOK
      <4>2. \E o : obj' = [obj EXCEPT ![p] = o]
        BY <2>2, <4>1 DEF Destroy, addChunkFile, addParameter, addFile, Fills
      <4>3. \E s : parser' = [parser EXCEPT ![p] = s]
        BY <2>2, Zenon DEF Destroy, addChunkFile, addParameter, addFile
      <4> QED BY <2>2, <4>2, <4>3 DEF Destroy, addChunkFile, addParameter, addFile, Fills
    <3>2. \A q \in Parsers : q # p => tasks'[q] = tasks[q]
      BY <1>1, <3>1 DEF Each
    <3> QED BY <1>1, <3>1, <3>2 DEF OtherViews, TypeOK
  <2> QED BY <2>1, <2>2
<1>3. \A i \in DOMAIN tasks'[p] : tasks'[p][i].body = {}
  <2>1. CASE Answer(p)
    <3>1. tasks'[p] = <<>>
      BY <1>1, <2>1 DEF Answer
    <3>2. DOMAIN <<>> = {}
      OBVIOUS
    <3> QED BY <3>1, <3>2, Zenon
  <2>2. CASE ~Answer(p)
    <3>1. tasks' = Each(p, Touched)
      BY <2>2 DEF Destroy, addChunkFile, addParameter, addFile, Fills
    <3>2. tasks'[p] = [i \in DOMAIN tasks[p] |-> Touched(tasks[p][i])]
      BY <1>1, <3>1 DEF Each
    <3>3. \A i \in DOMAIN tasks[p] : Touched(tasks[p][i]).body = {}
      <4> SUFFICES ASSUME NEW i \in DOMAIN tasks[p] PROVE Touched(tasks[p][i]).body = {}
        OBVIOUS
      <4>1. tasks[p][i] \in Task
        BY <1>1
      <4> QED BY <4>1 DEF Touched, Task, Lost
    <3> HIDE DEF Touched
    <3> QED BY <3>2, <3>3
  <2> QED BY <2>1, <2>2
<1>4. Held(p)' = {}
  BY <1>3, Zenon DEF Held
<1> QED BY <1>2, <1>4, CallerDisturbs

LEMMA HeldOfOne ==
  ASSUME HeldInv, NEW p \in Parsers, OtherViews(p),
         Held(p)' \subseteq Held(p) \/ \E b : Held(p)' = {b},
         obj'[p] # "kept" => Held(p)' = {}
  PROVE  HeldInv'
<1> SUFFICES ASSUME NEW q \in Parsers PROVE OneBody(Held(q)') /\ (obj'[q] # "kept" => Held(q)' = {})
  BY DEF HeldInv, OneBody
<1>1. OneBody(Held(q)) /\ (obj[q] # "kept" => Held(q) = {})
  BY DEF HeldInv
<1>2. CASE q = p
  BY <1>1, <1>2 DEF OneBody
<1>3. CASE q # p
  <2>1. Held(q)' = Held(q) /\ obj'[q] = obj[q]
    BY <1>3 DEF OtherViews, Held
  <2> QED BY <1>1, <2>1
<1> QED BY <1>2, <1>3

\* A call begins.
LEMMA BeginAsks ==
  ASSUME Inv, HeldInv, NEW p \in Parsers, NEW s \in Parser, Begin(p, s), pc[p] = "idle",
         NEW o \in {"kept", "local"}, o = "kept" \/ obj[p] # "kept", obj' = [obj EXCEPT ![p] = o], UNCHANGED <<disk, tasks>>
  PROVE  Service!Ask(p) /\ HeldInv'
<1> DEFINE t == parser'[p]
           w == [params |-> t.params_, files |-> t.files_, chunks |-> t.chunkFiles_ > 0,
                 kept |-> obj'[p] = "kept"]
<1>1. TypeOK /\ disk \in [Files -> OnDisk]
  BY DEF Inv, TypeOK, OnDisk
<1>2. /\ parser' = [parser EXCEPT ![p] = Begun(s)] /\ pc' = [pc EXCEPT ![p] = "generating"]
      /\ seen' = [seen EXCEPT ![p] = SeenFirst(disk)] /\ Begun(s) \in Parser
  BY <1>1, BeginSound DEF Begin, Begun, SeenFirst
<1>3. OtherViews(p)
  BY <1>1, <1>2 DEF OtherViews, TypeOK
<1>4. pc'[p] = "generating" /\ t \in Parser /\ seen'[p] = SeenFirst(disk) /\ tasks'[p] = tasks[p]
  BY <1>1, <1>2 DEF TypeOK
<1>5. Wanted(p) = {} /\ Wanted(p)' = {w} /\ Been(p)' = SeenFirst(disk) /\ Held(p)' = Held(p)
  BY <1>4 DEF Wanted, Been, Held
<1>6. w \in Service!Request
  <2>1. t.params_ \in Seq(Params) /\ t.files_ \in Seq(Files)
    BY <1>4 DEF Parser
  <2>2. (t.chunkFiles_ > 0) \in BOOLEAN /\ (obj'[p] = "kept") \in BOOLEAN
    OBVIOUS
  <2> HIDE DEF t
  <2> QED BY <2>1, <2>2 DEF Service!Request
<1> HIDE DEF w
<1>7. wanteds' = [wanteds EXCEPT ![p] = {w}] /\ wanteds[p] = {} /\ wanteds'[p] = {w}
  BY <1>3, <1>5, ViewOfOne DEF wanteds
<1>8. beens' = [beens EXCEPT ![p] = [f \in Files |-> {disk[f]}]]
  BY <1>3, <1>5, ViewOfOne DEF SeenFirst
<1>9. helds' = helds
  BY <1>3, <1>5, ViewOfOne DEF helds
<1>10. \E x \in wanteds'[p] : x \in Service!Request /\ wanteds' = [wanteds EXCEPT ![p] = {x}]
  BY <1>6, <1>7
<1>11. disk' = disk
  OBVIOUS
<1>12. Service!Ask(p)
  BY <1>7, <1>8, <1>9, <1>10, <1>11, Zenon DEF Service!Ask, wanteds, beens, helds
<1>13. HeldInv'
  <2>1. obj'[p] = o
    BY <1>1 DEF TypeOK
  <2> QED BY <1>3, <1>5, <2>1, HeldOfOne DEF HeldInv
<1> QED BY <1>12, <1>13

LEMMA CallerAsks ==
  ASSUME Inv, HeldInv, NEW p \in Parsers,
         getReqSendTask(p) \/ \E params \in Lists(Params), files \in Lists(Files) : getCommonReqSendTask(p, params, files)
  PROVE  Service!Ask(p) /\ HeldInv'
<1>1. CASE getReqSendTask(p)
  <2>1. parser[p] \in Parser /\ obj[p] = "kept" /\ obj = [obj EXCEPT ![p] = obj[p]]
    BY <1>1 DEF Inv, TypeOK, getReqSendTask
  <2>2. obj' = [obj EXCEPT ![p] = "kept"] /\ Begin(p, parser[p]) /\ pc[p] = "idle" /\ UNCHANGED <<disk, tasks>>
    BY <1>1, <2>1 DEF getReqSendTask
  <2>3. obj[p] = "kept"
    BY <1>1 DEF getReqSendTask
  <2> QED BY <2>1, <2>2, BeginAsks
<1>2. CASE \E params \in Lists(Params), files \in Lists(Files) : getCommonReqSendTask(p, params, files)
  <2>1. PICK params \in Lists(Params), files \in Lists(Files) : getCommonReqSendTask(p, params, files)
    BY <1>2
  <2> DEFINE s == [NewParser EXCEPT !.params_ = params, !.files_ = files]
  <2>2. params \in Seq(Params) /\ files \in Seq(Files)
    BY BoundsAssumption DEF Lists
  <2>3. s \in Parser
    BY <2>2, Fresh, BoundsAssumption DEF NewParser, Parser
  <2>4. obj[p] # "kept" /\ obj' = [obj EXCEPT ![p] = "local"] /\ Begin(p, s) /\ pc[p] = "idle" /\ UNCHANGED <<disk, tasks>>
    BY <2>1 DEF getCommonReqSendTask
  <2> HIDE DEF s
  <2> QED BY <2>3, <2>4, BeginAsks
<1> QED BY <1>1, <1>2

LEMMA UnseenOfOne ==
  ASSUME HeldInv, NEW p \in Parsers, OtherViews(p), obj'[p] = obj[p] \/ obj'[p] = "kept",
         Wanted(p)' = Wanted(p), Been(p)' = Been(p), Held(p)' = Held(p)
  PROVE  UNCHANGED Service!serviceVars /\ HeldInv'
<1>1. UNCHANGED Service!serviceVars
  BY ServiceStutters
<1>2. HeldInv'
  BY HeldOfOne DEF HeldInv
<1> QED BY <1>1, <1>2

\* Steps of which BodyService sees nothing.
LEMMA UnseenSteps ==
  ASSUME Inv, HeldInv, NEW p \in Parsers,
         \/ MultipartParser(p) \/ Start(p) \/ Collect(p)
         \/ \E i \in DOMAIN reads[p] : Open(p, i) \/ ReadFile(p, i)
         \/ \E i \in DOMAIN tasks[p] : Transmit(p, i)
  PROVE  UNCHANGED Service!serviceVars /\ HeldInv'
<1>1. TypeOK
  BY DEF Inv
<1>2. CASE MultipartParser(p)
  <2>1. pc[p] = "idle" /\ pc' = pc /\ seen' = seen /\ tasks' = tasks
    BY <1>2 DEF MultipartParser
  <2>2. OtherViews(p)
    BY <1>1, <1>2 DEF OtherViews, MultipartParser, TypeOK
  <2>3. Wanted(p)' = Wanted(p) /\ Been(p)' = Been(p) /\ Held(p)' = Held(p)
    BY <2>1 DEF Wanted, Been, Held, NotSeen
  <2>4. obj'[p] = "kept"
    BY <1>1, <1>2 DEF MultipartParser, TypeOK
  <2> QED BY <2>2, <2>3, <2>4, UnseenOfOne
<1>3. CASE Start(p)
  <2>1. OtherViews(p)
    BY <1>1, <1>3 DEF OtherViews, Start, TypeOK
  <2>2. pc[p] = "idle" /\ pc'[p] = "waiting" /\ obj' = obj /\ tasks' = tasks
    BY <1>1, <1>3 DEF Start, TypeOK
  <2>3. Wanted(p)' = Wanted(p) /\ Been(p)' = Been(p) /\ Held(p)' = Held(p)
    BY <2>2 DEF Wanted, Been, Held, NotSeen
  <2> QED BY <2>1, <2>2, <2>3, UnseenOfOne
<1>4. CASE Collect(p)
  <2>1. PICK b : parser' = [parser EXCEPT ![p].body_content_ = b]
    BY <1>4, Zenon DEF Collect
  <2>2. UNCHANGED <<disk, obj, pc, seen, tasks>>
    BY <1>4 DEF Collect
  <2>3. /\ parser'[p].params_ = parser[p].params_ /\ parser'[p].files_ = parser[p].files_
        /\ parser'[p].chunkFiles_ = parser[p].chunkFiles_
        /\ \A q \in Parsers : q # p => parser'[q] = parser[q]
    BY <1>1, <2>1 DEF TypeOK, Parser
  <2>4. OtherViews(p)
    BY <2>2, <2>3 DEF OtherViews
  <2>5. Wanted(p)' = Wanted(p) /\ Been(p)' = Been(p) /\ Held(p)' = Held(p)
    BY <2>2, <2>3 DEF Wanted, Been, Held, NotSeen
  <2> QED BY <2>2, <2>4, <2>5, UnseenOfOne
<1>5. CASE \E i \in DOMAIN reads[p] : Open(p, i) \/ ReadFile(p, i)
  <2>1. UNCHANGED <<disk, obj, parser, pc, seen, tasks>>
    BY <1>5 DEF Open, ReadFile
  <2>2. OtherViews(p) /\ Wanted(p)' = Wanted(p) /\ Been(p)' = Been(p) /\ Held(p)' = Held(p)
    BY <2>1 DEF OtherViews, Wanted, Been, Held, NotSeen
  <2> QED BY <2>1, <2>2, UnseenOfOne
<1>6. CASE \E i \in DOMAIN tasks[p] : Transmit(p, i)
  <2>1. PICK i \in DOMAIN tasks[p] : Transmit(p, i)
    BY <1>6
  <2>2. PICK m \in Memory(tasks[p][i]) : tasks' = [tasks EXCEPT ![p][i].sent = @ \cup {m}]
    BY <2>1 DEF Transmit
  <2>3. UNCHANGED <<disk, obj, parser, pc, seen>>
    BY <2>1 DEF Transmit
  <2>4. tasks[p] \in Seq(Task) /\ tasks \in [Parsers -> Seq(Task)]
    BY <1>1 DEF TypeOK
  <2> DEFINE x == [tasks[p][i] EXCEPT !.sent = tasks[p][i].sent \cup {m}]
             ts == [tasks[p] EXCEPT ![i] = x]
  <2>5. tasks' = [tasks EXCEPT ![p] = ts]
    BY <2>2
  <2>6. x.body = tasks[p][i].body
    <3>1. tasks[p][i] \in Task
      BY <2>4
    <3> QED BY <3>1 DEF Task
  <2> HIDE DEF x
  <2>7. DOMAIN ts = DOMAIN tasks[p] /\ \A j \in DOMAIN tasks[p] : ts[j].body = tasks[p][j].body
    BY <2>4, <2>6
  <2> HIDE DEF ts
  <2>8. tasks'[p] = ts /\ \A q \in Parsers : q # p => tasks'[q] = tasks[q]
    BY <2>4, <2>5
  <2>9. OtherViews(p) /\ Wanted(p)' = Wanted(p) /\ Been(p)' = Been(p)
    BY <2>3, <2>8 DEF OtherViews, Wanted, Been, NotSeen
  <2>10. Held(p)' = Held(p)
    BY <2>7, <2>8 DEF Held
  <2> QED BY <2>3, <2>9, <2>10, UnseenOfOne
<1> QED BY <1>2, <1>3, <1>4, <1>5, <1>6

\* A call throws.
LEMMA ThrowRefuses ==
  ASSUME Inv, HeldInv, NEW p \in Parsers, Throw(p)
  PROVE  (\E w \in wanteds[p] : Service!Refuse(p, w)) /\ HeldInv'
<1> DEFINE w == [params |-> parser[p].params_, files |-> parser[p].files_,
                 chunks |-> parser[p].chunkFiles_ > 0, kept |-> obj[p] = "kept"]
<1>1. /\ TypeOK /\ parser[p] \in Parser /\ pc[p] = "generating"
      /\ Sound(parser[p], pc[p], reads[p], seen[p], disk)
  BY DEF Inv, TypeOK, BodyInv, Throw, Generating
<1>2. UNCHANGED <<disk, obj, parser, seen, tasks>> /\ pc' = [pc EXCEPT ![p] = "unwinding"]
  BY DEF Throw
<1>3. OtherViews(p) /\ pc'[p] = "unwinding"
  BY <1>1, <1>2 DEF OtherViews, TypeOK
<1>4. /\ Wanted(p) = {w} /\ Wanted(p)' = {} /\ Been(p) = seen[p] /\ Been(p)' = NotSeen
      /\ Held(p)' = Held(p)
  BY <1>1, <1>2, <1>3 DEF Wanted, Been, Held, NotSeen
<1>5. w.chunks \/ \E f \in Range(w.files) : Unreadable \in seen[p][f]
  <2>1. CASE Complete(p)
    BY <1>1, <2>1 DEF Throw
  <2>2. CASE ~Complete(p)
    <3> DEFINE n == NextPart(p)
    <3>1. /\ Len(parser[p].body_content_.contents) \in Nat /\ parser[p].files_ \in Seq(Files)
          /\ Generated(parser[p], reads[p], seen[p], disk) /\ DOMAIN reads[p] = DOMAIN parser[p].files_
      BY <1>1 DEF Parser, Body, Sound
    <3>2. n \in DOMAIN parser[p].files_
      BY <2>2, <3>1 DEF NextPart, Complete, Generated
    <3>3. reads[p][n].at = "failed"
      BY <2>2 DEF Throw
    <3>4. Unreadable \in seen[p][parser[p].files_[n]]
      BY <3>1, <3>2, <3>3 DEF Generated, Told
    <3> HIDE DEF n
    <3> QED BY <3>2, <3>4 DEF Range
  <2> QED BY <2>1, <2>2
<1> HIDE DEF w
<1>6. wanteds' = [wanteds EXCEPT ![p] = {}] /\ wanteds[p] = {w}
  BY <1>3, <1>4, ViewOfOne DEF wanteds
<1>7. beens' = [beens EXCEPT ![p] = Service!Nothing] /\ beens[p] = seen[p]
  BY <1>3, <1>4, ViewOfOne DEF beens, Service!Nothing, NotSeen
<1>8. helds' = helds /\ disk' = disk
  BY <1>2, <1>3, <1>4, ViewOfOne DEF helds
<1>9. w.chunks \/ \E f \in Range(w.files) : Unreadable \in beens[p][f]
  BY <1>5, <1>7
<1>10. Service!Refuse(p, w)
  BY <1>6, <1>7, <1>8, <1>9, Zenon DEF Service!Refuse, Service!Over, Service!Range, Range, wanteds, beens, helds
<1>11. HeldInv'
  BY <1>2, <1>3, <1>4, HeldOfOne DEF HeldInv
<1> QED BY <1>6, <1>10, <1>11

\* The futures of a call that threw are gone, and part of its body is written.
LEMMA UnwindDisturbs ==
  ASSUME Inv, HeldInv, NEW p \in Parsers, Unwind(p)
  PROVE  Service!Disturb(p) /\ HeldInv'
<1>1. TypeOK /\ tasks \in [Parsers -> Seq(Task)] /\ pc[p] = "unwinding"
  BY DEF Inv, TypeOK, Unwind
<1>2. pc' = [pc EXCEPT ![p] = "idle"] /\ seen' = [seen EXCEPT ![p] = NotSeen] /\ disk' = disk
  BY DEF Unwind, Forget
<1>3. CASE obj[p] = "kept"
  <2> DEFINE b == parser[p].body_content_
  <2>1. /\ tasks' = Each(p, LAMBDA t : Overwritten(t, b))
        /\ UNCHANGED <<obj, parser>>
    BY <1>3 DEF Unwind
  <2> HIDE DEF b
  <2>2. tasks' = [tasks EXCEPT ![p] = [i \in DOMAIN tasks[p] |-> Overwritten(tasks[p][i], b)]]
    BY <2>1 DEF Each
  <2>3. OtherViews(p) /\ pc'[p] = "idle"
    BY <1>1, <1>2, <2>1, <2>2 DEF OtherViews, TypeOK
  <2>4. tasks'[p] = [i \in DOMAIN tasks[p] |-> Overwritten(tasks[p][i], b)]
    BY <1>1, <2>2
  <2>5. \A i \in DOMAIN tasks[p] : Overwritten(tasks[p][i], b).body \subseteq tasks[p][i].body
    <3> SUFFICES ASSUME NEW i \in DOMAIN tasks[p]
                 PROVE  Overwritten(tasks[p][i], b).body \subseteq tasks[p][i].body
      OBVIOUS
    <3>1. tasks[p][i] \in Task
      BY <1>1
    <3> QED BY <3>1 DEF Overwritten, Task, Lost
  <2>6. Held(p)' \subseteq Held(p)
    <3> HIDE DEF Overwritten
    <3> QED BY <2>4, <2>5 DEF Held
  <2>7. HeldInv'
    BY <1>3, <2>1, <2>3, <2>6, HeldOfOne
  <2> QED BY <1>1, <2>3, <2>6, <2>7, CallerDisturbs
<1>4. CASE obj[p] # "kept"
  <2>1. /\ tasks' = tasks /\ obj' = [obj EXCEPT ![p] = "none"]
        /\ parser' = [parser EXCEPT ![p] = NewParser]
    BY <1>4 DEF Unwind
  <2>2. OtherViews(p) /\ pc'[p] = "idle"
    BY <1>1, <1>2, <2>1 DEF OtherViews, TypeOK
  <2>3. Held(p)' = Held(p) /\ Held(p) = {}
    BY <1>4, <2>1 DEF Held, HeldInv
  <2>4. HeldInv'
    BY <2>2, <2>3, HeldOfOne
  <2> QED BY <1>1, <2>2, <2>3, <2>4, CallerDisturbs
<1> QED BY <1>3, <1>4

\* A set of more than one has two.
LEMMA TwoOfThem ==
  ASSUME NEW s, IsFiniteSet(s), Cardinality(s) > 1
  PROVE  \E y, z \in s : y # z
<1> SUFFICES ASSUME \A y, z \in s : y = z PROVE FALSE
  OBVIOUS
<1>1. s # {}
  BY FS_EmptySet
<1>2. PICK y \in s : TRUE
  BY <1>1
<1>3. s = {y}
  BY <1>2
<1> QED BY <1>3, FS_Singleton

\* A call gives a body.
LEMMA FinishGives ==
  ASSUME Inv, HeldInv, NEW p \in Parsers, Finish(p)
  PROVE  (\E w \in wanteds[p] : Service!Give(p, w)) /\ HeldInv'
<1> DEFINE b == parser[p].body_content_
           w == [params |-> parser[p].params_, files |-> parser[p].files_,
                 chunks |-> parser[p].chunkFiles_ > 0, kept |-> obj[p] = "kept"]
           x == [params |-> w.params, files |-> w.files, contents |-> b.contents]
<1>1. TypeOK /\ tasks \in [Parsers -> Seq(Task)] /\ pc[p] = "generating" /\ parser[p] \in Parser /\ b \in Body
  BY DEF Inv, TypeOK, Finish, Generating, Parser
<1>2. /\ pc' = [pc EXCEPT ![p] = "idle"] /\ seen' = [seen EXCEPT ![p] = NotSeen] /\ disk' = disk
      /\ tasks' = [tasks EXCEPT ![p] =
           Append([i \in DOMAIN tasks[p] |-> Overwritten(tasks[p][i], b)], NewTask(p, b))]
      /\ IF obj[p] = "kept" THEN UNCHANGED <<obj, parser>>
         ELSE obj' = [obj EXCEPT ![p] = "none"] /\ parser' = [parser EXCEPT ![p] = NewParser]
      /\ parser[p].chunkFiles_ = 0
  BY DEF Finish, Forget
<1>3. OtherViews(p) /\ pc'[p] = "idle"
  BY <1>1, <1>2 DEF OtherViews, TypeOK
<1>4. Whole(p)
  BY <1>1, CompleteIsWhole DEF Finish
<1>5. x = b /\ DOMAIN b.contents = DOMAIN w.files /\ b.contents \in Seq(InBody)
      /\ \A n \in DOMAIN w.files : Possible(b.contents[n], seen[p][w.files[n]])
  BY <1>1, <1>4 DEF Whole, Body, InBody
<1>6. Held(p)' = IF w.kept THEN {x} ELSE {}
  <2> DEFINE ts == [i \in DOMAIN tasks[p] |-> Overwritten(tasks[p][i], b)]
             new == NewTask(p, b)
  <2>1. new.body = IF w.kept THEN {b} ELSE {}
    BY DEF NewTask, Lost
  <2>2. \A i \in DOMAIN tasks[p] : ts[i].body \subseteq {b} /\ ts[i].body \subseteq tasks[p][i].body
    <3> SUFFICES ASSUME NEW i \in DOMAIN tasks[p]
                 PROVE  ts[i].body \subseteq {b} /\ ts[i].body \subseteq tasks[p][i].body
      OBVIOUS
    <3>1. tasks[p][i] \in Task
      BY <1>1
    <3> HIDE DEF b
    <3> QED BY <3>1 DEF Overwritten, Task, Lost
  <2>3. ts \in Seq(Task) /\ DOMAIN ts = DOMAIN tasks[p]
    BY <1>1, OverwrittenTasks
  <2>4. tasks'[p] = Append(ts, new)
    BY <1>1, <1>2
  <2> HIDE DEF ts, new, b
  <2>5. /\ \A i \in DOMAIN ts : i \in DOMAIN Append(ts, new) /\ Append(ts, new)[i] = ts[i]
        /\ Len(ts) + 1 \in DOMAIN Append(ts, new) /\ Append(ts, new)[Len(ts) + 1] = new
        /\ \A i \in DOMAIN Append(ts, new) : i \in DOMAIN ts \/ i = Len(ts) + 1
    BY <2>3
  <2> DEFINE us == Append(ts, new)
  <2> HIDE DEF us
  <2>6. /\ \A i \in DOMAIN us : us[i].body \subseteq {b}
        /\ w.kept => \E i \in DOMAIN us : us[i].body = {b}
    BY <2>1, <2>2, <2>3, <2>5 DEF us
  <2>7. ~w.kept => \A i \in DOMAIN us : us[i].body = {}
    <3>1. ~w.kept => Held(p) = {}
      BY DEF HeldInv
    <3>2. ~w.kept => \A i \in DOMAIN tasks[p] : tasks[p][i].body = {}
      BY <3>1 DEF Held
    <3> QED BY <2>1, <2>2, <2>3, <2>5, <3>2 DEF us
  <2>8. Held(p)' = UNION {us[i].body : i \in DOMAIN us}
    BY <2>4 DEF Held, us
  <2>9. CASE w.kept
    <3> HIDE DEF w, x
    <3> QED BY <1>5, <2>6, <2>8, <2>9
  <2>10. CASE ~w.kept
    <3> HIDE DEF w, x
    <3> QED BY <2>7, <2>8, <2>10
  <2> QED BY <2>9, <2>10
<1>7. /\ Wanted(p) = {w} /\ Wanted(p)' = {} /\ Been(p) = seen[p] /\ Been(p)' = NotSeen
  BY <1>1, <1>3 DEF Wanted, Been, NotSeen
<1>8. ~w.chunks
  <2>1. (0 > 0) = FALSE
    OBVIOUS
  <2> QED BY <1>2, <2>1
<1>9. HeldInv'
  <2>1. obj'[p] # "kept" => ~w.kept
    BY <1>1, <1>2 DEF TypeOK
  <2> HIDE DEF w, x
  <2>2. Held(p)' \subseteq Held(p) \/ \E y : Held(p)' = {y}
    BY <1>6
  <2> QED BY <1>3, <1>6, <2>1, <2>2, HeldOfOne
<1> DEFINE contents == b.contents
<1>10. contents \in [DOMAIN w.files -> InBody]
  BY <1>5
<1>11. \A n \in DOMAIN w.files : Service!Readable(contents[n], seen[p][w.files[n]])
  <2>1. parser[p].files_ \in Seq(Files) /\ \A f \in Files : IsFiniteSet(seen[p][f])
    BY <1>1 DEF Inv, BodyInv, Sound, Generated, Parser
  <2>2. \A n \in DOMAIN w.files : IsFiniteSet(seen[p][w.files[n]])
    BY <2>1
  <2> HIDE DEF w, contents, b, x
  <2> SUFFICES ASSUME NEW n \in DOMAIN w.files PROVE Service!Readable(contents[n], seen[p][w.files[n]])
    OBVIOUS
  <2>3. Possible(contents[n], seen[p][w.files[n]])
    BY <1>5 DEF contents
  <2> QED BY <2>2, <2>3, TwoOfThem DEF Possible, Service!Readable
<1>12. x = [params |-> w.params, files |-> w.files, contents |-> contents]
  OBVIOUS
<1> HIDE DEF w, b, contents, x
<1>13. wanteds' = [wanteds EXCEPT ![p] = {}] /\ wanteds[p] = {w}
  BY <1>3, <1>7, ViewOfOne DEF wanteds
<1>14. beens' = [beens EXCEPT ![p] = Service!Nothing] /\ beens[p] = seen[p]
  BY <1>3, <1>7, ViewOfOne DEF beens, Service!Nothing, NotSeen
<1>15. helds' = [helds EXCEPT ![p] =
         IF w.kept THEN {[params |-> w.params, files |-> w.files, contents |-> contents]} ELSE {}]
  BY <1>3, <1>6, <1>12, ViewOfOne
<1>16. Service!Give(p, w)
  <2>1. \A n \in DOMAIN w.files : Service!Readable(contents[n], beens[p][w.files[n]])
    BY <1>11, <1>14
  <2>2. contents \in [DOMAIN w.files -> Contents \cup {Torn}]
    BY <1>10 DEF InBody
  <2>3. disk' = disk
    BY <1>2
  <2> QED BY <1>8, <1>13, <1>14, <1>15, <2>1, <2>2, <2>3, Zenon
         DEF Service!Give, Service!Over, wanteds, beens, helds
<1> QED BY <1>9, <1>13, <1>16

\* The process ends.
LEMMA EndBreaksDown ==
  ASSUME NEW p \in Parsers, ChunkEnds(p)
  PROVE  Service!BreakDown /\ HeldInv'
<1>1. /\ disk' = disk
      /\ \A q \in Parsers : pc'[q] = "idle" /\ tasks'[q] = <<>>
  BY DEF ChunkEnds, Ends
<1>2. \A q \in Parsers : Wanted(q)' = {} /\ Been(q)' = NotSeen
  BY <1>1 DEF Wanted, Been, NotSeen
<1>3. \A q \in Parsers : Held(q)' = {}
  <2>1. DOMAIN <<>> = {}
    OBVIOUS
  <2> QED BY <1>1, <2>1, Zenon DEF Held
<1>4. /\ wanteds' = [c \in Parsers |-> {}] /\ beens' = [c \in Parsers |-> Service!Nothing]
      /\ helds' = [c \in Parsers |-> {}]
  BY <1>2, <1>3 DEF wanteds, beens, helds, Service!Nothing, NotSeen
<1>5. HeldInv'
  BY <1>3 DEF HeldInv, OneBody
<1> QED BY <1>1, <1>4, <1>5, Zenon DEF Service!BreakDown, wanteds, beens, helds

\* Another program writes a file.
LEMMA WriteDisturbs ==
  ASSUME Inv, HeldInv, NEW f \in Files, NEW x \in OnDisk, Write(f, x)
  PROVE  Service!Write(f, x) /\ HeldInv'
<1>1. TypeOK /\ tasks \in [Parsers -> Seq(Task)] /\ seen \in [Parsers -> Seen]
  BY DEF Inv, TypeOK, Seen, OnDisk
<1>2. /\ disk' = [disk EXCEPT ![f] = x] /\ UNCHANGED <<obj, parser, pc>>
      /\ \A p \in Parsers :
           seen'[p] = IF pc[p] = "generating" THEN [seen[p] EXCEPT ![f] = seen[p][f] \cup {x}] ELSE seen[p]
  BY <1>1 DEF Write, Seen
<1>3. \A p \in Parsers : Wanted(p)' = Wanted(p)
  BY <1>2 DEF Wanted
<1>4. \A p \in Parsers : Been(p)' = IF Wanted(p) = {} THEN Been(p) ELSE [Been(p) EXCEPT ![f] = @ \cup {x}]
  <2> SUFFICES ASSUME NEW p \in Parsers
               PROVE  Been(p)' = IF Wanted(p) = {} THEN Been(p) ELSE [Been(p) EXCEPT ![f] = @ \cup {x}]
    OBVIOUS
  <2>1. (Wanted(p) = {}) <=> pc[p] # "generating"
    BY DEF Wanted
  <2> QED BY <1>2, <2>1 DEF Been, NotSeen
<1>5. ASSUME NEW p \in Parsers
      PROVE  Held(p)' = {b \in Held(p) : f \notin Range(b.files)}
  <2> DEFINE Spoilt(t) == \E b \in t.body : f \in Range(b.files)
  <2>1. tasks'[p] = [i \in DOMAIN tasks[p] |-> IF Spoilt(tasks[p][i]) THEN Touched(tasks[p][i]) ELSE tasks[p][i]]
    BY DEF Write
  <2>2. \A i \in DOMAIN tasks[p] : tasks[p][i].body \subseteq Held(p)
    BY DEF Held
  <2>3. \A b, c \in Held(p) : b = c
    BY DEF HeldInv, OneBody
  <2>4. ASSUME NEW i \in DOMAIN tasks[p]
        PROVE  tasks'[p][i].body = {b \in tasks[p][i].body : f \notin Range(b.files)}
    <3>1. tasks[p][i] \in Task
      BY <1>1
    <3>2. Touched(tasks[p][i]).body = {}
      BY <3>1 DEF Touched, Task, Lost
    <3>3. \A b, c \in tasks[p][i].body : b = c
      BY <2>2, <2>3
    <3> HIDE DEF Touched
    <3>4. CASE Spoilt(tasks[p][i])
      <4>1. tasks'[p][i].body = {}
        BY <2>1, <3>2, <3>4
      <4>2. \A b \in tasks[p][i].body : f \in Range(b.files)
        BY <3>3, <3>4
      <4> QED BY <4>1, <4>2
    <3>5. CASE ~Spoilt(tasks[p][i])
      <4>1. tasks'[p][i].body = tasks[p][i].body
        BY <2>1, <3>5
      <4> QED BY <3>5, <4>1
    <3> QED BY <3>4, <3>5
  <2>5. DOMAIN tasks'[p] = DOMAIN tasks[p]
    BY <2>1
  <2> QED BY <2>4, <2>5 DEF Held
<1>6. wanteds' = wanteds
  BY <1>3 DEF wanteds
<1>7. beens' = [c \in Parsers |-> IF wanteds[c] = {} THEN beens[c] ELSE [beens[c] EXCEPT ![f] = @ \cup {x}]]
  BY <1>4 DEF wanteds, beens
<1>8. helds' = [c \in Parsers |-> {b \in helds[c] : f \notin Range(b.files)}]
  BY <1>5 DEF helds
<1>9. HeldInv'
  <2> SUFFICES ASSUME NEW p \in Parsers
               PROVE  OneBody(Held(p)') /\ (obj'[p] # "kept" => Held(p)' = {})
    BY DEF HeldInv, OneBody
  <2>1. OneBody(Held(p)) /\ (obj[p] # "kept" => Held(p) = {})
    BY DEF HeldInv
  <2>2. obj'[p] = obj[p]
    BY <1>2
  <2> QED BY <1>5, <2>1, <2>2 DEF OneBody
<1>10. Service!Write(f, x)
  BY <1>2, <1>6, <1>7, <1>8, Zenon DEF Service!Write, Service!Range, Range, wanteds, beens, helds
<1> QED BY <1>9, <1>10

\* Every step is one of BodyService, or unseen.
LEMMA StepsOfTheService ==
  ASSUME Inv, HeldInv, Next
  PROVE  (Service!Next \/ UNCHANGED Service!serviceVars) /\ HeldInv'
<1>1. ASSUME NEW p \in Parsers, Service!Ask(p) \/ Service!Disturb(p) PROVE Service!Next
  BY <1>1, Zenon DEF Service!Next
<1>2. ASSUME NEW p \in Parsers, NEW w \in wanteds[p], Service!Give(p, w) \/ Service!Refuse(p, w)
      PROVE  Service!Next
  BY <1>2, Zenon DEF Service!Next, wanteds
<1>3. CASE \E p \in Parsers : Caller(p)
  <2> SUFFICES ASSUME NEW p \in Parsers, Caller(p)
               PROVE  (Service!Next \/ UNCHANGED Service!serviceVars) /\ HeldInv'
    BY <1>3
  <2>1. CASE \/ Destroy(p) \/ addChunkFile(p)
             \/ \E x \in Params : addParameter(p, x)
             \/ \E f \in Files : addFile(p, f)
    BY <1>1, <2>1, CallersFill, HeldOfOne
  <2>2. CASE MultipartParser(p) \/ Start(p)
    BY <2>2, UnseenSteps
  <2>3. CASE getReqSendTask(p) \/ \E params \in Lists(Params), files \in Lists(Files) : getCommonReqSendTask(p, params, files)
    BY <1>1, <2>3, CallerAsks
  <2> QED BY <2>1, <2>2, <2>3 DEF Caller
<1>4. CASE \E p \in Parsers : GenBodyContent(p)
  <2> SUFFICES ASSUME NEW p \in Parsers, GenBodyContent(p)
               PROVE  (Service!Next \/ UNCHANGED Service!serviceVars) /\ HeldInv'
    BY <1>4
  <2>1. CASE Collect(p)
    BY <2>1, UnseenSteps
  <2>2. CASE Throw(p)
    BY <1>2, <2>2, ThrowRefuses
  <2>3. CASE ChunkEnds(p)
    <3>1. Service!BreakDown /\ HeldInv'
      BY <2>3, EndBreaksDown
    <3> QED BY <3>1 DEF Service!Next
  <2>4. CASE Unwind(p)
    BY <1>1, <2>4, UnwindDisturbs
  <2>5. CASE Finish(p)
    BY <1>2, <2>5, FinishGives
  <2> QED BY <2>1, <2>2, <2>3, <2>4, <2>5 DEF GenBodyContent
<1>5. CASE \E p \in Parsers : Reader(p)
  BY <1>5, UnseenSteps DEF Reader
<1>6. CASE \E p \in Parsers : Library(p)
  <2> SUFFICES ASSUME NEW p \in Parsers, Library(p)
               PROVE  (Service!Next \/ UNCHANGED Service!serviceVars) /\ HeldInv'
    BY <1>6
  <2>1. CASE Answer(p)
    BY <1>1, <2>1, CallersFill, HeldOfOne
  <2>2. CASE \E i \in DOMAIN tasks[p] : Transmit(p, i)
    BY <2>2, UnseenSteps
  <2> QED BY <2>1, <2>2 DEF Library
<1>7. CASE \E f \in Files, x \in OnDisk : Write(f, x)
  <2>1. PICK f \in Files, x \in OnDisk : Write(f, x)
    BY <1>7
  <2>2. Service!Write(f, x) /\ HeldInv'
    BY <2>1, WriteDisturbs
  <2>3. Service!Next
    BY <2>2 DEF Service!Next, OnDisk
  <2> QED BY <2>2, <2>3
<1> QED BY <1>3, <1>4, <1>5, <1>6, <1>7 DEF Next, OnDisk

LEMMA ServiceBegins ==
  ASSUME Init
  PROVE  Service!Init /\ HeldInv
<1>1. /\ disk \in [Files -> Contents \cup {Unreadable}]
      /\ \A p \in Parsers : pc[p] = "idle" /\ tasks[p] = <<>>
  BY DEF Init
<1>2. \A p \in Parsers : Wanted(p) = {} /\ Been(p) = NotSeen
  BY <1>1 DEF Wanted, Been
<1>3. \A p \in Parsers : Held(p) = {}
  <2>1. DOMAIN <<>> = {}
    OBVIOUS
  <2> QED BY <1>1, <2>1, Zenon DEF Held
<1>4. wanteds = [c \in Parsers |-> {}] /\ beens = [c \in Parsers |-> Service!Nothing] /\ helds = [c \in Parsers |-> {}]
  BY <1>2, <1>3 DEF wanteds, beens, helds, Service!Nothing, NotSeen
<1>5. HeldInv
  BY <1>3 DEF HeldInv, OneBody
<1> QED BY <1>1, <1>4, <1>5, Zenon DEF Service!Init, wanteds, beens, helds

-----------------------------------------------------------------------------
(* The theorems. *)

\* The states of the model have their types.
THEOREM BodiesTyped == Spec => []TypeOK
<1>1. Inv /\ [Next]_vars => Inv'
  BY StepInv DEF Kept
<1>2. Inv => TypeOK
  BY DEF Inv
<1> QED BY InitInv, <1>1, <1>2, PTL DEF Spec

\* GenBodyContent (multipart_parser.cpp) makes bodies that are complete and in
\* order, for any number of files and whichever thread ends first.
THEOREM BodiesComplete == Spec => BodyComplete
<1>1. Inv /\ [Next]_vars => Inv'
  BY StepInv DEF Kept
<1>2. Inv /\ [Next]_vars =>
        [\A p \in Parsers : Len(tasks'[p]) > Len(tasks[p]) =>
           LET b == parser[p].body_content_ IN
           /\ b.params = parser[p].params_ /\ b.files = parser[p].files_
           /\ DOMAIN b.contents = DOMAIN b.files
           /\ \A n \in DOMAIN b.files : Possible(b.contents[n], seen[p][b.files[n]])]_vars
  BY StepInv DEF Kept, TasksWhole, Whole
<1> QED BY InitInv, <1>1, <1>2, PTL DEF Spec, BodyComplete

\* No thread that reads a file outlives the call or the names it reads from
\* (the futures of multipart_parser.cpp), however the call ends.
THEOREM NamesStay == Spec => FilesStay
<1>1. Inv /\ [Next]_vars => Inv'
  BY StepInv DEF Kept
<1>2. Inv /\ [Next]_vars =>
        [\A p \in Parsers : Reading(p) # {} /\ process' = "running" =>
           pc'[p] # "idle" /\ parser'[p].files_ = parser[p].files_]_vars
  BY StepInv DEF Kept, FilesKept
<1> QED BY InitInv, <1>1, <1>2, PTL DEF Spec, FilesStay

\* A task that is sent has the body it was made with, however many tasks are made
\* from its parser, as long as the parser and the files stay as they are: the
\* memory of the one body (httpreq_ways.cpp) is written with the same bytes.
THEOREM UntouchedIsSent == Spec => []SendsItsBody
<1>1. Init => SentInv
  BY DEF Init, SentInv
<1>2. Inv /\ SentInv /\ [Next]_vars => Inv' /\ SentInv'
  BY StepInv, SentStep DEF Kept
<1>3. SentInv => SendsItsBody
  BY DEF SentInv, Current, SendsItsBody
<1> QED BY InitInv, <1>1, <1>2, <1>3, PTL DEF Spec

\* For any number of callers, files, threads and tasks, a parser keeps what
\* BodyService promises: MultipartParser::GenBodyContent and the functions of
\* HttpReqWays that make a task of what it generates.
THEOREM BodiesImplementService == Spec => ImplementsBodyService
<1>1. Init => Service!Init /\ HeldInv
  BY ServiceBegins
<1>2. Inv /\ HeldInv /\ [Next]_vars => HeldInv' /\ [Service!Next]_(Service!serviceVars)
  <2> SUFFICES ASSUME Inv, HeldInv, [Next]_vars
               PROVE  HeldInv' /\ (Service!Next \/ UNCHANGED Service!serviceVars)
    OBVIOUS
  <2>1. CASE Next
    BY <2>1, StepsOfTheService
  <2>2. CASE UNCHANGED vars
    <3>1. wanteds' = wanteds /\ beens' = beens /\ helds' = helds /\ disk' = disk
      BY <2>2 DEF vars, wanteds, beens, helds, Wanted, Been, Held
    <3>2. UNCHANGED Service!serviceVars
      BY <3>1, Zenon DEF Service!serviceVars, wanteds, beens, helds
    <3>3. HeldInv'
      BY <2>2 DEF vars, HeldInv, OneBody, Held
    <3> QED BY <3>2, <3>3
  <2> QED BY <2>1, <2>2
<1>3. Inv /\ [Next]_vars => Inv'
  BY StepInv DEF Kept
<1> QED BY InitInv, <1>1, <1>2, <1>3, PTL DEF Spec, ImplementsBodyService, Service!Spec
=============================================================================
