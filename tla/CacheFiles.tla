------------------------------ MODULE CacheFiles ------------------------------
(***************************************************************************)
(* The response cache as files: an entry <key>.json per answer, written    *)
(* under the temporary name <key>.tmp and renamed, by any number of        *)
(* processes that share a directory, are killed and start again.           *)
(*                                                                         *)
(* Within a process get and put are synchronous, so a process is at one    *)
(* file operation at a time; several of its requests may be out at once.   *)
(***************************************************************************)
EXTENDS Naturals, FiniteSets

CONSTANTS
  Procs,
  Requests,   \* [model, sample, messages] that are asked, and [id, timeout] of one delivery
  Inodes,
  None,
  Pending,    \* no answer yet
  Torn,       \* text that is not the whole of one answer
  MaxPaid     \* bound on the answers providers give

Modes == {"read_write", "read_only", "refresh", "off"}
Reads(m) == m \in {"read_write", "read_only"}
Writes(m) == m \in {"read_write", "refresh"}

\* Mutant of KeyOf: the messages are taken for the sample's own, and left out.
KeyWithoutMessages(r) == [model |-> r.model, sample |-> r.sample]

\* request_hash: every field but the two of the delivery.
KeyOf(r) == [model |-> r.model, sample |-> r.sample, messages |-> r.messages]

Keys == {KeyOf(r) : r \in Requests}
Answers == [request : Requests, n : 1..MaxPaid]
AnswersTo(k) == {a \in Answers : KeyOf(a.request) = k}

\* One request asks what another asks, whenever and however patiently.
AsksTheSame(r, s) == \A field \in {"model", "sample", "messages"} : r[field] = s[field]
Places ==
  {"off", "idle", "looking", "opening", "reading", "returned", "writing", "written", "clearing"}

ASSUME CacheAssumption ==
  /\ MaxPaid \in Nat
  /\ None \notin Inodes /\ None \notin Answers /\ None \notin Keys
  /\ Pending \notin Answers /\ Pending # None
  /\ Torn \notin Answers

VARIABLES
  at, mode,   \* where each process is, and its cache mode
  asked,      \* its requests a provider is answering
  request,    \* the one it looks up or saves
  answer,     \* what it found, or is to save
  fd,         \* the file it has open
  todo,       \* the keys a clear has still to unlink
  tmp, entry, \* the inodes of <key>.tmp and <key>.json, or None
  content,    \* of an inode: its text, and who has had it open to write at the same time
  paid,       \* answers given so far
  raced,      \* history: the keys two processes have written at once
  seen        \* history: what the key a process looks up held since it began

proc == <<at, mode, asked, request, answer, fd, todo>>
files == <<tmp, entry, content>>
vars == <<proc, files, paid, raced, seen>>

-----------------------------------------------------------------------------
(* What the files hold. *)

Key(p) == KeyOf(request[p])
Looking == {"looking", "opening", "reading", "returned"}
Putting == {"writing", "written"}

\* Mutant of Parsed: what does not parse is returned all the same.
Unparsed(text) == text

\* What a reader of the entry finds; a text that does not parse is a miss.
Parsed(text) == IF text = Torn THEN None ELSE text
Stored(k) == IF entry[k] = None THEN None ELSE Parsed(content[entry[k]].text)

Others(p, k) == {q \in Procs \ {p} : at[q] \in Putting /\ Key(q) = k}

InUse ==
  {tmp[k] : k \in Keys} \cup {entry[k] : k \in Keys} \cup {fd[p] : p \in Procs}

Watching ==
  seen' = [p \in Procs |->
    IF at'[p] \notin Looking THEN {}
    ELSE (IF at[p] \in Looking THEN seen[p] ELSE {}) \cup {Stored(Key(p))'}]

-----------------------------------------------------------------------------
(* A process, and what it does between its files. *)

Start(p) ==
  /\ at[p] = "off"
  /\ at' = [at EXCEPT ![p] = "idle"]
  /\ \E m \in Modes : mode' = [mode EXCEPT ![p] = m]
  /\ UNCHANGED <<asked, request, answer, fd, todo, files, paid, raced>>

\* However it ends, the files stay as they are.
Ends(p) ==
  /\ at' = [at EXCEPT ![p] = "off"]
  /\ asked' = [asked EXCEPT ![p] = {}]
  /\ answer' = [answer EXCEPT ![p] = None]
  /\ fd' = [fd EXCEPT ![p] = None]
  /\ todo' = [todo EXCEPT ![p] = {}]
  /\ mode' = [mode EXCEPT ![p] = "off"]
  /\ UNCHANGED request

Kill(p) ==
  /\ at[p] # "off"
  /\ Ends(p)
  /\ UNCHANGED <<files, paid, raced>>

CallFails(p, r) ==
  /\ at[p] = "idle" /\ r \in asked[p]
  /\ asked' = [asked EXCEPT ![p] = @ \ {r}]
  /\ UNCHANGED <<at, mode, request, answer, fd, todo, files, paid, raced>>

-----------------------------------------------------------------------------
(* get *)

Bypass(p, r) ==
  /\ at[p] = "idle" /\ r \notin asked[p] /\ ~Reads(mode[p])
  /\ asked' = [asked EXCEPT ![p] = @ \cup {r}]
  /\ UNCHANGED <<at, mode, request, answer, fd, todo, files, paid, raced>>

Get(p, r) ==
  /\ at[p] = "idle" /\ r \notin asked[p] /\ Reads(mode[p])
  /\ at' = [at EXCEPT ![p] = "looking"]
  /\ request' = [request EXCEPT ![p] = r]
  /\ answer' = [answer EXCEPT ![p] = Pending]
  /\ UNCHANGED <<mode, asked, fd, todo, files, paid, raced>>

Found(p, a) ==
  /\ at' = [at EXCEPT ![p] = "returned"]
  /\ answer' = [answer EXCEPT ![p] = a]
  /\ fd' = [fd EXCEPT ![p] = None]

\* path.is_file()
IsFile(p) ==
  /\ at[p] = "looking"
  /\ IF entry[Key(p)] = None THEN Found(p, None)
     ELSE at' = [at EXCEPT ![p] = "opening"] /\ UNCHANGED <<answer, fd>>
  /\ UNCHANGED <<mode, asked, request, todo, files, paid, raced>>

\* A file that is gone by now is a miss as well.
OpenEntry(p) ==
  /\ at[p] = "opening"
  /\ IF entry[Key(p)] = None THEN Found(p, None)
     ELSE /\ at' = [at EXCEPT ![p] = "reading"]
          /\ fd' = [fd EXCEPT ![p] = entry[Key(p)]]
          /\ UNCHANGED answer
  /\ UNCHANGED <<mode, asked, request, todo, files, paid, raced>>

Read(p) ==
  /\ at[p] = "reading"
  /\ Found(p, Parsed(content[fd[p]].text))
  /\ UNCHANGED <<mode, asked, request, todo, files, paid, raced>>

\* On a miss the provider is called.
Return(p) ==
  /\ at[p] = "returned"
  /\ at' = [at EXCEPT ![p] = "idle"]
  /\ asked' = [asked EXCEPT ![p] = IF answer[p] = None THEN @ \cup {request[p]} ELSE @]
  /\ answer' = [answer EXCEPT ![p] = None]
  /\ UNCHANGED <<mode, request, fd, todo, files, paid, raced>>

-----------------------------------------------------------------------------
(* put *)

Answered(p, r) ==
  /\ at[p] = "idle" /\ r \in asked[p] /\ paid < MaxPaid
  /\ paid' = paid + 1
  /\ asked' = [asked EXCEPT ![p] = @ \ {r}]

NotWritten(p, r) ==
  /\ Answered(p, r) /\ ~Writes(mode[p])
  /\ UNCHANGED <<at, mode, request, answer, fd, todo, files, raced>>

\* Mutant of TemporaryFile: the entry itself is opened to be written.
EntryItself(k, i) == IF entry[k] = None THEN i \notin InUse ELSE i = entry[k]

\* The file <key>.tmp is there, from another process or one that died, or it is made.
TemporaryFile(k, i) == IF tmp[k] = None THEN i \notin InUse ELSE i = tmp[k]

\* write_text opens it, which truncates it.
OpenTmp(p, r, i) ==
  /\ Answered(p, r) /\ Writes(mode[p])
  /\ TemporaryFile(KeyOf(r), i)
  /\ at' = [at EXCEPT ![p] = "writing"]
  /\ request' = [request EXCEPT ![p] = r]
  /\ answer' = [answer EXCEPT ![p] = [request |-> r, n |-> paid + 1]]
  /\ fd' = [fd EXCEPT ![p] = i]
  /\ tmp' = [tmp EXCEPT ![KeyOf(r)] = i]
  /\ content' = [content EXCEPT ![i] =
       [text |-> Torn, by |-> {p} \cup {q \in Procs : at[q] = "writing" /\ fd[q] = i}]]
  /\ raced' = IF Others(p, KeyOf(r)) = {} THEN raced ELSE raced \cup {KeyOf(r)}
  /\ UNCHANGED <<mode, todo, entry>>

WritePart(p) ==
  /\ at[p] = "writing"
  /\ content' = [content EXCEPT ![fd[p]].text = Torn]
  /\ UNCHANGED <<proc, tmp, entry, paid, raced>>

\* Two who write one inode write over each other.
Write(p) ==
  /\ at[p] = "writing"
  /\ \E text \in {answer[p]} \cup (IF content[fd[p]].by = {p} THEN {} ELSE {Torn}) :
       content' = [content EXCEPT ![fd[p]].text = text]
  /\ at' = [at EXCEPT ![p] = "written"]
  /\ fd' = [fd EXCEPT ![p] = None]
  /\ UNCHANGED <<mode, asked, request, answer, todo, tmp, entry, paid, raced>>

\* Mutant of Unlinked: the link is copied, the temporary name stays.
Linked(k) == tmp

\* A rename takes the temporary name away.
Unlinked(k) == [tmp EXCEPT ![k] = None]

\* Whatever has the temporary name now becomes the entry.
Rename(p) ==
  /\ at[p] = "written" /\ tmp[Key(p)] # None
  /\ entry' = [entry EXCEPT ![Key(p)] = tmp[Key(p)]]
  /\ tmp' = Unlinked(Key(p))
  /\ at' = [at EXCEPT ![p] = "idle"]
  /\ answer' = [answer EXCEPT ![p] = None]
  /\ UNCHANGED <<mode, asked, request, fd, todo, content, paid, raced>>

\* Another process has renamed it already: the exception ends this run.
RenameFails(p) ==
  /\ at[p] = "written" /\ tmp[Key(p)] = None
  /\ Ends(p)
  /\ UNCHANGED <<files, paid, raced>>

-----------------------------------------------------------------------------
(* cache clear, a process of its own *)

StartClear(p) ==
  /\ at[p] = "off"
  /\ at' = [at EXCEPT ![p] = "clearing"]
  /\ todo' = [todo EXCEPT ![p] = {k \in Keys : entry[k] # None}]
  /\ UNCHANGED <<mode, asked, request, answer, fd, files, paid, raced>>

Unlink(p, k) ==
  /\ at[p] = "clearing" /\ k \in todo[p] /\ entry[k] # None
  /\ entry' = [entry EXCEPT ![k] = None]
  /\ todo' = [todo EXCEPT ![p] = @ \ {k}]
  /\ UNCHANGED <<at, mode, asked, request, answer, fd, tmp, content, paid, raced>>

\* Nothing is left to do, or a listed file is gone and its unlink raises.
EndClear(p) ==
  /\ at[p] = "clearing" /\ (todo[p] = {} \/ \E k \in todo[p] : entry[k] = None)
  /\ Ends(p)
  /\ UNCHANGED <<files, paid, raced>>

-----------------------------------------------------------------------------
Init ==
  /\ at = [p \in Procs |-> "off"] /\ mode = [p \in Procs |-> "off"]
  /\ asked = [p \in Procs |-> {}]
  /\ request \in [Procs -> Requests]
  /\ answer = [p \in Procs |-> None] /\ fd = [p \in Procs |-> None]
  /\ todo = [p \in Procs |-> {}]
  /\ tmp = [k \in Keys |-> None] /\ entry = [k \in Keys |-> None]
  /\ content = [i \in Inodes |-> [text |-> Torn, by |-> {}]]
  /\ paid = 0 /\ raced = {}
  /\ seen = [p \in Procs |-> {}]

Step(p) ==
  \/ Start(p) \/ Kill(p) \/ StartClear(p) \/ EndClear(p)
  \/ IsFile(p) \/ OpenEntry(p) \/ Read(p) \/ Return(p)
  \/ WritePart(p) \/ Write(p) \/ Rename(p) \/ RenameFails(p)
  \/ \E r \in Requests :
       \/ CallFails(p, r) \/ Bypass(p, r) \/ Get(p, r) \/ NotWritten(p, r)
       \/ \E i \in Inodes : OpenTmp(p, r, i)
  \/ \E k \in Keys : Unlink(p, k)

Next == (\E p \in Procs : Step(p)) /\ Watching

Spec == Init /\ [][Next]_vars

-----------------------------------------------------------------------------
(* Properties. *)

TypeOK ==
  /\ at \in [Procs -> Places] /\ mode \in [Procs -> Modes]
  /\ asked \in [Procs -> SUBSET Requests]
  /\ request \in [Procs -> Requests]
  /\ answer \in [Procs -> Answers \cup {None, Pending}]
  /\ fd \in [Procs -> Inodes \cup {None}]
  /\ todo \in [Procs -> SUBSET Keys]
  /\ tmp \in [Keys -> Inodes \cup {None}] /\ entry \in [Keys -> Inodes \cup {None}]
  /\ content \in [Inodes -> [text : Answers \cup {Torn}, by : SUBSET Procs]]
  /\ paid \in 0..MaxPaid
  /\ raced \subseteq Keys
  /\ seen \in [Procs -> SUBSET (Answers \cup {None})]

\* A key that no two processes have written at once has a whole entry or none, however
\* many processes were killed, wherever they were (cache.py:71-73).
EntryIsWhole ==
  \A k \in Keys \ raced : entry[k] # None => content[entry[k]].text \in Answers

\* Even where files are torn and shared, what a get returns is an answer to a request
\* that differs in its delivery at most (request_hash, cache.py:44-58).
HitsAreGenuine ==
  \A p \in Procs : at[p] = "returned" /\ answer[p] # None =>
    answer[p] \in Answers /\ AsksTheSame(answer[p].request, request[p])

\* The promise of the docstring as it stands: "a killed process never leaves a torn cache
\* entry" (cache.py:71-72).
NoTornEntry ==
  \A k \in Keys : entry[k] # None /\ (\A p \in Procs : at[p] = "off") =>
    content[entry[k]].text \in Answers

\* The cache implements the abstract one: a get returns what the key held at some moment
\* of it, and nothing is lost but by a clear, unless two processes wrote the key at once.
store == [k \in Keys |-> Stored(k)]
Clearing == {p \in Procs : at[p] = "clearing"}
Asking == [p \in Procs |-> IF at[p] \in Looking THEN Key(p) ELSE None]
Told == [p \in Procs |-> IF at[p] \in Looking THEN answer[p] ELSE None]

Atomic == INSTANCE AtomicCache WITH
  clearing <- Clearing, disputed <- raced, asking <- Asking, told <- Told

CacheIsAtomic == Atomic!Spec
=============================================================================
