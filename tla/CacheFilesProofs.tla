--------------------------- MODULE CacheFilesProofs ---------------------------
(***************************************************************************)
(* What holds of CacheFiles for any processes, requests, inodes and number *)
(* of answers: whole entries, genuine hits, and that it implements         *)
(* AtomicCache.                                                            *)
(***************************************************************************)
EXTENDS CacheFiles, TLAPS

-----------------------------------------------------------------------------
(* The invariant. *)

\* What a process holds belongs to the key it works on.
Holder(p) ==
  /\ fd[p] # None <=> at[p] \in {"writing", "reading"}
  /\ \A k \in Keys : fd[p] # None /\ (fd[p] = tmp[k] \/ fd[p] = entry[k]) => k = Key(p)
  /\ fd[p] # None => content[fd[p]].text \in AnswersTo(Key(p)) \cup {Torn}
  /\ at[p] \in Putting => answer[p] \in AnswersTo(Key(p))
  /\ at[p] \in {"looking", "opening", "reading"} => answer[p] = Pending
  /\ at[p] = "returned" => answer[p] \in AnswersTo(Key(p)) \cup {None}

\* What a reader has seen, and is about to see unless its key is raced for.
Reader(p) ==
  /\ at[p] \in Looking => Stored(Key(p)) \in seen[p]
  /\ at[p] \notin Looking => seen[p] = {}
  /\ at[p] = "reading" /\ Key(p) \notin raced =>
       /\ fd[p] # tmp[Key(p)]
       /\ content[fd[p]].text \in Answers /\ content[fd[p]].text \in seen[p]
  /\ at[p] = "returned" /\ Key(p) \notin raced => answer[p] \in seen[p]

\* An inode has one name, and is read and written for one key.
Apart ==
  /\ \A j, k \in Keys : tmp[j] # None => tmp[j] # entry[k]
  /\ \A j, k \in Keys : tmp[j] # None /\ tmp[j] = tmp[k] => j = k
  /\ \A j, k \in Keys : entry[j] # None /\ entry[j] = entry[k] => j = k
  /\ \A p, q \in Procs : fd[p] # None /\ fd[p] = fd[q] => Key(p) = Key(q)

\* The text under a key's names answers it.
Texts(k) ==
  /\ tmp[k] # None => content[tmp[k]].text \in AnswersTo(k) \cup {Torn}
  /\ entry[k] # None => content[entry[k]].text \in AnswersTo(k) \cup {Torn}

\* A key that was never raced for has one writer at most, whose text the temporary name
\* has, and a whole entry.
Alone(k) ==
  k \notin raced =>
    /\ \A p, q \in Procs : at[p] \in Putting /\ at[q] \in Putting /\ Key(p) = k /\ Key(q) = k => p = q
    /\ \A p \in Procs : at[p] \in Putting /\ Key(p) = k =>
         /\ tmp[k] # None
         /\ at[p] = "writing" => fd[p] = tmp[k] /\ content[tmp[k]].by = {p}
         /\ at[p] = "written" => content[tmp[k]].text = answer[p]
    /\ entry[k] # None => content[entry[k]].text \in Answers

Inv ==
  /\ TypeOK
  /\ \A p \in Procs : Holder(p)
  /\ \A p \in Procs : Reader(p)
  /\ Apart
  /\ \A k \in Keys : Texts(k)
  /\ \A k \in Keys : Alone(k)

-----------------------------------------------------------------------------
LEMMA KeyTypes ==
  /\ \A r \in Requests : KeyOf(r) \in Keys
  /\ \A k : AnswersTo(k) \subseteq Answers
BY DEF Keys, AnswersTo

LEMMA KeyOfProc ==
  ASSUME TypeOK, NEW p \in Procs
  PROVE  Key(p) \in Keys
BY KeyTypes DEF TypeOK, Key

LEMMA StoredTypes ==
  ASSUME TypeOK, NEW k \in Keys
  PROVE  /\ Stored(k) \in Answers \cup {None}
         /\ Texts(k) => Stored(k) \in AnswersTo(k) \cup {None}
<1>1. entry[k] # None => content[entry[k]].text \in Answers \cup {Torn}
  BY DEF TypeOK
<1> QED BY <1>1 DEF Stored, Parsed, Texts

LEMMA InitInv == Init => Inv
<1> SUFFICES ASSUME Init PROVE Inv
  OBVIOUS
<1>1. TypeOK
  BY CacheAssumption DEF Init, TypeOK, Modes, Places
<1>2. \A p \in Procs : Holder(p) /\ Reader(p)
  BY DEF Init, Holder, Reader, Putting, Looking
<1>3. Apart /\ \A k \in Keys : Texts(k) /\ Alone(k)
  BY DEF Init, Apart, Texts, Alone, Putting
<1> QED BY <1>1, <1>2, <1>3 DEF Inv

\* History keeps its type, and what was seen stays seen.
LEMMA SeenTypes ==
  ASSUME Watching, TypeOK,
         request' \in [Procs -> Requests],
         entry' \in [Keys -> Inodes \cup {None}],
         content' \in [Inodes -> [text : Answers \cup {Torn}, by : SUBSET Procs]]
  PROVE  /\ seen' \in [Procs -> SUBSET (Answers \cup {None})]
         /\ \A p \in Procs : at'[p] \in Looking => Stored(Key(p))' \in seen'[p]
         /\ \A p \in Procs : at'[p] \notin Looking => seen'[p] = {}
         /\ \A p \in Procs : at[p] \in Looking /\ at'[p] \in Looking => seen[p] \subseteq seen'[p]
<1>1. \A p \in Procs : Stored(Key(p))' \in Answers \cup {None}
  <2> SUFFICES ASSUME NEW p \in Procs PROVE Stored(Key(p))' \in Answers \cup {None}
    OBVIOUS
  <2>1. Key(p)' \in Keys
    BY KeyTypes DEF Key
  <2>2. entry'[Key(p)'] # None => content'[entry'[Key(p)']].text \in Answers \cup {Torn}
    BY <2>1
  <2> QED BY <2>2 DEF Stored, Parsed
<1> QED BY <1>1 DEF Watching, TypeOK

-----------------------------------------------------------------------------
(* Types. *)

LEMMA EndsTypes ==
  ASSUME TypeOK, NEW p \in Procs, Ends(p), UNCHANGED <<files, paid, raced>>, Watching
  PROVE  TypeOK'
<1>1. /\ at' \in [Procs -> Places] /\ mode' \in [Procs -> Modes]
      /\ asked' \in [Procs -> SUBSET Requests]
      /\ request' \in [Procs -> Requests]
      /\ answer' \in [Procs -> Answers \cup {None, Pending}]
      /\ fd' \in [Procs -> Inodes \cup {None}]
      /\ todo' \in [Procs -> SUBSET Keys]
  BY DEF TypeOK, Ends, Places, Modes
<1>2. UNCHANGED <<tmp, entry, content, paid, raced>>
  BY DEF files
<1>3. seen' \in [Procs -> SUBSET (Answers \cup {None})]
  BY <1>1, <1>2, SeenTypes DEF TypeOK
<1> QED BY <1>1, <1>2, <1>3 DEF TypeOK

LEMMA FoundTypes ==
  ASSUME TypeOK, NEW p \in Procs, NEW STATE a, a \in Answers \cup {None}, Found(p, a)
  PROVE  /\ at' \in [Procs -> Places]
         /\ answer' \in [Procs -> Answers \cup {None, Pending}]
         /\ fd' \in [Procs -> Inodes \cup {None}]
BY DEF Found, TypeOK, Places

LEMMA OpenTypes ==
  ASSUME TypeOK, NEW p \in Procs, NEW r \in Requests, NEW i \in Inodes, OpenTmp(p, r, i),
         Watching
  PROVE  TypeOK'
<1>1. /\ at' = [at EXCEPT ![p] = "writing"]
      /\ request' = [request EXCEPT ![p] = r]
      /\ answer' = [answer EXCEPT ![p] = [request |-> r, n |-> paid + 1]]
      /\ fd' = [fd EXCEPT ![p] = i]
      /\ tmp' = [tmp EXCEPT ![KeyOf(r)] = i]
      /\ content' = [content EXCEPT ![i] =
           [text |-> Torn, by |-> {p} \cup {q \in Procs : at[q] = "writing" /\ fd[q] = i}]]
      /\ raced' \in {raced, raced \cup {KeyOf(r)}}
      /\ asked' = [asked EXCEPT ![p] = asked[p] \ {r}]
      /\ paid' = paid + 1 /\ paid < MaxPaid
      /\ UNCHANGED <<mode, todo, entry>>
  BY DEF OpenTmp, Answered
<1>2. paid + 1 \in 1..MaxPaid /\ paid' \in 0..MaxPaid
  BY <1>1, CacheAssumption DEF TypeOK
<1>3. [request |-> r, n |-> paid + 1] \in Answers
  BY <1>2 DEF Answers
<1>4. [text |-> Torn, by |-> {p} \cup {q \in Procs : at[q] = "writing" /\ fd[q] = i}]
        \in [text : Answers \cup {Torn}, by : SUBSET Procs]
  OBVIOUS
<1>5. /\ at' \in [Procs -> Places] /\ mode' \in [Procs -> Modes]
      /\ asked' \in [Procs -> SUBSET Requests]
      /\ request' \in [Procs -> Requests]
  BY <1>1 DEF TypeOK, Places
<1>6. /\ answer' \in [Procs -> Answers \cup {None, Pending}]
      /\ fd' \in [Procs -> Inodes \cup {None}]
      /\ todo' \in [Procs -> SUBSET Keys]
  BY <1>1, <1>3 DEF TypeOK
<1>7. /\ tmp' \in [Keys -> Inodes \cup {None}] /\ entry' \in [Keys -> Inodes \cup {None}]
      /\ raced' \subseteq Keys
  BY <1>1, KeyTypes DEF TypeOK
<1>8. content' \in [Inodes -> [text : Answers \cup {Torn}, by : SUBSET Procs]]
  BY <1>1, <1>4 DEF TypeOK
<1>9. seen' \in [Procs -> SUBSET (Answers \cup {None})]
  BY <1>5, <1>7, <1>8, SeenTypes
<1> QED BY <1>2, <1>5, <1>6, <1>7, <1>8, <1>9 DEF TypeOK

LEMMA WriteTypes ==
  ASSUME TypeOK, NEW p \in Procs, Holder(p), WritePart(p) \/ Write(p), Watching
  PROVE  TypeOK'
<1>1. at[p] = "writing" /\ fd[p] \in Inodes /\ answer[p] \in Answers
  BY KeyTypes DEF WritePart, Write, Holder, TypeOK, Putting
<1>2. PICK text \in {answer[p], Torn} : content' = [content EXCEPT ![fd[p]].text = text]
  BY <1>1 DEF WritePart, Write
<1>3. content' \in [Inodes -> [text : Answers \cup {Torn}, by : SUBSET Procs]]
  BY <1>1, <1>2 DEF TypeOK
<1>4. /\ at' \in [Procs -> Places] /\ fd' \in [Procs -> Inodes \cup {None}]
      /\ UNCHANGED <<mode, asked, request, answer, todo, tmp, entry, paid, raced>>
  BY DEF WritePart, Write, TypeOK, Places, proc
<1>5. seen' \in [Procs -> SUBSET (Answers \cup {None})]
  BY <1>3, <1>4, SeenTypes DEF TypeOK
<1> QED BY <1>3, <1>4, <1>5 DEF TypeOK

LEMMA StepTypes ==
  ASSUME TypeOK, NEW p \in Procs, Holder(p), Step(p), Watching
  PROVE  TypeOK'
<1>0. Key(p) \in Keys
  BY KeyOfProc
<1>1. CASE Start(p)
  <2>1. /\ at' \in [Procs -> Places] /\ mode' \in [Procs -> Modes]
        /\ UNCHANGED <<asked, request, answer, fd, todo, tmp, entry, content, paid, raced>>
    BY <1>1 DEF Start, TypeOK, Places, files
  <2>2. seen' \in [Procs -> SUBSET (Answers \cup {None})]
    BY <2>1, SeenTypes DEF TypeOK
  <2> QED BY <2>1, <2>2 DEF TypeOK
<1>2. CASE Kill(p) \/ RenameFails(p) \/ EndClear(p)
  BY <1>2, EndsTypes DEF Kill, RenameFails, EndClear
<1>3. CASE StartClear(p)
  <2>1. /\ at' \in [Procs -> Places] /\ todo' \in [Procs -> SUBSET Keys]
        /\ UNCHANGED <<mode, asked, request, answer, fd, tmp, entry, content, paid, raced>>
    BY <1>3 DEF StartClear, TypeOK, Places, files
  <2>2. seen' \in [Procs -> SUBSET (Answers \cup {None})]
    BY <2>1, SeenTypes DEF TypeOK
  <2> QED BY <2>1, <2>2 DEF TypeOK
<1>4. CASE IsFile(p) \/ OpenEntry(p)
  <2>1. UNCHANGED <<mode, asked, request, todo, tmp, entry, content, paid, raced>>
    BY <1>4 DEF IsFile, OpenEntry, files
  <2>2. /\ at' \in [Procs -> Places]
        /\ answer' \in [Procs -> Answers \cup {None, Pending}]
        /\ fd' \in [Procs -> Inodes \cup {None}]
    BY <1>0, <1>4 DEF IsFile, OpenEntry, Found, TypeOK, Places
  <2>3. seen' \in [Procs -> SUBSET (Answers \cup {None})]
    BY <2>1, SeenTypes DEF TypeOK
  <2> QED BY <2>1, <2>2, <2>3 DEF TypeOK
<1>5. CASE Read(p)
  <2>1. UNCHANGED <<mode, asked, request, todo, tmp, entry, content, paid, raced>>
    BY <1>5 DEF Read, files
  <2>2. Parsed(content[fd[p]].text) \in Answers \cup {None}
    BY <1>5 DEF Read, Holder, TypeOK, Parsed
  <2>3. /\ at' \in [Procs -> Places]
        /\ answer' \in [Procs -> Answers \cup {None, Pending}]
        /\ fd' \in [Procs -> Inodes \cup {None}]
    BY <1>5, <2>2, FoundTypes DEF Read
  <2>4. seen' \in [Procs -> SUBSET (Answers \cup {None})]
    BY <2>1, SeenTypes DEF TypeOK
  <2> QED BY <2>1, <2>3, <2>4 DEF TypeOK
<1>6. CASE Return(p)
  <2>1. /\ at' \in [Procs -> Places] /\ asked' \in [Procs -> SUBSET Requests]
        /\ answer' \in [Procs -> Answers \cup {None, Pending}]
        /\ UNCHANGED <<mode, request, fd, todo, tmp, entry, content, paid, raced>>
    BY <1>6 DEF Return, TypeOK, Places, files
  <2>2. seen' \in [Procs -> SUBSET (Answers \cup {None})]
    BY <2>1, SeenTypes DEF TypeOK
  <2> QED BY <2>1, <2>2 DEF TypeOK
<1>7. CASE WritePart(p) \/ Write(p)
  BY <1>7, WriteTypes
<1>8. CASE Rename(p)
  <2>1. /\ at' \in [Procs -> Places]
        /\ answer' \in [Procs -> Answers \cup {None, Pending}]
        /\ tmp' \in [Keys -> Inodes \cup {None}] /\ entry' \in [Keys -> Inodes \cup {None}]
        /\ UNCHANGED <<mode, asked, request, fd, todo, content, paid, raced>>
    BY <1>0, <1>8 DEF Rename, Unlinked, TypeOK, Places
  <2>2. seen' \in [Procs -> SUBSET (Answers \cup {None})]
    BY <2>1, SeenTypes DEF TypeOK
  <2> QED BY <2>1, <2>2 DEF TypeOK
<1>9. CASE \E r \in Requests : CallFails(p, r) \/ Bypass(p, r) \/ Get(p, r) \/ NotWritten(p, r)
  <2>1. UNCHANGED <<mode, fd, todo, tmp, entry, content, raced>>
    BY <1>9 DEF CallFails, Bypass, Get, NotWritten, files
  <2>2. /\ at' \in [Procs -> Places] /\ asked' \in [Procs -> SUBSET Requests]
        /\ request' \in [Procs -> Requests]
        /\ answer' \in [Procs -> Answers \cup {None, Pending}]
    BY <1>9 DEF CallFails, Bypass, Get, NotWritten, Answered, TypeOK, Places
  <2>3. paid' \in 0..MaxPaid
    BY <1>9, CacheAssumption DEF CallFails, Bypass, Get, NotWritten, Answered, TypeOK
  <2>4. seen' \in [Procs -> SUBSET (Answers \cup {None})]
    BY <2>1, <2>2, SeenTypes DEF TypeOK
  <2> QED BY <2>1, <2>2, <2>3, <2>4 DEF TypeOK
<1>10. CASE \E r \in Requests, i \in Inodes : OpenTmp(p, r, i)
  BY <1>10, OpenTypes
<1>11. CASE \E k \in Keys : Unlink(p, k)
  <2>1. /\ entry' \in [Keys -> Inodes \cup {None}] /\ todo' \in [Procs -> SUBSET Keys]
        /\ UNCHANGED <<at, mode, asked, request, answer, fd, tmp, content, paid, raced>>
    BY <1>11 DEF Unlink, TypeOK
  <2>2. seen' \in [Procs -> SUBSET (Answers \cup {None})]
    BY <2>1, SeenTypes DEF TypeOK
  <2> QED BY <2>1, <2>2 DEF TypeOK
<1> QED BY <1>1, <1>2, <1>3, <1>4, <1>5, <1>6, <1>7, <1>8, <1>9, <1>10, <1>11 DEF Step

-----------------------------------------------------------------------------
(* Steps that leave the files as they are. *)

Same(q) ==
  /\ at'[q] = at[q] /\ request'[q] = request[q] /\ answer'[q] = answer[q] /\ fd'[q] = fd[q]

\* A process that a step does not touch keeps what it holds and has seen.
LEMMA OthersRead ==
  ASSUME TypeOK, TypeOK', Watching, NEW q \in Procs, Same(q), Reader(q),
         Key(q) \in raced => Key(q) \in raced',
         at[q] = "reading" /\ Key(q) \notin raced' =>
           /\ content'[fd[q]].text = content[fd[q]].text
           /\ tmp'[Key(q)] # fd[q]
  PROVE  Reader(q)'
<1>1. Key(q)' = Key(q)
  BY DEF Same, Key
<1>2. /\ at'[q] \in Looking => Stored(Key(q))' \in seen'[q]
      /\ at'[q] \notin Looking => seen'[q] = {}
      /\ at[q] \in Looking => seen[q] \subseteq seen'[q]
  BY SeenTypes DEF TypeOK, Same
<1> QED BY <1>1, <1>2 DEF Same, Reader, Looking

LEMMA Quiet ==
  ASSUME Inv, TypeOK', Watching, NEW p \in Procs,
         UNCHANGED <<tmp, entry, content, raced>>,
         \A q \in Procs \ {p} : Same(q),
         at'[p] \notin Putting,
         Holder(p)', Reader(p)',
         fd'[p] # None => (fd'[p] = fd[p] /\ Key(p)' = Key(p)) \/ fd'[p] = entry[Key(p)']
  PROVE  Inv'
<1>1. \A q \in Procs : Holder(q)'
  <2> SUFFICES ASSUME NEW q \in Procs, q # p PROVE Holder(q)'
    OBVIOUS
  <2>1. Same(q) /\ Holder(q) /\ Key(q)' = Key(q)
    BY DEF Inv, Same, Key
  <2> QED BY <2>1 DEF Same, Holder
<1>2. \A q \in Procs : Reader(q)'
  <2> SUFFICES ASSUME NEW q \in Procs, q # p PROVE Reader(q)'
    OBVIOUS
  <2>1. Same(q) /\ Reader(q) /\ TypeOK
    BY DEF Inv
  <2>2. at[q] = "reading" /\ Key(q) \notin raced => fd[q] # tmp[Key(q)]
    BY <2>1 DEF Reader
  <2> QED BY <2>1, <2>2, OthersRead
<1>3. Apart'
  <2>1. ASSUME NEW q \in Procs, NEW s \in Procs, fd'[q] # None, fd'[q] = fd'[s]
        PROVE  Key(q)' = Key(s)'
    <3>1. \A u \in Procs : Key(u)' \in Keys
      BY KeyTypes DEF TypeOK, Key
    <3>2. \A u \in Procs \ {p} : Key(u)' = Key(u) /\ fd'[u] = fd[u] /\ Holder(u)
      BY DEF Same, Key, Inv
    <3>3. \A u \in Procs \ {p} : fd'[p] # None /\ fd[u] = fd'[p] => Key(u) = Key(p)'
      BY <3>1, <3>2 DEF Holder, Inv, Apart
    <3>4. \A u, v \in Procs : fd[u] # None /\ fd[u] = fd[v] => Key(u) = Key(v)
      BY DEF Inv, Apart
    <3> QED BY <2>1, <3>2, <3>3, <3>4
  <2> QED BY <2>1 DEF Inv, Apart
<1>4. \A k \in Keys : Texts(k)'
  BY DEF Inv, Texts
<1>5. \A k \in Keys : Alone(k)'
  <2> SUFFICES ASSUME NEW k \in Keys, k \notin raced' PROVE Alone(k)'
    BY DEF Alone
  <2>1. Alone(k)
    BY DEF Inv
  <2>2. \A q \in Procs : at'[q] \in Putting => Same(q) /\ Key(q)' = Key(q)
    BY DEF Same, Key
  <2> QED BY <2>1, <2>2 DEF Alone, Same
<1> QED BY <1>1, <1>2, <1>3, <1>4, <1>5 DEF Inv

\* A process with nothing open that neither looks nor saves holds nothing.
LEMMA Resting ==
  ASSUME Inv, TypeOK', Watching, NEW p \in Procs,
         UNCHANGED <<tmp, entry, content, raced>>,
         \A q \in Procs \ {p} : Same(q),
         at'[p] \in {"off", "idle", "clearing"}, fd'[p] = None
  PROVE  Inv'
<1>1. Holder(p)'
  BY DEF Holder, Putting
<1>2. Reader(p)'
  BY DEF Reader, Looking, Watching
<1> QED BY <1>1, <1>2, Quiet DEF Putting

LEMMA QuietSteps ==
  ASSUME Inv, TypeOK', Watching, NEW p \in Procs,
         \/ Start(p) \/ Kill(p) \/ StartClear(p) \/ EndClear(p) \/ RenameFails(p) \/ Return(p)
         \/ \E r \in Requests : CallFails(p, r) \/ Bypass(p, r) \/ NotWritten(p, r)
  PROVE  Inv'
<1>1. UNCHANGED <<tmp, entry, content, raced>>
  BY DEF Start, Kill, StartClear, EndClear, RenameFails, Return, CallFails, Bypass, NotWritten,
         files
<1>2. TypeOK /\ Holder(p)
  BY DEF Inv
<1>3. \A q \in Procs \ {p} : Same(q)
  BY <1>2 DEF Start, Kill, StartClear, EndClear, RenameFails, Return, CallFails, Bypass,
         NotWritten, Answered, Ends, Same, TypeOK
<1>4. at'[p] \in {"off", "idle", "clearing"}
  BY <1>2 DEF Start, Kill, StartClear, EndClear, RenameFails, Return, CallFails, Bypass,
         NotWritten, Answered, Ends, TypeOK
<1>5. fd'[p] = None
  BY <1>2 DEF Start, Kill, StartClear, EndClear, RenameFails, Return, CallFails, Bypass,
         NotWritten, Answered, Ends, TypeOK, Holder
<1> QED BY <1>1, <1>3, <1>4, <1>5, Resting

\* The steps of a get.
LEMMA LookSteps ==
  ASSUME Inv, TypeOK', Watching, NEW p \in Procs,
         IsFile(p) \/ OpenEntry(p) \/ Read(p) \/ \E r \in Requests : Get(p, r)
  PROVE  Inv'
<1>1. UNCHANGED <<tmp, entry, content, raced>>
  BY DEF IsFile, OpenEntry, Read, Get, files
<1>2. TypeOK /\ Holder(p) /\ Reader(p)
  BY DEF Inv
<1>3. \A q \in Procs \ {p} : Same(q)
  BY <1>2 DEF IsFile, OpenEntry, Read, Get, Found, Same, TypeOK
<1>4. at'[p] \in Looking /\ at'[p] \notin Putting
  BY <1>2 DEF IsFile, OpenEntry, Read, Get, Found, TypeOK, Looking, Putting
<1>5. Stored(Key(p))' \in seen'[p]
  BY <1>4 DEF Watching
<1>6. at[p] \in Looking => seen[p] \subseteq seen'[p]
  BY <1>4 DEF Watching
<1>7. Key(p) \in Keys /\ Key(p)' \in Keys
  BY <1>2, KeyTypes DEF TypeOK, Key
<1>8. CASE \E r \in Requests : Get(p, r)
  <2>1. at'[p] = "looking" /\ fd'[p] = None /\ answer'[p] = Pending
    BY <1>2, <1>8 DEF Get, TypeOK, Holder
  <2>2. Holder(p)' /\ Reader(p)'
    BY <1>5, <2>1 DEF Holder, Reader, Putting, Looking
  <2> QED BY <1>1, <1>3, <1>4, <2>1, <2>2, Quiet
<1>9. CASE (IsFile(p) \/ OpenEntry(p)) /\ entry[Key(p)] = None
  <2>1. /\ at'[p] = "returned" /\ fd'[p] = None /\ answer'[p] = None /\ Key(p)' = Key(p)
        /\ at[p] \in Looking
    BY <1>2, <1>9 DEF IsFile, OpenEntry, Found, TypeOK, Key, Looking
  <2>2. None \in seen'[p]
    BY <1>1, <1>5, <1>9, <2>1 DEF Stored
  <2>3. Holder(p)' /\ Reader(p)'
    BY <1>5, <2>1, <2>2, CacheAssumption DEF Holder, Reader, Putting, Looking
  <2> QED BY <1>1, <1>3, <1>4, <2>1, <2>3, Quiet
<1>10. CASE IsFile(p) /\ entry[Key(p)] # None
  <2>1. at'[p] = "opening" /\ fd'[p] = None /\ answer'[p] = Pending
    BY <1>2, <1>10 DEF IsFile, TypeOK, Holder
  <2>2. Holder(p)' /\ Reader(p)'
    BY <1>5, <2>1 DEF Holder, Reader, Putting, Looking
  <2> QED BY <1>1, <1>3, <1>4, <2>1, <2>2, Quiet
<1>11. CASE OpenEntry(p) /\ entry[Key(p)] # None
  <2>1. /\ at'[p] = "reading" /\ fd'[p] = entry[Key(p)] /\ answer'[p] = Pending
        /\ Key(p)' = Key(p)
    BY <1>2, <1>11 DEF OpenEntry, TypeOK, Holder, Key
  <2>2. content[entry[Key(p)]].text \in AnswersTo(Key(p)) \cup {Torn}
    BY <1>7, <1>11 DEF Inv, Texts
  <2>3. \A k \in Keys : entry[Key(p)] = tmp[k] \/ entry[Key(p)] = entry[k] => k = Key(p)
    BY <1>7, <1>11 DEF Inv, Apart
  <2>4. entry[Key(p)] # tmp[Key(p)]
    BY <1>7, <1>11 DEF Inv, Apart
  <2>5. Holder(p)'
    BY <1>1, <1>11, <2>1, <2>2, <2>3 DEF Holder, Putting
  <2>6. Key(p) \notin raced => content[entry[Key(p)]].text \in Answers
    BY <1>7, <1>11 DEF Inv, Alone
  <2>7. Key(p) \notin raced => content[entry[Key(p)]].text \in seen'[p]
    BY <1>1, <1>5, <1>11, <2>1, <2>6, CacheAssumption DEF Stored, Parsed
  <2>8. Reader(p)'
    BY <1>1, <1>5, <2>1, <2>4, <2>6, <2>7 DEF Reader, Looking
  <2> QED BY <1>1, <1>3, <1>4, <2>1, <2>5, <2>8, Quiet
<1>12. CASE Read(p)
  <2>1. /\ at'[p] = "returned" /\ fd'[p] = None /\ answer'[p] = Parsed(content[fd[p]].text)
        /\ Key(p)' = Key(p) /\ at[p] = "reading"
    BY <1>2, <1>12 DEF Read, Found, TypeOK, Key
  <2>2. Parsed(content[fd[p]].text) \in AnswersTo(Key(p)) \cup {None}
    BY <1>2, <2>1 DEF Holder, Parsed
  <2>3. Key(p) \notin raced => Parsed(content[fd[p]].text) \in seen'[p]
    BY <1>2, <1>6, <2>1, CacheAssumption DEF Reader, Parsed, Looking
  <2>4. Holder(p)' /\ Reader(p)'
    BY <1>1, <1>5, <2>1, <2>2, <2>3 DEF Holder, Reader, Putting, Looking
  <2> QED BY <1>1, <1>3, <1>4, <2>1, <2>4, Quiet
<1> QED BY <1>8, <1>9, <1>10, <1>11, <1>12 DEF IsFile, OpenEntry

-----------------------------------------------------------------------------
(* Steps that change a file. *)

LEMMA OpenStep ==
  ASSUME Inv, TypeOK', Watching, NEW p \in Procs, NEW r \in Requests, NEW i \in Inodes,
         OpenTmp(p, r, i)
  PROVE  Inv'
<1> DEFINE k == KeyOf(r)
<1>0. /\ TypeOK /\ Apart /\ k \in Keys
      /\ \A q \in Procs : Holder(q) /\ Reader(q) /\ Key(q) \in Keys
      /\ \A j \in Keys : Texts(j) /\ Alone(j)
  BY KeyTypes, KeyOfProc DEF Inv
<1>1. /\ at[p] = "idle" /\ fd[p] = None
      /\ at' = [at EXCEPT ![p] = "writing"]
      /\ request' = [request EXCEPT ![p] = r]
      /\ answer' = [answer EXCEPT ![p] = [request |-> r, n |-> paid + 1]]
      /\ fd' = [fd EXCEPT ![p] = i]
      /\ tmp' = [tmp EXCEPT ![k] = i]
      /\ content' = [content EXCEPT ![i] =
           [text |-> Torn, by |-> {p} \cup {q \in Procs : at[q] = "writing" /\ fd[q] = i}]]
      /\ raced' = IF Others(p, k) = {} THEN raced ELSE raced \cup {k}
      /\ entry' = entry
      /\ tmp[k] = i \/ (tmp[k] = None /\ i \notin InUse)
  BY <1>0 DEF OpenTmp, Answered, TemporaryFile, Holder
<1> HIDE DEF k
<1>2. /\ at'[p] = "writing" /\ request'[p] = r /\ fd'[p] = i /\ tmp'[k] = i
      /\ answer'[p] = [request |-> r, n |-> paid + 1]
      /\ content'[i].text = Torn
      /\ content'[i].by = {p} \cup {q \in Procs : at[q] = "writing" /\ fd[q] = i}
      /\ Key(p)' = k
      /\ \A q \in Procs \ {p} : Same(q) /\ Key(q)' = Key(q)
      /\ \A j \in Keys \ {k} : tmp'[j] = tmp[j]
      /\ \A j \in Inodes \ {i} : content'[j] = content[j]
  BY <1>0, <1>1 DEF TypeOK, Same, Key, k
<1>3. answer'[p] \in AnswersTo(k)
  <2>1. answer'[p] \in Answers
    BY <1>0, <1>1, CacheAssumption DEF TypeOK, Answers, OpenTmp, Answered
  <2> QED BY <1>2, <2>1 DEF AnswersTo, KeyOf, k
<1>4. /\ i # None
      /\ \A j \in Keys : entry[j] # i
      /\ \A j \in Keys : tmp[j] = i => j = k
      /\ \A q \in Procs : fd[q] = i => Key(q) = k
  <2>1. i # None
    BY CacheAssumption
  <2>2. CASE tmp[k] = i
    BY <1>0, <2>1, <2>2 DEF Apart, Holder
  <2>3. CASE tmp[k] = None /\ i \notin InUse
    BY <2>1, <2>3 DEF InUse
  <2> QED BY <1>1, <2>1, <2>2, <2>3
<1>5. raced \subseteq raced' /\ (k \notin raced' => Others(p, k) = {} /\ k \notin raced)
  BY <1>1
<1>6. \A q \in Procs : Holder(q)'
  <2> SUFFICES ASSUME NEW q \in Procs PROVE Holder(q)'
    OBVIOUS
  <2>1. CASE q = p
    BY <1>1, <1>2, <1>3, <1>4, <2>1 DEF Holder, Putting
  <2>2. CASE q # p
    <3>1. Same(q) /\ Key(q)' = Key(q) /\ Holder(q)
      BY <1>0, <1>2, <2>2
    <3>2. \A j \in Keys : fd[q] # None /\ (fd[q] = tmp'[j] \/ fd[q] = entry'[j]) => j = Key(q)
      BY <1>1, <1>2, <1>4, <3>1 DEF Holder
    <3>3. fd[q] # None => content'[fd[q]].text \in AnswersTo(Key(q)) \cup {Torn}
      BY <1>0, <1>2, <3>1 DEF Holder, TypeOK
    <3> QED BY <3>1, <3>2, <3>3 DEF Holder, Same
  <2> QED BY <2>1, <2>2
<1>7. \A q \in Procs : Reader(q)'
  <2> SUFFICES ASSUME NEW q \in Procs PROVE Reader(q)'
    OBVIOUS
  <2>1. CASE q = p
    BY <1>2, <2>1 DEF Reader, Looking, Watching
  <2>2. CASE q # p
    <3>1. Same(q) /\ Reader(q) /\ Holder(q)
      BY <1>0, <1>2, <2>2
    <3>2. ASSUME at[q] = "reading", Key(q) \notin raced'
          PROVE  content'[fd[q]].text = content[fd[q]].text /\ tmp'[Key(q)] # fd[q]
      <4>1. fd[q] \in Inodes /\ fd[q] # tmp[Key(q)] /\ content[fd[q]].text \in Answers
        BY <1>0, <1>5, <3>1, <3>2 DEF Holder, Reader, TypeOK
      <4>2. fd[q] # i
        <5>1. SUFFICES ASSUME fd[q] = i PROVE FALSE
          OBVIOUS
        <5>2. Key(q) = k
          BY <1>4, <5>1
        <5>3. i \in InUse
          BY <5>1 DEF InUse
        <5> QED BY <1>1, <4>1, <5>1, <5>2, <5>3
      <4> QED BY <1>0, <1>2, <4>1, <4>2
    <3>3. Key(q) \in raced => Key(q) \in raced'
      BY <1>5
    <3> QED BY <1>0, <3>1, <3>2, <3>3, OthersRead
  <2> QED BY <2>1, <2>2
<1>8. Apart'
  <2>1. \A j, l \in Keys : tmp'[j] # None => tmp'[j] # entry'[l]
    BY <1>0, <1>1, <1>2, <1>4 DEF Apart
  <2>2. \A j, l \in Keys : tmp'[j] # None /\ tmp'[j] = tmp'[l] => j = l
    BY <1>0, <1>2, <1>4 DEF Apart
  <2>3. \A j, l \in Keys : entry'[j] # None /\ entry'[j] = entry'[l] => j = l
    BY <1>0, <1>1 DEF Apart
  <2>4. \A u, v \in Procs : fd'[u] # None /\ fd'[u] = fd'[v] => Key(u)' = Key(v)'
    <3>1. \A u \in Procs \ {p} : fd'[u] = fd[u] /\ Key(u)' = Key(u)
      BY <1>2 DEF Same
    <3>2. \A u \in Procs \ {p} : fd'[u] = i => Key(u)' = k
      BY <1>4, <3>1
    <3> QED BY <1>0, <1>2, <3>1, <3>2 DEF Apart
  <2> QED BY <2>1, <2>2, <2>3, <2>4 DEF Apart
<1>9. \A j \in Keys : Texts(j)'
  <2> SUFFICES ASSUME NEW j \in Keys PROVE Texts(j)'
    OBVIOUS
  <2>1. entry'[j] # None => content'[entry'[j]].text \in AnswersTo(j) \cup {Torn}
    BY <1>0, <1>1, <1>2, <1>4 DEF Texts, TypeOK
  <2>2. tmp'[j] # None => content'[tmp'[j]].text \in AnswersTo(j) \cup {Torn}
    <3>1. CASE j = k
      BY <1>2, <3>1
    <3>2. CASE j # k
      <4>1. tmp'[j] = tmp[j] /\ tmp[j] # i
        BY <1>2, <1>4, <3>2
      <4>2. tmp[j] # None => content'[tmp[j]] = content[tmp[j]]
        BY <1>0, <1>2, <4>1 DEF TypeOK
      <4> QED BY <1>0, <4>1, <4>2 DEF Texts
    <3> QED BY <3>1, <3>2
  <2> QED BY <2>1, <2>2 DEF Texts
<1>10. \A j \in Keys : Alone(j)'
  <2> SUFFICES ASSUME NEW j \in Keys, j \notin raced' PROVE Alone(j)'
    BY DEF Alone
  <2>1. Alone(j) /\ j \notin raced
    BY <1>0, <1>5
  <2>2. entry'[j] # None => content'[entry'[j]].text \in Answers
    BY <1>0, <1>1, <1>2, <1>4, <2>1 DEF Alone, TypeOK
  <2>3. CASE j # k
    <3>1. \A q \in Procs : at'[q] \in Putting /\ Key(q)' = j =>
            q # p /\ Same(q) /\ Key(q)' = Key(q)
      BY <1>2, <2>3
    <3>2. tmp'[j] = tmp[j] /\ (tmp[j] # None => content'[tmp[j]] = content[tmp[j]])
      BY <1>0, <1>2, <1>4, <2>3 DEF TypeOK
    <3> QED BY <2>1, <2>2, <3>1, <3>2 DEF Alone, Same
  <2>4. CASE j = k
    <3>1. \A q \in Procs : at'[q] \in Putting /\ Key(q)' = k => q = p
      <4> SUFFICES ASSUME NEW q \in Procs, q # p, at'[q] \in Putting, Key(q)' = k PROVE FALSE
        OBVIOUS
      <4>1. q \in Others(p, k)
        BY <1>2 DEF Others, Same
      <4> QED BY <1>5, <2>4, <4>1
    <3>2. content'[i].by = {p}
      <4> SUFFICES ASSUME NEW q \in Procs, at[q] = "writing", fd[q] = i PROVE q = p
        BY <1>2
      <4>1. Key(q) = k
        BY <1>4
      <4> QED BY <1>5, <2>4, <4>1 DEF Others, Putting
    <3> QED BY <1>2, <1>4, <2>2, <2>4, <3>1, <3>2 DEF Alone
  <2> QED BY <2>3, <2>4
<1> QED BY <1>6, <1>7, <1>8, <1>9, <1>10 DEF Inv

LEMMA WriteStep ==
  ASSUME Inv, TypeOK', Watching, NEW p \in Procs, WritePart(p) \/ Write(p)
  PROVE  Inv'
<1> DEFINE i == fd[p]
           k == Key(p)
<1>0. /\ TypeOK /\ Apart /\ k \in Keys
      /\ \A q \in Procs : Holder(q) /\ Reader(q) /\ Key(q) \in Keys
      /\ \A j \in Keys : Texts(j) /\ Alone(j)
  BY KeyOfProc DEF Inv
<1>1. /\ at[p] = "writing" /\ i \in Inodes /\ i # None
      /\ UNCHANGED <<request, answer, tmp, entry, raced>>
  BY <1>0 DEF WritePart, Write, Holder, TypeOK, proc
<1>2. PICK text \in {answer[p], Torn} :
        /\ content' = [content EXCEPT ![i].text = text]
        /\ Write(p) /\ content[i].by = {p} => text = answer[p]
  BY DEF WritePart, Write
<1>3. \/ at' = at /\ fd' = fd
      \/ at' = [at EXCEPT ![p] = "written"] /\ fd' = [fd EXCEPT ![p] = None] /\ Write(p)
  BY DEF WritePart, Write, proc
<1> HIDE DEF i, k
<1>4. /\ \A q \in Procs \ {p} : Same(q)
      /\ \A q \in Procs : Key(q)' = Key(q)
      /\ content'[i].text = text /\ content'[i].by = content[i].by
      /\ \A j \in Inodes : content'[j].by = content[j].by
      /\ \A j \in Inodes \ {i} : content'[j] = content[j]
  BY <1>0, <1>1, <1>2, <1>3 DEF Same, TypeOK, Key
<1>5. text \in AnswersTo(k) \cup {Torn}
  BY <1>0, <1>1, <1>2 DEF Holder, Putting, k
<1>6. /\ \A j \in Keys : tmp[j] = i \/ entry[j] = i => j = k
      /\ \A q \in Procs : fd[q] = i => Key(q) = k
      /\ k \notin raced => i = tmp[k] /\ content[i].by = {p}
  BY <1>0, <1>1 DEF Holder, Apart, Alone, Putting, i, k
<1>7. \A q \in Procs : Holder(q)'
  <2> SUFFICES ASSUME NEW q \in Procs PROVE Holder(q)'
    OBVIOUS
  <2>1. Holder(q) /\ Key(q)' = Key(q) /\ answer'[q] = answer[q]
    BY <1>0, <1>1, <1>4
  <2>2. fd[q] # None => content'[fd[q]].text \in AnswersTo(Key(q)) \cup {Torn}
    BY <1>0, <1>4, <1>5, <1>6, <2>1 DEF Holder, TypeOK
  <2>3. CASE at' = at /\ fd' = fd
    BY <1>1, <2>1, <2>2, <2>3 DEF Holder
  <2>4. CASE at' = [at EXCEPT ![p] = "written"] /\ fd' = [fd EXCEPT ![p] = None]
    <3>1. CASE q = p
      BY <1>0, <1>1, <2>1, <2>4, <3>1 DEF Holder, Putting, TypeOK
    <3>2. CASE q # p
      BY <1>0, <1>1, <2>1, <2>2, <2>4, <3>2 DEF Holder, TypeOK
    <3> QED BY <3>1, <3>2
  <2> QED BY <1>3, <2>3, <2>4
<1>8. \A q \in Procs : Reader(q)'
  <2> SUFFICES ASSUME NEW q \in Procs PROVE Reader(q)'
    OBVIOUS
  <2>1. CASE q = p
    <3>1. at'[p] \notin Looking
      BY <1>0, <1>1, <1>3 DEF Looking, TypeOK
    <3> QED BY <2>1, <3>1 DEF Reader, Looking, Watching
  <2>2. CASE q # p
    <3>1. Same(q) /\ Reader(q) /\ Holder(q)
      BY <1>0, <1>4, <2>2
    <3>2. ASSUME at[q] = "reading", Key(q) \notin raced'
          PROVE  content'[fd[q]].text = content[fd[q]].text /\ tmp'[Key(q)] # fd[q]
      <4>1. fd[q] \in Inodes /\ fd[q] # tmp[Key(q)]
        BY <1>0, <1>1, <3>1, <3>2 DEF Holder, Reader, TypeOK
      <4>2. fd[q] # i
        BY <1>1, <1>6, <3>2, <4>1
      <4> QED BY <1>1, <1>4, <4>1, <4>2
    <3> QED BY <1>0, <1>1, <3>1, <3>2, OthersRead
  <2> QED BY <2>1, <2>2
<1>9. Apart'
  <2>1. \A u, v \in Procs : fd'[u] # None /\ fd'[u] = fd'[v] => fd'[u] = fd[u] /\ fd'[v] = fd[v]
    BY <1>0, <1>3 DEF TypeOK
  <2> QED BY <1>0, <1>1, <1>4, <2>1 DEF Apart
<1>10. \A j \in Keys : Texts(j)'
  <2> SUFFICES ASSUME NEW j \in Keys PROVE Texts(j)'
    OBVIOUS
  <2>1. entry[j] # None => content'[entry[j]].text \in AnswersTo(j) \cup {Torn}
    BY <1>0, <1>4, <1>5, <1>6 DEF Texts, TypeOK
  <2>2. tmp[j] # None => content'[tmp[j]].text \in AnswersTo(j) \cup {Torn}
    BY <1>0, <1>4, <1>5, <1>6 DEF Texts, TypeOK
  <2> QED BY <1>1, <2>1, <2>2 DEF Texts
<1>11. \A j \in Keys : Alone(j)'
  <2> SUFFICES ASSUME NEW j \in Keys, j \notin raced' PROVE Alone(j)'
    BY DEF Alone
  <2>1. Alone(j) /\ j \notin raced /\ UNCHANGED <<tmp, entry, answer>>
    BY <1>0, <1>1
  <2>2. \A q \in Procs : at'[q] \in Putting => at[q] \in Putting /\ Key(q)' = Key(q)
    BY <1>0, <1>1, <1>3, <1>4 DEF Putting, TypeOK
  <2>3. entry[j] # i
    BY <1>0, <1>1, <1>6, <2>1 DEF Apart
  <2>4. entry[j] # None => content'[entry[j]].text \in Answers
    BY <1>0, <1>4, <2>1, <2>3 DEF Alone, TypeOK
  <2>5. CASE j # k
    <3>1. tmp[j] # i
      BY <1>6, <2>5
    <3>2. \A q \in Procs : at'[q] \in Putting /\ Key(q)' = j => q # p /\ Same(q)
      BY <1>4, <2>5 DEF k
    <3>3. tmp[j] # None => content'[tmp[j]] = content[tmp[j]]
      BY <1>0, <1>4, <3>1 DEF TypeOK
    <3> QED BY <2>1, <2>2, <2>4, <3>2, <3>3 DEF Alone, Same
  <2>6. CASE j = k
    <3>1. \A q \in Procs : at'[q] \in Putting /\ Key(q)' = k => q = p
      BY <1>1, <2>1, <2>2, <2>6 DEF Alone, Putting, k
    <3>2. tmp[k] = i /\ content'[tmp[k]].by = {p}
      BY <1>4, <1>6, <2>1, <2>6
    <3>3. at'[p] = "writing" => fd'[p] = tmp[k]
      BY <1>0, <1>3, <3>2 DEF TypeOK, i
    <3>4. at'[p] = "written" => content'[tmp[k]].text = answer[p]
      <4>1. at'[p] = "written" => Write(p)
        BY <1>1, <1>3
      <4> QED BY <1>2, <1>4, <1>6, <2>1, <2>6, <3>2, <4>1
    <3> QED BY <1>1, <2>1, <2>4, <2>6, <3>1, <3>2, <3>3, <3>4 DEF Alone
  <2> QED BY <2>5, <2>6
<1> QED BY <1>7, <1>8, <1>9, <1>10, <1>11 DEF Inv

LEMMA RenameStep ==
  ASSUME Inv, TypeOK', Watching, NEW p \in Procs, Rename(p)
  PROVE  Inv'
<1> DEFINE k == Key(p)
<1>0. /\ TypeOK /\ Apart /\ k \in Keys
      /\ \A q \in Procs : Holder(q) /\ Reader(q) /\ Key(q) \in Keys
      /\ \A j \in Keys : Texts(j) /\ Alone(j)
  BY KeyOfProc DEF Inv
<1>1. /\ at[p] = "written" /\ tmp[k] # None
      /\ entry' = [entry EXCEPT ![k] = tmp[k]]
      /\ tmp' = [tmp EXCEPT ![k] = None]
      /\ at' = [at EXCEPT ![p] = "idle"]
      /\ answer' = [answer EXCEPT ![p] = None]
      /\ UNCHANGED <<request, fd, content, raced>>
  BY DEF Rename, Unlinked
<1> HIDE DEF k
<1>2. /\ \A q \in Procs \ {p} : Same(q)
      /\ \A q \in Procs : Key(q)' = Key(q)
      /\ at'[p] = "idle" /\ fd'[p] = None
      /\ entry'[k] = tmp[k] /\ tmp'[k] = None
      /\ \A j \in Keys \ {k} : tmp'[j] = tmp[j] /\ entry'[j] = entry[j]
  BY <1>0, <1>1 DEF Same, TypeOK, Key, Holder
<1>3. \A q \in Procs : Holder(q)'
  <2> SUFFICES ASSUME NEW q \in Procs PROVE Holder(q)'
    OBVIOUS
  <2>1. CASE q = p
    BY <1>2, <2>1 DEF Holder, Putting
  <2>2. CASE q # p
    BY <1>0, <1>1, <1>2, <2>2 DEF Holder, Same
  <2> QED BY <2>1, <2>2
<1>4. \A q \in Procs : Reader(q)'
  <2> SUFFICES ASSUME NEW q \in Procs PROVE Reader(q)'
    OBVIOUS
  <2>1. CASE q = p
    BY <1>2, <2>1 DEF Reader, Looking, Watching
  <2>2. CASE q # p
    <3>1. Same(q) /\ Reader(q) /\ Holder(q)
      BY <1>0, <1>2, <2>2
    <3>2. at[q] = "reading" /\ Key(q) \notin raced' =>
            content'[fd[q]].text = content[fd[q]].text /\ tmp'[Key(q)] # fd[q]
      BY <1>0, <1>1, <1>2, <3>1 DEF Holder, Reader
    <3> QED BY <1>0, <1>1, <3>1, <3>2, OthersRead
  <2> QED BY <2>1, <2>2
<1>5. Apart'
  BY <1>0, <1>1, <1>2 DEF Apart
<1>6. \A j \in Keys : Texts(j)'
  BY <1>0, <1>1, <1>2 DEF Texts
<1>7. \A j \in Keys : Alone(j)'
  <2> SUFFICES ASSUME NEW j \in Keys, j \notin raced' PROVE Alone(j)'
    BY DEF Alone
  <2>1. Alone(j) /\ j \notin raced
    BY <1>0, <1>1
  <2>2. \A q \in Procs : at'[q] \in Putting => q # p /\ Same(q) /\ Key(q)' = Key(q)
    BY <1>2 DEF Putting
  <2>3. CASE j # k
    BY <1>1, <1>2, <2>1, <2>2, <2>3 DEF Alone, Same
  <2>4. CASE j = k
    <3>1. ~\E q \in Procs : at'[q] \in Putting /\ Key(q)' = k
      BY <1>1, <2>1, <2>2, <2>4 DEF Alone, Same, Putting, k
    <3>2. content[tmp[k]].text = answer[p] /\ answer[p] \in Answers
      BY <1>0, <1>1, <2>1, <2>4, KeyTypes DEF Alone, Holder, Putting, k
    <3> QED BY <1>1, <1>2, <2>4, <3>1, <3>2 DEF Alone
  <2> QED BY <2>3, <2>4
<1> QED BY <1>3, <1>4, <1>5, <1>6, <1>7 DEF Inv

LEMMA UnlinkStep ==
  ASSUME Inv, TypeOK', Watching, NEW p \in Procs, NEW k \in Keys, Unlink(p, k)
  PROVE  Inv'
<1>0. /\ TypeOK /\ Apart
      /\ \A q \in Procs : Holder(q) /\ Reader(q)
      /\ \A j \in Keys : Texts(j) /\ Alone(j)
  BY DEF Inv
<1>1. /\ entry' = [entry EXCEPT ![k] = None]
      /\ UNCHANGED <<at, request, answer, fd, tmp, content, raced>>
  BY DEF Unlink
<1>2. \A j \in Keys : entry'[j] = None \/ entry'[j] = entry[j]
  BY <1>0, <1>1 DEF TypeOK
<1>3. \A q \in Procs : Same(q) /\ Key(q)' = Key(q)
  BY <1>1 DEF Same, Key
<1>4. \A q \in Procs : Holder(q)'
  BY <1>0, <1>1, <1>2, <1>3 DEF Holder
<1>5. \A q \in Procs : Reader(q)'
  <2> SUFFICES ASSUME NEW q \in Procs PROVE Reader(q)'
    OBVIOUS
  <2> QED BY <1>0, <1>1, <1>3, OthersRead DEF Reader
<1>6. Apart' /\ \A j \in Keys : Texts(j)' /\ Alone(j)'
  BY <1>0, <1>1, <1>2, <1>3 DEF Apart, Texts, Alone
<1> QED BY <1>4, <1>5, <1>6 DEF Inv

LEMMA NextInv ==
  ASSUME Inv, [Next]_vars
  PROVE  Inv'
<1>1. CASE UNCHANGED vars
  <2>1. UNCHANGED <<at, mode, asked, request, answer, fd, todo, tmp, entry, content, paid,
                    raced, seen>>
    BY <1>1 DEF vars, proc, files
  <2>2. \A k \in Keys : Stored(k)' = Stored(k)
    BY <2>1 DEF Stored
  <2>3. \A p \in Procs : Key(p)' = Key(p) /\ Stored(Key(p))' = Stored(Key(p))
    BY <2>1 DEF Key, Stored
  <2> QED BY <2>1, <2>3 DEF Inv, TypeOK, Holder, Reader, Apart, Texts, Alone
<1>2. CASE Next
  <2>1. PICK p \in Procs : Step(p)
    BY <1>2 DEF Next
  <2>2. Watching
    BY <1>2 DEF Next
  <2>3. TypeOK'
    BY <2>1, <2>2, StepTypes DEF Inv
  <2> QED BY <2>1, <2>2, <2>3, QuietSteps, LookSteps, OpenStep, WriteStep, RenameStep, UnlinkStep
          DEF Step
<1> QED BY <1>1, <1>2

THEOREM Invariance == Spec => []Inv
<1>1. Inv /\ [Next]_vars => Inv'
  BY NextInv
<1> QED BY <1>1, InitInv, PTL DEF Spec

\* Types, for any number of processes and answers.
THEOREM TypeCorrect == Spec => []TypeOK
<1>1. Inv => TypeOK
  BY DEF Inv
<1> QED BY <1>1, Invariance, PTL

\* No kill and no clear, at whatever moment, tears an entry of a key written by one
\* process at a time.
THEOREM WholeEntries == Spec => []EntryIsWhole
<1>1. Inv => EntryIsWhole
  BY DEF Inv, Alone, EntryIsWhole
<1> QED BY <1>1, Invariance, PTL

\* A hit answers what was asked, even of a key that two processes tore.
THEOREM GenuineHits == Spec => []HitsAreGenuine
<1>1. ASSUME NEW r, NEW s, KeyOf(r) = KeyOf(s) PROVE AsksTheSame(r, s)
  BY <1>1 DEF KeyOf, AsksTheSame
<1>2. Inv => HitsAreGenuine
  BY <1>1 DEF Inv, Holder, HitsAreGenuine, AnswersTo, Key
<1> QED BY <1>2, Invariance, PTL

-----------------------------------------------------------------------------
(* The refinement. *)

LEMMA Maps ==
  ASSUME TypeOK
  PROVE  /\ \A p \in Procs : Asking[p] = IF at[p] \in Looking THEN Key(p) ELSE None
         /\ \A p \in Procs : Told[p] = IF at[p] \in Looking THEN answer[p] ELSE None
         /\ \A p \in Procs : Asking[p] # None <=> at[p] \in Looking
         /\ \A k \in Keys : store[k] = Stored(k)
BY KeyOfProc, CacheAssumption DEF Asking, Told, store

LEMMA WatchingMaps ==
  ASSUME Inv, Inv', Watching
  PROVE  Atomic!Watching
<1>1. \A p \in Procs :
        /\ Asking[p] # None <=> at[p] \in Looking
        /\ Asking'[p] # None <=> at'[p] \in Looking
        /\ at'[p] \in Looking => Asking'[p] = Key(p)' /\ store'[Asking'[p]] = Stored(Key(p))'
  <2> SUFFICES ASSUME NEW p \in Procs
               PROVE  /\ Asking[p] # None <=> at[p] \in Looking
                      /\ Asking'[p] # None <=> at'[p] \in Looking
                      /\ at'[p] \in Looking =>
                           Asking'[p] = Key(p)' /\ store'[Asking'[p]] = Stored(Key(p))'
    OBVIOUS
  <2>1. Key(p) \in Keys /\ Key(p)' \in Keys
    BY KeyTypes DEF Inv, TypeOK, Key
  <2>2. store'[Key(p)'] = Stored(Key(p))'
    BY <2>1 DEF store, Stored
  <2> QED BY <2>1, <2>2, CacheAssumption DEF Asking
<1> QED BY <1>1 DEF Watching, Atomic!Watching

\* A step that changes nothing the abstract cache shows adds nothing to what is seen.
LEMMA StutterMaps ==
  ASSUME Inv, Inv', Watching, UNCHANGED <<store, Clearing, raced, Asking, Told>>
  PROVE  UNCHANGED Atomic!vars
<1>1. Atomic!Watching
  BY WatchingMaps
<1>2. \A p \in Procs : Asking[p] = None => seen[p] = {}
  BY Maps DEF Inv, Reader
<1>3. \A p \in Procs : Asking[p] # None => store[Asking[p]] \in seen[p]
  BY Maps, KeyOfProc DEF Inv, Reader
<1>4. seen' = seen
  <2>1. seen \in [Procs -> SUBSET (Answers \cup {None})]
    BY DEF Inv, TypeOK
  <2> QED BY <1>1, <1>2, <1>3, <2>1 DEF Atomic!Watching
<1> QED BY <1>4 DEF Atomic!vars

LEMMA FilesStay ==
  ASSUME UNCHANGED <<entry, content>>
  PROVE  store' = store
BY DEF store, Stored

LEMMA OthersMap ==
  ASSUME TypeOK, TypeOK', NEW p \in Procs, \A q \in Procs \ {p} : Same(q)
  PROVE  /\ Asking' = [Asking EXCEPT ![p] = Asking'[p]]
         /\ Told' = [Told EXCEPT ![p] = Told'[p]]
         /\ at'[p] # "clearing" => Clearing' = Clearing \ {p}
         /\ at'[p] = "clearing" => Clearing' = Clearing \cup {p}
<1>1. \A q \in Procs \ {p} : Asking'[q] = Asking[q] /\ Told'[q] = Told[q]
  BY DEF Same, Asking, Told, Key
<1>2. /\ Asking' = [q \in Procs |-> Asking'[q]] /\ Told' = [q \in Procs |-> Told'[q]]
      /\ Asking = [q \in Procs |-> Asking[q]] /\ Told = [q \in Procs |-> Told[q]]
  BY DEF Asking, Told
<1> QED BY <1>1, <1>2 DEF Clearing, Same

LEMMA LeaveMaps ==
  ASSUME Inv, Inv', Watching, NEW p \in Procs,
         Kill(p) \/ EndClear(p) \/ RenameFails(p) \/ Return(p)
  PROVE  Atomic!Next
<1>1. UNCHANGED <<tmp, entry, content, raced>> /\ TypeOK /\ TypeOK'
  BY DEF Inv, Kill, EndClear, RenameFails, Return, files
<1>2. \A q \in Procs \ {p} : Same(q)
  BY <1>1 DEF Kill, EndClear, RenameFails, Return, Ends, Same, TypeOK
<1>3. at'[p] \in {"off", "idle"}
  BY <1>1 DEF Kill, EndClear, RenameFails, Return, Ends, TypeOK
<1>4. Asking'[p] = None /\ Told'[p] = None
  BY <1>3 DEF Asking, Told, Looking
<1>5. Atomic!Leave(p)
  BY <1>1, <1>2, <1>3, <1>4, FilesStay, OthersMap DEF Atomic!Leave
<1> QED BY <1>5, WatchingMaps DEF Atomic!Next

LEMMA BetweenMaps ==
  ASSUME Inv, Inv', Watching, NEW p \in Procs,
         Start(p) \/ \E r \in Requests : CallFails(p, r) \/ Bypass(p, r) \/ NotWritten(p, r)
  PROVE  UNCHANGED Atomic!vars
<1>1. UNCHANGED <<tmp, entry, content, raced>> /\ TypeOK /\ TypeOK'
  BY DEF Inv, Start, CallFails, Bypass, NotWritten, files
<1>2. UNCHANGED <<Clearing, Asking, Told>>
  BY <1>1 DEF Start, CallFails, Bypass, NotWritten, TypeOK, Clearing, Asking, Told, Looking, Key
<1> QED BY <1>1, <1>2, FilesStay, StutterMaps

LEMMA AskMaps ==
  ASSUME Inv, Inv', Watching, NEW p \in Procs, NEW r \in Requests, Get(p, r)
  PROVE  Atomic!Next
<1>1. UNCHANGED <<tmp, entry, content, raced>> /\ TypeOK /\ TypeOK'
  BY DEF Inv, Get, files
<1>2. \A q \in Procs \ {p} : Same(q)
  BY <1>1 DEF Get, Same, TypeOK
<1>3. /\ at[p] = "idle" /\ at'[p] = "looking" /\ request'[p] = r /\ answer'[p] = Pending
  BY <1>1 DEF Get, TypeOK
<1>4. KeyOf(r) \in Keys /\ Asking[p] = None /\ Asking'[p] = KeyOf(r) /\ Told'[p] = Pending
  BY <1>3, KeyTypes DEF Asking, Told, Looking, Key
<1>5. Clearing' = Clearing
  BY <1>2, <1>3 DEF Clearing, Same
<1>6. Atomic!Ask(p, KeyOf(r))
  BY <1>1, <1>2, <1>4, <1>5, FilesStay, OthersMap DEF Atomic!Ask
<1> QED BY <1>4, <1>6, WatchingMaps DEF Atomic!Next

LEMMA AnswerMaps ==
  ASSUME Inv, Inv', Watching, NEW p \in Procs, IsFile(p) \/ OpenEntry(p) \/ Read(p)
  PROVE  Atomic!Next \/ UNCHANGED Atomic!vars
<1>1. UNCHANGED <<tmp, entry, content, raced, request>> /\ TypeOK /\ TypeOK'
  BY DEF Inv, IsFile, OpenEntry, Read, files
<1>2. \A q \in Procs \ {p} : Same(q)
  BY <1>1 DEF IsFile, OpenEntry, Read, Found, Same, TypeOK
<1>3. /\ at[p] \in Looking /\ at'[p] \in Looking /\ Key(p)' = Key(p) /\ Key(p) \in Keys
      /\ at[p] # "returned"
  BY <1>1, KeyOfProc DEF IsFile, OpenEntry, Read, Found, TypeOK, Looking, Key
<1>4. Asking' = Asking /\ Clearing' = Clearing
  BY <1>2, <1>3 DEF Asking, Clearing, Same, Looking, Key
<1>5. Holder(p) /\ Reader(p) /\ Holder(p)' /\ answer[p] = Pending
  BY <1>3 DEF Inv, Holder, Looking
<1>6. CASE at'[p] # "returned"
  <2>1. Told' = Told
    BY <1>2, <1>3, <1>5, <1>6 DEF Told, Holder, Same, Looking
  <2> QED BY <1>1, <1>4, <2>1, FilesStay, StutterMaps
<1>7. CASE at'[p] = "returned"
  <2>1. answer'[p] \in AnswersTo(Key(p)) \cup {None}
    BY <1>3, <1>5, <1>7 DEF Holder
  <2>2. Key(p) \notin raced => answer'[p] \in seen[p]
    <3>1. CASE Read(p)
      <4>1. answer'[p] = Parsed(content[fd[p]].text) /\ at[p] = "reading"
        BY <1>1, <3>1 DEF Read, Found, TypeOK
      <4> QED BY <1>5, <4>1, CacheAssumption DEF Reader, Parsed
    <3>2. CASE IsFile(p) \/ OpenEntry(p)
      <4>1. entry[Key(p)] = None /\ answer'[p] = None
        BY <1>1, <1>7, <3>2 DEF IsFile, OpenEntry, Found, TypeOK
      <4>2. None \in seen[p]
        BY <1>3, <1>5, <4>1 DEF Reader, Stored
      <4> QED BY <4>1, <4>2
    <3> QED BY <3>1, <3>2
  <2>3. Asking[p] = Key(p) /\ Asking[p] # None /\ Told[p] = Pending /\ Told'[p] = answer'[p]
    BY <1>1, <1>3, <1>5, Maps, CacheAssumption DEF Told, Looking
  <2>4. Told' = [Told EXCEPT ![p] = answer'[p]]
    BY <1>1, <1>2, <2>3, OthersMap
  <2>5. Atomic!Answer(p)
    BY <1>1, <1>4, <2>1, <2>2, <2>3, <2>4, FilesStay DEF Atomic!Answer
  <2> QED BY <2>5, WatchingMaps DEF Atomic!Next
<1> QED BY <1>6, <1>7

LEMMA QuietMaps ==
  ASSUME TypeOK, TypeOK', NEW p \in Procs, \A q \in Procs \ {p} : Same(q),
         at[p] \notin Looking \cup {"clearing"}, at'[p] \notin Looking \cup {"clearing"}
  PROVE  UNCHANGED <<Clearing, Asking, Told>>
BY DEF Clearing, Asking, Told, Same, Key

\* Only the entry of its own key is disturbed by a writer, and only if it is raced for.
LEMMA OneEntry ==
  ASSUME TypeOK, TypeOK', NEW k \in Keys,
         \A j \in Keys \ {k} : entry'[j] = entry[j] /\
                               (entry[j] # None => content'[entry[j]].text = content[entry[j]].text)
  PROVE  store' = [store EXCEPT ![k] = Stored(k)']
<1>1. \A j \in Keys \ {k} : Stored(j)' = Stored(j)
  BY DEF Stored
<1>2. store = [j \in Keys |-> Stored(j)] /\ store' = [j \in Keys |-> Stored(j)']
  BY DEF store, Stored
<1> QED BY <1>1, <1>2

LEMMA OpenMaps ==
  ASSUME Inv, Inv', Watching, NEW p \in Procs, NEW r \in Requests, NEW i \in Inodes,
         OpenTmp(p, r, i)
  PROVE  Atomic!Next \/ UNCHANGED Atomic!vars
<1> DEFINE k == KeyOf(r)
<1>1. /\ TypeOK /\ TypeOK' /\ Apart /\ k \in Keys
      /\ at[p] = "idle" /\ at'[p] = "writing" /\ entry' = entry
      /\ \A q \in Procs \ {p} : Same(q)
      /\ \A j \in Inodes \ {i} : content'[j] = content[j]
      /\ raced' = raced \/ raced' = raced \cup {k}
      /\ tmp[k] = i \/ (tmp[k] = None /\ i \notin InUse)
  BY KeyTypes DEF Inv, OpenTmp, Answered, TemporaryFile, TypeOK, Same
<1>2. \A j \in Keys : entry[j] # i
  BY <1>1, CacheAssumption DEF Apart, InUse
<1>3. store' = store
  <2>1. \A j \in Keys : Stored(j)' = Stored(j)
    BY <1>1, <1>2 DEF Stored, TypeOK
  <2> QED BY <2>1 DEF store, Stored
<1>4. UNCHANGED <<Clearing, Asking, Told>>
  BY <1>1, QuietMaps DEF Looking
<1>5. CASE raced' = raced
  BY <1>3, <1>4, <1>5, StutterMaps
<1>6. CASE raced' = raced \cup {k}
  <2>1. Atomic!Dispute(k)
    BY <1>3, <1>4, <1>6 DEF Atomic!Dispute
  <2> QED BY <1>1, <2>1, WatchingMaps DEF Atomic!Next
<1> QED BY <1>1, <1>5, <1>6

LEMMA WriteMaps ==
  ASSUME Inv, Inv', Watching, NEW p \in Procs, WritePart(p) \/ Write(p)
  PROVE  Atomic!Next \/ UNCHANGED Atomic!vars
<1> DEFINE i == fd[p]
<1>0. PICK k \in Keys : k = Key(p)
  BY KeyOfProc DEF Inv
<1>1. /\ TypeOK /\ TypeOK' /\ Apart /\ Holder(p) /\ k \in Keys /\ Alone(k) /\ Texts(k)'
      /\ at[p] = "writing" /\ UNCHANGED <<tmp, entry, raced>>
  BY <1>0 DEF Inv, WritePart, Write
<1>2. /\ at'[p] \in {"writing", "written"} /\ i \in Inodes
      /\ \A q \in Procs \ {p} : Same(q)
      /\ \A j \in Inodes \ {i} : content'[j] = content[j]
  BY <1>1 DEF WritePart, Write, proc, TypeOK, Same, Holder
<1>3. UNCHANGED <<Clearing, Asking, Told>>
  BY <1>1, <1>2, QuietMaps DEF Looking
<1>4. \A j \in Keys : entry[j] = i => j = k /\ k \in raced
  BY <1>0, <1>1, <1>2, CacheAssumption DEF Holder, Apart, Alone, Putting
<1>5. store' = [store EXCEPT ![k] = Stored(k)']
  BY <1>1, <1>2, <1>4, OneEntry DEF TypeOK
<1>6. CASE k \in raced
  <2>1. Stored(k)' \in AnswersTo(k) \cup {None}
    BY <1>1 DEF Stored, Parsed, Texts
  <2>2. Atomic!Disturb(k)
    BY <1>1, <1>3, <1>5, <1>6, <2>1 DEF Atomic!Disturb
  <2> QED BY <1>1, <2>2, WatchingMaps DEF Atomic!Next
<1>7. CASE k \notin raced
  <2>1. Stored(k)' = Stored(k)
    BY <1>1, <1>2, <1>4, <1>7 DEF Stored, TypeOK
  <2>2. store' = store
    BY <1>5, <2>1, <1>1 DEF store
  <2> QED BY <1>1, <1>3, <2>2, StutterMaps
<1> QED BY <1>6, <1>7

LEMMA RenameMaps ==
  ASSUME Inv, Inv', Watching, NEW p \in Procs, Rename(p)
  PROVE  Atomic!Next
<1>0. PICK k \in Keys : k = Key(p)
  BY KeyOfProc DEF Inv
<1>1. /\ TypeOK /\ TypeOK' /\ Holder(p) /\ k \in Keys /\ Alone(k) /\ Texts(k)'
      /\ at[p] = "written" /\ tmp[k] # None
      /\ entry' = [entry EXCEPT ![k] = tmp[k]]
      /\ UNCHANGED <<content, raced>>
  BY <1>0 DEF Inv, Rename, Unlinked
<1>2. /\ at'[p] = "idle" /\ entry'[k] = tmp[k]
      /\ \A q \in Procs \ {p} : Same(q)
      /\ \A j \in Keys \ {k} : entry'[j] = entry[j]
  BY <1>1 DEF Rename, TypeOK, Same
<1>3. UNCHANGED <<Clearing, Asking, Told>>
  BY <1>1, <1>2, QuietMaps DEF Looking
<1>4. store' = [store EXCEPT ![k] = Stored(k)']
  BY <1>1, <1>2, OneEntry
<1>5. CASE k \in raced
  <2>1. Stored(k)' \in AnswersTo(k) \cup {None}
    BY <1>1 DEF Stored, Parsed, Texts
  <2>2. Atomic!Disturb(k)
    BY <1>1, <1>3, <1>4, <1>5, <2>1 DEF Atomic!Disturb
  <2> QED BY <1>1, <2>2, WatchingMaps DEF Atomic!Next
<1>6. CASE k \notin raced
  <2>1. content[tmp[k]].text = answer[p] /\ answer[p] \in AnswersTo(k)
    BY <1>0, <1>1, <1>6 DEF Alone, Holder, Putting
  <2>2. Stored(k)' = answer[p]
    BY <1>1, <1>2, <2>1, KeyTypes, CacheAssumption DEF Stored, Parsed
  <2>3. Atomic!Save(k)
    BY <1>1, <1>3, <1>4, <2>1, <2>2 DEF Atomic!Save
  <2> QED BY <1>1, <2>3, WatchingMaps DEF Atomic!Next
<1> QED BY <1>5, <1>6

LEMMA ClearMaps ==
  ASSUME Inv, Inv', Watching, NEW p \in Procs, StartClear(p) \/ \E k \in Keys : Unlink(p, k)
  PROVE  Atomic!Next
<1>0. TypeOK /\ TypeOK'
  BY DEF Inv
<1>1. CASE StartClear(p)
  <2>1. /\ at[p] = "off" /\ at'[p] = "clearing" /\ UNCHANGED <<entry, content, raced>>
        /\ \A q \in Procs \ {p} : Same(q)
    BY <1>0, <1>1 DEF StartClear, TypeOK, files, Same
  <2>2. /\ Asking' = Asking /\ Told' = Told /\ Asking[p] = None
        /\ Clearing' = Clearing \cup {p}
    BY <1>0, <2>1, OthersMap DEF Asking, Told, Looking, Same, Key
  <2>3. Atomic!StartClear(p)
    BY <2>1, <2>2, FilesStay DEF Atomic!StartClear
  <2> QED BY <2>3, WatchingMaps DEF Atomic!Next
<1>2. CASE \E k \in Keys : Unlink(p, k)
  <2>1. PICK k \in Keys : Unlink(p, k)
    BY <1>2
  <2>2. /\ entry' = [entry EXCEPT ![k] = None] /\ at[p] = "clearing"
        /\ UNCHANGED <<at, request, answer, fd, content, raced>>
    BY <2>1 DEF Unlink
  <2>3. UNCHANGED <<Clearing, Asking, Told>> /\ Clearing # {}
    BY <2>2 DEF Clearing, Asking, Told, Key
  <2>4. Stored(k)' = None
    BY <1>0, <2>2 DEF Stored, TypeOK
  <2>5. store' = [store EXCEPT ![k] = None]
    BY <1>0, <2>2, <2>4, OneEntry DEF TypeOK
  <2>6. Atomic!Remove(k)
    BY <2>2, <2>3, <2>5 DEF Atomic!Remove
  <2> QED BY <2>6, WatchingMaps DEF Atomic!Next
<1> QED BY <1>1, <1>2

\* The cache implements AtomicCache: gets are atomic and answers stay, for every key that
\* two processes do not write at once.
THEOREM CacheKeepsItsPromise == Spec => CacheIsAtomic
<1>1. Init => Atomic!Init
  BY DEF Init, Atomic!Init, store, Stored, Clearing, Asking, Told, Looking
<1>2. Inv /\ Inv' /\ [Next]_vars => [Atomic!Next]_(Atomic!vars)
  <2> SUFFICES ASSUME Inv, Inv', [Next]_vars PROVE Atomic!Next \/ UNCHANGED Atomic!vars
    BY DEF Atomic!vars
  <2>1. CASE UNCHANGED vars
    BY <2>1 DEF vars, proc, files, Atomic!vars, store, Stored, Clearing, Asking, Told, Key
  <2>2. CASE Next
    <3>1. Watching /\ \E p \in Procs : Step(p)
      BY <2>2 DEF Next
    <3> QED BY <3>1, LeaveMaps, BetweenMaps, AskMaps, AnswerMaps, OpenMaps, WriteMaps,
               RenameMaps, ClearMaps DEF Step
  <2> QED BY <2>1, <2>2
<1> QED BY <1>1, <1>2, Invariance, PTL DEF Spec, CacheIsAtomic, Atomic!Spec
=============================================================================
