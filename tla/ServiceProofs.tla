---------------------------- MODULE ServiceProofs ----------------------------
(***************************************************************************)
(* Language servers, for any documents, versions, restarts and notices: a  *)
(* server that is ready has what the client has, since what is on its way  *)
(* to it, read to the end, comes to the documents that are open; and what  *)
(* it says of them is said of the text they have, as long as no two texts  *)
(* share a version.  And at the end the services side by side: whatever a  *)
(* part keeps on its own it keeps among the others.                        *)
(***************************************************************************)
EXTENDS MCServices, ExchangeProofs, OperationProofs, UndoProofs

(***************************************************************************)
(* Documents.                                                              *)
(***************************************************************************)
\* The texts clients give to documents, and what a notification says.
OpenText == [version : Versions, text : 1 .. MaxTexts]
KnownText == OpenText \cup {Absent}
Notification == [kind : {"open", "change", "close"}, doc : Doc, as : KnownText]

\* k[i] is what the server knows once it has read i notifications.
Reads(k, known, notes) ==
  /\ k \in [0 .. Len(notes) -> [Doc -> KnownText]]
  /\ k[0] = known
  /\ \A i \in 1 .. Len(notes) : k[i] = Understood(k[i - 1], notes[i])

\* Reading one after the other has one outcome: of two that differ there would
\* be a first notification after which they do.
LEMMA ReadingIs ==
  ASSUME NEW known, NEW notes, Len(notes) \in Nat, NEW k, Reads(k, known, notes)
  PROVE  AfterReading(known, notes) = k[Len(notes)]
<1> DEFINE N == 0 .. Len(notes)
           Solves(f) == f = [i \in N |-> IF i = 0 THEN known ELSE Understood(f[i - 1], notes[i])]
<1>1. Solves(k)
  <2>1. DOMAIN k = N /\ k = [i \in N |-> k[i]]
    BY DEF Reads
  <2>2. \A i \in N : i # 0 => i \in 1 .. Len(notes)
    OBVIOUS
  <2>3. \A i \in N : k[i] = IF i = 0 THEN known ELSE Understood(k[i - 1], notes[i])
    BY <2>2 DEF Reads
  <2> QED BY <2>1, <2>3, Zenon
<1>2. Solves(CHOOSE g : Solves(g))
  BY <1>1, Zenon
<1> DEFINE h == CHOOSE g : Solves(g)
<1>3. AfterReading(known, notes) = h[Len(notes)]
  BY DEF AfterReading
<1> HIDE DEF h
<1>4. \A i \in N : h[i] = IF i = 0 THEN known ELSE Understood(h[i - 1], notes[i])
  BY <1>2 DEF h
<1> DEFINE T == {i \in N : h[i] # k[i]}
<1>5. T = {}
  <2> SUFFICES ASSUME T # {} PROVE FALSE
    OBVIOUS
  <2>1. T \subseteq Nat
    OBVIOUS
  <2>2. PICK i \in T : \A j \in T : i <= j
    BY <2>1, LeastElement
  <2>3. i # 0
    BY <1>4 DEF Reads
  <2>4. i - 1 \in N /\ i - 1 \notin T /\ i \in 1 .. Len(notes)
    BY <2>2, <2>3
  <2>5. h[i - 1] = k[i - 1]
    BY <2>4
  <2>6. h[i] = Understood(h[i - 1], notes[i])
    BY <1>4, <2>3
  <2>7. k[i] = Understood(k[i - 1], notes[i])
    BY <2>4 DEF Reads
  <2> QED BY <2>2, <2>5, <2>6, <2>7
<1> QED BY <1>3, <1>5

Opened == {d \in Doc : IsOpen(d)}

\* The form of the stores and of what is between the two sides.
LspShape ==
  /\ texts \in 0 .. MaxTexts /\ spawned \in Nat /\ connection \in 0 .. spawned
  /\ running \subseteq 1 .. spawned
  /\ documents \in [Doc -> KnownText] /\ \A d \in Doc : documents[d].text <= texts
  /\ IsFiniteSet(Opened)
  /\ DOMAIN diagnostics = Doc
  /\ \A d \in Doc :
       diagnostics[d] \in [state : {"none", "fresh", "stale", "unknown"}, version : Nat, text : Nat]
  /\ pipe \in Seq(Notification) /\ DOMAIN view = Doc
  /\ inbox \in Seq([doc : Doc, version : Nat, text : Nat])

\* Where the actor is, what state it shows and whether it has a connection.
LspPlaces ==
  /\ {hears, stop_asked} \subseteq BOOLEAN
  /\ starts \in 1 .. MaxAttempts + 1
  /\ actor_at \in {"spawn", "shake", "idle", "ping", "stopping", "over"}
  /\ server_state \in {"Starting", "Initializing", "Ready", "Reconnecting", "Failed",
                       "ShuttingDown", "Stopped"}
  /\ actor_at = "spawn" => server_state = "Starting"
  /\ actor_at = "shake" => server_state = "Initializing"
  /\ actor_at = "ping" => server_state = "Ready"
  /\ actor_at = "idle" => server_state \in {"Ready", "Reconnecting", "Failed"}
  /\ server_state \in {"Starting", "Initializing", "Ready", "Reconnecting"} =>
       starts <= MaxAttempts
  /\ server_state \in {"Starting", "Reconnecting", "Failed"} => connection = 0
  /\ connection = 0 \/ actor_at = "shake" => pipe = <<>> /\ view = NoDocuments

\* Where every text has a version of its own: what names a text by its version.
Named(x) == x.version = FirstVersion + x.text - 1
StoresNamed ==
  /\ \A d \in Doc : IsOpen(d) => Named(documents[d])
  /\ \A d \in Doc : diagnostics[d].state = "fresh" =>
       /\ diagnostics[d].version = documents[d].version
       /\ Named(diagnostics[d]) /\ diagnostics[d].version # 0
PipeNamed == \A i \in 1 .. Len(pipe) : pipe[i].as # Absent => Named(pipe[i].as)
ViewNamed == connection \in running => \A d \in Doc : view[d] # Absent => Named(view[d])
InboxNamed ==
  \A i \in 1 .. Len(inbox) : inbox[i].version # NoVersion => Named(inbox[i]) /\ inbox[i].version # 0
Names == StoresNamed /\ PipeNamed /\ ViewNamed /\ InboxNamed

\* The server is in step: reading on, it never meets a notification it cannot
\* make sense of, and if it is ready it comes to the documents that are open.
InStep ==
  connection \in running =>
    \E k : Reads(k, view, pipe) /\ (server_state = "Ready" => k[Len(pipe)] = documents)

\* What a text is not.
LEMMA TextIs ==
  ASSUME NEW x \in KnownText
  PROVE  /\ x # Confused /\ x.version \in Nat /\ x.text \in Nat /\ x.version # NoVersion
         /\ x.text <= MaxTexts
         /\ x # Absent => x \in OpenText /\ x.version \in Versions /\ x.text \in 1 .. MaxTexts
<1>0. FirstVersion \in Nat /\ MaxTexts \in Nat
  BY LspAssumption DEF LspConfig
<1>1. CASE x = Absent
  BY <1>0, <1>1 DEF Absent, Confused, NoVersion
<1>2. CASE x \in OpenText
  BY <1>0, <1>2 DEF OpenText, Absent, Confused, NoVersion, Versions
<1> QED BY <1>1, <1>2 DEF KnownText

LEMMA NothingToRead ==
  ASSUME NEW known \in [Doc -> KnownText]
  PROVE  \E k : Reads(k, known, <<>>) /\ k[Len(<<>>)] = known
<1> DEFINE k == [i \in {0} |-> known]
<1>1. Len(<<>>) = 0 /\ 0 .. 0 = {0} /\ 1 .. 0 = {}
  OBVIOUS
<1>2. Reads(k, known, <<>>)
  BY <1>1 DEF Reads
<1>3. k[Len(<<>>)] = known
  BY <1>1
<1> HIDE DEF k
<1> QED BY <1>2, <1>3

LEMMA OneMoreToRead ==
  ASSUME NEW known, NEW notes \in Seq(Notification), NEW k, Reads(k, known, notes),
         NEW n \in Notification, Understood(k[Len(notes)], n) \in [Doc -> KnownText]
  PROVE  \E m : /\ Reads(m, known, Append(notes, n))
                /\ m[Len(Append(notes, n))] = Understood(k[Len(notes)], n)
<1> DEFINE more == Append(notes, n)
           new == Understood(k[Len(notes)], n)
           m == [i \in 0 .. Len(more) |-> IF i = Len(more) THEN new ELSE k[i]]
<1>1. /\ Len(notes) \in Nat /\ Len(more) = Len(notes) + 1 /\ more[Len(more)] = n
      /\ \A i \in 1 .. Len(notes) : more[i] = notes[i]
  OBVIOUS
<1>2. /\ k \in [0 .. Len(notes) -> [Doc -> KnownText]] /\ k[0] = known
      /\ \A i \in 1 .. Len(notes) : k[i] = Understood(k[i - 1], notes[i])
  BY DEF Reads
<1> HIDE DEF more
<1>3. \A i \in 0 .. Len(more) : i # Len(more) => i \in 0 .. Len(notes)
  BY <1>1
<1>4. m \in [0 .. Len(more) -> [Doc -> KnownText]]
  <2> HIDE DEF new
  <2>1. new \in [Doc -> KnownText]
    BY DEF new
  <2> QED BY <1>2, <1>3, <2>1
<1>5. m[0] = known
  BY <1>1, <1>2
<1>6. \A i \in 1 .. Len(more) : m[i] = Understood(m[i - 1], more[i])
  <2> SUFFICES ASSUME NEW i \in 1 .. Len(more) PROVE m[i] = Understood(m[i - 1], more[i])
    OBVIOUS
  <2>1. i - 1 \in 0 .. Len(notes) /\ i - 1 # Len(more) /\ i - 1 \in 0 .. Len(more)
    BY <1>1
  <2>2. m[i - 1] = k[i - 1]
    BY <2>1
  <2>3. CASE i = Len(more)
    <3>1. m[i] = new /\ k[i - 1] = k[Len(notes)] /\ more[i] = n
      BY <1>1, <2>3
    <3> QED BY <2>2, <3>1
  <2>4. CASE i # Len(more)
    <3>1. i \in 1 .. Len(notes)
      BY <1>1, <2>4
    <3>2. m[i] = k[i] /\ more[i] = notes[i] /\ k[i] = Understood(k[i - 1], notes[i])
      BY <1>1, <1>2, <2>4, <3>1
    <3> QED BY <2>2, <3>2
  <2> QED BY <2>3, <2>4
<1>7. m[Len(more)] = new
  BY <1>1
<1> HIDE DEF m, new
<1>8. Reads(m, known, more)
  BY <1>4, <1>5, <1>6 DEF Reads
<1> QED BY <1>7, <1>8 DEF more, new

LEMMA OneLessToRead ==
  ASSUME NEW known, NEW notes \in Seq(Notification), notes # <<>>, NEW k, Reads(k, known, notes)
  PROVE  \E m : /\ Reads(m, Understood(known, Head(notes)), Tail(notes))
                /\ m[Len(Tail(notes))] = k[Len(notes)]
<1> DEFINE rest == Tail(notes)
           m == [i \in 0 .. Len(rest) |-> k[i + 1]]
<1>1. /\ Len(notes) \in Nat \ {0} /\ Len(rest) = Len(notes) - 1 /\ Head(notes) = notes[1]
      /\ \A i \in 1 .. Len(rest) : rest[i] = notes[i + 1]
  OBVIOUS
<1>2. /\ k \in [0 .. Len(notes) -> [Doc -> KnownText]] /\ k[0] = known
      /\ \A i \in 1 .. Len(notes) : k[i] = Understood(k[i - 1], notes[i])
  BY DEF Reads
<1> HIDE DEF rest
<1>3. \A i \in 0 .. Len(rest) : i + 1 \in 1 .. Len(notes) /\ (i + 1) - 1 = i
  BY <1>1
<1>4. m \in [0 .. Len(rest) -> [Doc -> KnownText]]
  BY <1>1, <1>2, <1>3
<1>5. m[0] = Understood(known, Head(notes))
  <2>1. m[0] = k[1] /\ 1 \in 1 .. Len(notes)
    BY <1>1
  <2>2. k[1] = Understood(k[1 - 1], notes[1])
    BY <1>2, <2>1
  <2> QED BY <1>1, <1>2, <2>1, <2>2
<1>6. \A i \in 1 .. Len(rest) : m[i] = Understood(m[i - 1], rest[i])
  <2> SUFFICES ASSUME NEW i \in 1 .. Len(rest) PROVE m[i] = Understood(m[i - 1], rest[i])
    OBVIOUS
  <2>1. m[i] = k[i + 1] /\ m[i - 1] = k[i] /\ rest[i] = notes[i + 1]
    BY <1>1
  <2>2. k[i + 1] = Understood(k[(i + 1) - 1], notes[i + 1])
    BY <1>2, <1>3
  <2>3. (i + 1) - 1 = i
    OBVIOUS
  <2> QED BY <2>1, <2>2, <2>3
<1>7. m[Len(rest)] = k[Len(notes)]
  BY <1>1
<1> HIDE DEF m
<1>8. Reads(m, Understood(known, Head(notes)), rest)
  BY <1>4, <1>5, <1>6 DEF Reads
<1> QED BY <1>7, <1>8 DEF rest

\* A replay names every open document once, and whoever reads it knows them.
LEMMA ReplayIs ==
  ASSUME NEW S, IsFiniteSet(S)
  PROVE  /\ SetToSeq(S) \in Seq(S) /\ Len(SetToSeq(S)) = Cardinality(S)
         /\ \A x \in S : \E i \in 1 .. Len(SetToSeq(S)) : SetToSeq(S)[i] = x
         /\ \A i, j \in 1 .. Len(SetToSeq(S)) : SetToSeq(S)[i] = SetToSeq(S)[j] => i = j
<1> DEFINE D == 1 .. Cardinality(S)
<1>1. Cardinality(S) \in Nat /\ ExistsBijection(D, S)
  BY FS_CardinalityType
<1>2. PICK b : b \in [D -> S] /\ IsInjective(b)
  BY <1>1 DEF ExistsBijection, Bijection, Injection
<1>3. SetToSeq(S) \in [D -> S] /\ IsInjective(SetToSeq(S))
  BY <1>2, Zenon DEF SetToSeq
<1> DEFINE s == SetToSeq(S)
<1> HIDE DEF s
<1>4. s \in Seq(S) /\ Len(s) = Cardinality(S) /\ DOMAIN s = D
  BY <1>1, <1>3 DEF s
<1>5. s \in Injection(D, S)
  BY <1>3 DEF Injection, s
<1>6. IsFiniteSet(D) /\ Cardinality(D) = Cardinality(S)
  BY <1>1, FS_Interval
<1>7. s \in Surjection(D, S)
  BY <1>5, <1>6, FS_Injection
<1>8. \A x \in S : \E i \in D : s[i] = x
  BY <1>7 DEF Surjection
<1>9. \A i, j \in D : s[i] = s[j] => i = j
  BY <1>3, <1>4 DEF IsInjective, s
<1> QED BY <1>1, <1>4, <1>8, <1>9 DEF s

\* What the actor answers a client changes.
LEMMA CommandIs ==
  ASSUME LspShape, LspPlaces, NEW d \in Doc, Open(d) \/ Change(d) \/ CloseDocument(d)
  PROVE  /\ actor_at = "idle" /\ Keeps
         /\ documents' = [documents EXCEPT ![d] = documents'[d]]
         /\ documents'[d] \in KnownText /\ documents'[d].text <= texts'
         /\ texts' \in {texts, texts + 1} /\ texts' \in 0 .. MaxTexts
         /\ \E kind \in {"open", "change", "close"} :
              /\ Tells(kind, d, documents'[d])
              /\ (kind = "open") = ~IsOpen(d)
              /\ (kind = "close") = (documents'[d] = Absent)
         /\ documents'[d] # Absent =>
              /\ documents'[d].text = texts + 1
              /\ Reused \/ documents'[d].version = FirstVersion + texts
<1>0. FirstVersion \in Nat /\ MaxTexts \in Nat /\ texts \in Nat
  BY LspAssumption DEF LspConfig, LspShape
<1>1. documents \in [Doc -> KnownText] /\ texts \in 0 .. MaxTexts
  BY DEF LspShape
<1>2. ASSUME NEW v \in Versions, texts < MaxTexts
      PROVE  /\ [version |-> v, text |-> texts + 1] \in KnownText
             /\ [version |-> v, text |-> texts + 1] # Absent
  BY <1>0, <1>2 DEF KnownText, OpenText, Absent
<1>3. CASE Open(d)
  <2>1. PICK v \in NewVersions(FirstVersion) :
          /\ documents' = [documents EXCEPT ![d] = [version |-> v, text |-> texts']]
          /\ Tells("open", d, documents'[d])
    BY <1>3 DEF Open
  <2>2. texts < MaxTexts /\ texts' = texts + 1 /\ ~IsOpen(d) /\ Keeps /\ actor_at = "idle"
    BY <1>3 DEF Open, Selecting
  <2>3. v \in Versions /\ (Reused \/ v = FirstVersion + texts)
    BY DEF NewVersions
  <2>4. documents'[d] = [version |-> v, text |-> texts + 1]
    BY <1>1, <2>1, <2>2
  <2>5. documents'[d] \in KnownText /\ documents'[d] # Absent
    BY <1>2, <2>2, <2>3, <2>4
  <2>6. texts' \in 0 .. MaxTexts /\ documents'[d].text = texts + 1
        /\ documents'[d].version = v
    BY <1>0, <2>2, <2>4
  <2>7. documents' = [documents EXCEPT ![d] = documents'[d]]
    BY <1>1, <2>1, <2>2, <2>4
  <2> QED BY <1>0, <2>1, <2>2, <2>3, <2>5, <2>6, <2>7
<1>4. CASE Change(d)
  <2>1. PICK v \in NewVersions(documents[d].version) :
          documents' = [documents EXCEPT ![d] = [version |-> v, text |-> texts']]
    BY <1>4 DEF Change
  <2>2. /\ texts < MaxTexts /\ texts' = texts + 1 /\ IsOpen(d) /\ Keeps /\ actor_at = "idle"
        /\ Tells("change", d, documents'[d])
    BY <1>4 DEF Change, Selecting
  <2>3. v \in Versions /\ (Reused \/ v = FirstVersion + texts)
    BY DEF NewVersions
  <2>4. documents'[d] = [version |-> v, text |-> texts + 1]
    BY <1>1, <2>1, <2>2
  <2>5. documents'[d] \in KnownText /\ documents'[d] # Absent
    BY <1>2, <2>2, <2>3, <2>4
  <2>6. texts' \in 0 .. MaxTexts /\ documents'[d].text = texts + 1
        /\ documents'[d].version = v
    BY <1>0, <2>2, <2>4
  <2>7. documents' = [documents EXCEPT ![d] = documents'[d]]
    BY <1>1, <2>1, <2>2, <2>4
  <2> QED BY <1>0, <2>2, <2>3, <2>5, <2>6, <2>7
<1>5. CASE CloseDocument(d)
  <2>1. /\ documents' = [documents EXCEPT ![d] = Absent] /\ IsOpen(d) /\ Keeps
        /\ Tells("close", d, Absent) /\ texts' = texts /\ actor_at = "idle"
    BY <1>5 DEF CloseDocument, Selecting
  <2>2. documents'[d] = Absent /\ Absent \in KnownText /\ Absent.text = 0
    BY <1>1, <2>1 DEF KnownText, Absent
  <2>3. documents' = [documents EXCEPT ![d] = documents'[d]]
    BY <1>1, <2>1, <2>2
  <2> QED BY <1>0, <1>1, <2>1, <2>2, <2>3
<1> QED BY <1>3, <1>4, <1>5

\* The state the actor shows goes with where it is.
LEMMA LspPlacesKept ==
  ASSUME LspShape, LspPlaces, [LspNext]_lspVars
  PROVE  LspPlaces'
<1> USE DEF LspPlaces, actorVars, storeVars, connectionVars
<1>1. CASE Spawn
  BY <1>1 DEF Spawn
<1>2. CASE SpawnFails
  BY <1>2 DEF SpawnFails
<1>3. CASE Handshake
  <2>1. UNCHANGED pipe \/ connection \in running
    BY <1>3 DEF Handshake
  <2>2. 0 \notin running
    BY DEF LspShape
  <2> QED BY <1>3, <2>1, <2>2 DEF Handshake
<1>4. CASE HandshakeFails
  <2>1. /\ starts' = starts + 1 /\ actor_at' = "idle" /\ connection' = 0 /\ UNCHANGED stop_asked
        /\ server_state' = IF starts' > MaxAttempts THEN "Failed" ELSE "Reconnecting"
        /\ hears' = FALSE /\ pipe' = <<>> /\ view' = NoDocuments
        /\ server_state \in {"Initializing", "Ready"}
    BY <1>4 DEF HandshakeFails, EnterReconnecting, Disconnects
  <2>2. MaxAttempts \in Nat /\ starts <= MaxAttempts /\ starts \in Nat /\ starts >= 1
    BY <2>1, LspAssumption DEF LspConfig
  <2>3. starts' \in 1 .. MaxAttempts + 1
        /\ (server_state' = "Failed" \/ (server_state' = "Reconnecting" /\ starts' <= MaxAttempts))
    BY <2>1, <2>2
  <2> QED BY <2>1, <2>3
<1>5. CASE TakePublication
  BY <1>5 DEF TakePublication, Selecting
<1>6. CASE SeesDeath
  <2>1. /\ starts' = starts + 1 /\ actor_at' = "idle" /\ connection' = 0 /\ UNCHANGED stop_asked
        /\ server_state' = IF starts' > MaxAttempts THEN "Failed" ELSE "Reconnecting"
        /\ hears' = FALSE /\ pipe' = <<>> /\ view' = NoDocuments
        /\ server_state \in {"Initializing", "Ready"}
    BY <1>6 DEF SeesDeath, Selecting, EnterReconnecting, Disconnects
  <2>2. MaxAttempts \in Nat /\ starts <= MaxAttempts /\ starts \in Nat /\ starts >= 1
    BY <2>1, LspAssumption DEF LspConfig
  <2>3. starts' \in 1 .. MaxAttempts + 1
        /\ (server_state' = "Failed" \/ (server_state' = "Reconnecting" /\ starts' <= MaxAttempts))
    BY <2>1, <2>2
  <2> QED BY <2>1, <2>3
<1>7. CASE Ping
  BY <1>7 DEF Ping, Selecting
<1>8. CASE PingAnswered
  BY <1>8 DEF PingAnswered
<1>9. CASE PingFails
  <2>1. /\ starts' = starts + 1 /\ actor_at' = "idle" /\ connection' = 0 /\ UNCHANGED stop_asked
        /\ server_state' = IF starts' > MaxAttempts THEN "Failed" ELSE "Reconnecting"
        /\ hears' = FALSE /\ pipe' = <<>> /\ view' = NoDocuments
        /\ server_state \in {"Initializing", "Ready"}
    BY <1>9 DEF PingFails, EnterReconnecting, Disconnects
  <2>2. MaxAttempts \in Nat /\ starts <= MaxAttempts /\ starts \in Nat /\ starts >= 1
    BY <2>1, LspAssumption DEF LspConfig
  <2>3. starts' \in 1 .. MaxAttempts + 1
        /\ (server_state' = "Failed" \/ (server_state' = "Reconnecting" /\ starts' <= MaxAttempts))
    BY <2>1, <2>2
  <2> QED BY <2>1, <2>3
<1>10. CASE Restart
  BY <1>10 DEF Restart, Selecting
<1>11. CASE Stop
  BY <1>11 DEF Stop
<1>12. CASE Stopped
  BY <1>12 DEF Stopped, Disconnects
<1>13. CASE SendersDropped
  BY <1>13 DEF SendersDropped, Selecting
<1>14. CASE AskStop
  BY <1>14 DEF AskStop
<1>15. CASE ServerReads
  BY <1>15 DEF ServerReads
<1>16. CASE ServerExits
  BY <1>16 DEF ServerExits
<1>17. CASE ReadLoopEnds
  BY <1>17 DEF ReadLoopEnds
<1>18. CASE \E d \in Doc : Open(d)
  <2>1. PICK d \in Doc : Open(d)
    BY <1>18
  <2>2. UNCHANGED pipe \/ connection \in running
    BY <2>1 DEF Open, Tells
  <2>3. 0 \notin running
    BY DEF LspShape
  <2>4. UNCHANGED <<actorVars, connection, spawned, running, hears, view, inbox, stop_asked>>
        /\ actor_at = "idle"
    BY <2>1 DEF Open, Keeps, Selecting
  <2> QED BY <2>2, <2>3, <2>4
<1>19. CASE \E d \in Doc : Change(d)
  <2>1. PICK d \in Doc : Change(d)
    BY <1>19
  <2>2. UNCHANGED pipe \/ connection \in running
    BY <2>1 DEF Change, Tells
  <2>3. 0 \notin running
    BY DEF LspShape
  <2>4. UNCHANGED <<actorVars, connection, spawned, running, hears, view, inbox, stop_asked>>
        /\ actor_at = "idle"
    BY <2>1 DEF Change, Keeps, Selecting
  <2> QED BY <2>2, <2>3, <2>4
<1>20. CASE \E d \in Doc : CloseDocument(d)
  <2>1. PICK d \in Doc : CloseDocument(d)
    BY <1>20
  <2>2. UNCHANGED pipe \/ connection \in running
    BY <2>1 DEF CloseDocument, Tells
  <2>3. 0 \notin running
    BY DEF LspShape
  <2>4. UNCHANGED <<actorVars, connection, spawned, running, hears, view, inbox, stop_asked>>
        /\ actor_at = "idle"
    BY <2>1 DEF CloseDocument, Keeps, Selecting
  <2> QED BY <2>2, <2>3, <2>4
<1>21. CASE \E d \in Doc : ServerPublishes(d)
  BY <1>21 DEF ServerPublishes
<1>22. CASE UNCHANGED lspVars
  BY <1>22 DEF lspVars
<1> QED BY <1>1, <1>2, <1>3, <1>4, <1>5, <1>6, <1>7, <1>8, <1>9, <1>10, <1>11, <1>12, <1>13,
   <1>14, <1>15, <1>16, <1>17, <1>18, <1>19, <1>20, <1>21, <1>22 DEF LspNext, ActorStep


LEMMA SameOpen == UNCHANGED documents => UNCHANGED Opened
BY DEF Opened, IsOpen

\* What a change of its document makes of an entry.
LEMMA AfterIs ==
  ASSUME NEW entry \in [state : {"none", "fresh", "stale", "unknown"}, version : Nat, text : Nat],
         NEW version
  PROVE  /\ AfterChange(entry, version) \in
              [state : {"none", "fresh", "stale", "unknown"}, version : Nat, text : Nat]
         /\ AfterChange(entry, version).version = entry.version
         /\ AfterChange(entry, version).text = entry.text
         /\ AfterChange(entry, version).state = "fresh" =>
              entry.state = "fresh" /\ entry.version = version
  BY DEF AfterChange

\* The replay of the open documents.
Replay == SetToSeq({DidOpen(d) : d \in {e \in Doc : IsOpen(e)}})

LEMMA ReplayNames ==
  ASSUME LspShape
  PROVE  /\ Replay \in Seq(Notification)
         /\ \A i \in 1 .. Len(Replay) :
              \E d \in Doc : IsOpen(d) /\ Replay[i] = DidOpen(d)
         /\ \A d \in Doc : IsOpen(d) => \E i \in 1 .. Len(Replay) : Replay[i] = DidOpen(d)
         /\ \A i, j \in 1 .. Len(Replay) : Replay[i] = Replay[j] => i = j
<1> DEFINE S == {DidOpen(d) : d \in Opened}
           tell == [d \in Opened |-> DidOpen(d)]
<1>1. IsFiniteSet(Opened)
  BY DEF LspShape
<1>2. IsFiniteSet(S)
  <2>1. tell \in Surjection(Opened, S)
    BY DEF Surjection
  <2> QED BY <1>1, <2>1, FS_Surjection
<1>3. S \subseteq Notification
  BY DEF DidOpen, Notification, LspShape, Opened
<1>4. Replay = SetToSeq(S)
  BY DEF Replay, Opened
<1> HIDE DEF S
<1>5. /\ Replay \in Seq(S)
      /\ \A x \in S : \E i \in 1 .. Len(Replay) : Replay[i] = x
      /\ \A i, j \in 1 .. Len(Replay) : Replay[i] = Replay[j] => i = j
  BY <1>2, <1>4, ReplayIs
<1>6. Replay \in Seq(Notification)
  BY <1>3, <1>5, SeqMonotonic
<1>7. \A i \in 1 .. Len(Replay) : Replay[i] \in S
  BY <1>5, ElementOfSeq
<1> QED BY <1>5, <1>6, <1>7 DEF S, Opened

\* A connection that is closed leaves nothing between the two sides.
LEMMA ClosedShape ==
  ASSUME LspShape, Disconnects, UNCHANGED storeVars
  PROVE  LspShape'
<1>1. /\ texts' \in 0 .. MaxTexts /\ spawned' \in Nat
      /\ documents' \in [Doc -> KnownText] /\ \A d \in Doc : documents'[d].text <= texts'
      /\ IsFiniteSet(Opened') /\ DOMAIN diagnostics' = Doc
      /\ \A d \in Doc : diagnostics'[d] \in
           [state : {"none", "fresh", "stale", "unknown"}, version : Nat, text : Nat]
  BY SameOpen DEF LspShape, Disconnects, storeVars
<1>2. connection' \in 0 .. spawned' /\ running' \subseteq 1 .. spawned'
  BY DEF LspShape, Disconnects
<1>3. pipe' = <<>> /\ inbox' = <<>> /\ view' = NoDocuments
  BY DEF Disconnects
<1>4. pipe' \in Seq(Notification) /\ inbox' \in Seq([doc : Doc, version : Nat, text : Nat])
  BY <1>3, EmptySeq
<1>5. DOMAIN view' = Doc
  BY <1>3 DEF NoDocuments
<1> QED BY <1>1, <1>2, <1>4, <1>5 DEF LspShape

\* A server that is in step knows texts.
LEMMA RunningView ==
  ASSUME LspShape, InStep, connection \in running
  PROVE  view \in [Doc -> KnownText]
<1>1. PICK k : Reads(k, view, pipe)
  BY DEF InStep
<1>2. 0 \in 0 .. Len(pipe)
  BY DEF LspShape
<1> QED BY <1>1, <1>2 DEF Reads

\* The stores and what is under way keep their form.
LEMMA LspShapeKept ==
  ASSUME LspShape, LspPlaces, InStep, [LspNext]_lspVars
  PROVE  LspShape'
<1> USE DEF LspShape, actorVars, storeVars, connectionVars
<1>1. CASE Spawn
  <2>1. /\ spawned' = spawned + 1 /\ connection' = spawned + 1
        /\ running' = running \cup {spawned + 1}
        /\ UNCHANGED <<storeVars, pipe, view, inbox>>
    BY <1>1 DEF Spawn
  <2>2. spawned' \in Nat /\ connection' \in 0 .. spawned'
    BY <2>1
  <2>3. running' \subseteq 1 .. spawned'
    <3>1. running \subseteq 1 .. spawned /\ spawned \in Nat
      OBVIOUS
    <3> QED BY <2>1, <3>1
  <2> QED BY <2>1, <2>2, <2>3, SameOpen
<1>2. CASE SpawnFails
  BY <1>2, SameOpen DEF SpawnFails
<1>3. CASE Handshake
  <2>1. /\ pipe' = Replay \/ pipe' = pipe
        /\ diagnostics' = [d \in Doc |-> IF IsOpen(d)
             THEN AfterChange(diagnostics[d], documents[d].version) ELSE diagnostics[d]]
        /\ UNCHANGED <<documents, texts, connection, spawned, running, view, inbox>>
    BY <1>3 DEF Handshake, Replay
  <2>2. pipe' \in Seq(Notification)
    BY <2>1, ReplayNames
  <2>3. /\ DOMAIN diagnostics' = Doc
        /\ \A e \in Doc : diagnostics'[e] \in
             [state : {"none", "fresh", "stale", "unknown"}, version : Nat, text : Nat]
    BY <2>1, AfterIs
  <2>4. UNCHANGED Opened
    BY <2>1, SameOpen
  <2> QED BY <2>1, <2>2, <2>3, <2>4
<1>4. CASE HandshakeFails
  <2>1. Disconnects /\ UNCHANGED storeVars
    BY <1>4 DEF HandshakeFails
  <2> QED BY <2>1, ClosedShape
<1>5. CASE TakePublication
  <2> DEFINE Publication == [doc : Doc, version : Nat, text : Nat]
             p == Head(inbox)
  <2>1. /\ inbox' = Tail(inbox) /\ inbox # <<>>
        /\ diagnostics' = [diagnostics EXCEPT ![p.doc] =
             [state |-> StalenessOf(p.version, documents[p.doc].version),
              version |-> p.version, text |-> p.text]]
        /\ UNCHANGED <<documents, texts, connection, spawned, running, pipe, view>>
    BY <1>5 DEF TakePublication
  <2>2. inbox' \in Seq(Publication) /\ p \in Publication
    BY <2>1, HeadTailProperties
  <2> HIDE DEF p
  <2>3. [state |-> StalenessOf(p.version, documents[p.doc].version), version |-> p.version,
         text |-> p.text] \in
          [state : {"none", "fresh", "stale", "unknown"}, version : Nat, text : Nat]
    BY <2>2 DEF StalenessOf
  <2>4. /\ DOMAIN diagnostics' = Doc
        /\ \A e \in Doc : diagnostics'[e] \in
             [state : {"none", "fresh", "stale", "unknown"}, version : Nat, text : Nat]
    BY <2>1, <2>2, <2>3
  <2> QED BY <2>1, <2>2, <2>4, SameOpen
<1>6. CASE SeesDeath
  <2>1. Disconnects /\ UNCHANGED storeVars
    BY <1>6 DEF SeesDeath
  <2> QED BY <2>1, ClosedShape
<1>7. CASE Ping
  BY <1>7, SameOpen DEF Ping, Selecting
<1>8. CASE PingAnswered
  BY <1>8, SameOpen DEF PingAnswered
<1>9. CASE PingFails
  <2>1. Disconnects /\ UNCHANGED storeVars
    BY <1>9 DEF PingFails
  <2> QED BY <2>1, ClosedShape
<1>10. CASE Restart
  BY <1>10, SameOpen DEF Restart, Selecting
<1>11. CASE Stop
  BY <1>11, SameOpen DEF Stop
<1>12. CASE Stopped
  <2>1. Disconnects /\ UNCHANGED storeVars
    BY <1>12 DEF Stopped
  <2> QED BY <2>1, ClosedShape
<1>13. CASE SendersDropped
  BY <1>13, SameOpen DEF SendersDropped, Selecting
<1>14. CASE AskStop
  BY <1>14, SameOpen DEF AskStop
<1>15. CASE ServerReads
  <2>1. /\ pipe' = Tail(pipe) /\ pipe # <<>> /\ view' = Understood(view, Head(pipe))
        /\ UNCHANGED <<storeVars, connection, spawned, running, inbox>>
    BY <1>15 DEF ServerReads
  <2>2. pipe' \in Seq(Notification)
    BY <2>1, HeadTailProperties
  <2>3. DOMAIN view' = Doc
    BY <2>1 DEF Understood
  <2> QED BY <2>1, <2>2, <2>3, SameOpen
<1>16. CASE ServerExits
  BY <1>16, SameOpen DEF ServerExits
<1>17. CASE ReadLoopEnds
  BY <1>17, SameOpen DEF ReadLoopEnds
<1>18. CASE \E d \in Doc : Open(d)
  <2>1. PICK d \in Doc : Open(d)
    BY <1>18
  <2>2. /\ documents' = [documents EXCEPT ![d] = documents'[d]]
        /\ documents'[d] \in KnownText /\ documents'[d].text <= texts'
        /\ texts' \in {texts, texts + 1} /\ texts' \in 0 .. MaxTexts
    BY <2>1, CommandIs
  <2>3. UNCHANGED <<spawned, connection, running, view, inbox>>
    BY <2>1 DEF Open, Keeps
  <2>4. PICK kind \in {"open", "change", "close"} : Tells(kind, d, documents'[d])
    BY <2>1, CommandIs
  <2>5. pipe' \in Seq(Notification)
    <3>1. [kind |-> kind, doc |-> d, as |-> documents'[d]] \in Notification
      BY <2>2 DEF Notification
    <3> QED BY <2>4, <3>1 DEF Tells
  <2>6. documents' \in [Doc -> KnownText]
    BY <2>2
  <2>7. \A e \in Doc : documents'[e].text <= texts'
    <3> SUFFICES ASSUME NEW e \in Doc PROVE documents'[e].text <= texts'
      OBVIOUS
    <3>1. documents[e].text \in Nat /\ documents[e].text <= texts /\ texts <= texts'
      BY <2>2, TextIs
    <3>2. e # d => documents'[e] = documents[e]
      BY <2>2
    <3> QED BY <2>2, <3>1, <3>2
  <2>8. IsFiniteSet(Opened')
    <3>1. IsFiniteSet(Opened \cup {d})
      BY FS_AddElement
    <3>2. Opened' \in SUBSET (Opened \cup {d})
      BY <2>2 DEF IsOpen, Opened
    <3> QED BY <3>1, <3>2, FS_Subset
  <2>9. /\ DOMAIN diagnostics' = Doc
        /\ \A e \in Doc : diagnostics'[e] \in
             [state : {"none", "fresh", "stale", "unknown"}, version : Nat, text : Nat]
    BY <2>1, <2>2, AfterIs DEF Open, NoEntry
  <2> QED BY <2>2, <2>3, <2>5, <2>6, <2>7, <2>8, <2>9
<1>19. CASE \E d \in Doc : Change(d)
  <2>1. PICK d \in Doc : Change(d)
    BY <1>19
  <2>2. /\ documents' = [documents EXCEPT ![d] = documents'[d]]
        /\ documents'[d] \in KnownText /\ documents'[d].text <= texts'
        /\ texts' \in {texts, texts + 1} /\ texts' \in 0 .. MaxTexts
    BY <2>1, CommandIs
  <2>3. UNCHANGED <<spawned, connection, running, view, inbox>>
    BY <2>1 DEF Change, Keeps
  <2>4. PICK kind \in {"open", "change", "close"} : Tells(kind, d, documents'[d])
    BY <2>1, CommandIs
  <2>5. pipe' \in Seq(Notification)
    <3>1. [kind |-> kind, doc |-> d, as |-> documents'[d]] \in Notification
      BY <2>2 DEF Notification
    <3> QED BY <2>4, <3>1 DEF Tells
  <2>6. documents' \in [Doc -> KnownText]
    BY <2>2
  <2>7. \A e \in Doc : documents'[e].text <= texts'
    <3> SUFFICES ASSUME NEW e \in Doc PROVE documents'[e].text <= texts'
      OBVIOUS
    <3>1. documents[e].text \in Nat /\ documents[e].text <= texts /\ texts <= texts'
      BY <2>2, TextIs
    <3>2. e # d => documents'[e] = documents[e]
      BY <2>2
    <3> QED BY <2>2, <3>1, <3>2
  <2>8. IsFiniteSet(Opened')
    <3>1. IsFiniteSet(Opened \cup {d})
      BY FS_AddElement
    <3>2. Opened' \in SUBSET (Opened \cup {d})
      BY <2>2 DEF IsOpen, Opened
    <3> QED BY <3>1, <3>2, FS_Subset
  <2>9. /\ DOMAIN diagnostics' = Doc
        /\ \A e \in Doc : diagnostics'[e] \in
             [state : {"none", "fresh", "stale", "unknown"}, version : Nat, text : Nat]
    BY <2>1, <2>2, AfterIs DEF Change, NoEntry
  <2> QED BY <2>2, <2>3, <2>5, <2>6, <2>7, <2>8, <2>9
<1>20. CASE \E d \in Doc : CloseDocument(d)
  <2>1. PICK d \in Doc : CloseDocument(d)
    BY <1>20
  <2>2. /\ documents' = [documents EXCEPT ![d] = documents'[d]]
        /\ documents'[d] \in KnownText /\ documents'[d].text <= texts'
        /\ texts' \in {texts, texts + 1} /\ texts' \in 0 .. MaxTexts
    BY <2>1, CommandIs
  <2>3. UNCHANGED <<spawned, connection, running, view, inbox>>
    BY <2>1 DEF CloseDocument, Keeps
  <2>4. PICK kind \in {"open", "change", "close"} : Tells(kind, d, documents'[d])
    BY <2>1, CommandIs
  <2>5. pipe' \in Seq(Notification)
    <3>1. [kind |-> kind, doc |-> d, as |-> documents'[d]] \in Notification
      BY <2>2 DEF Notification
    <3> QED BY <2>4, <3>1 DEF Tells
  <2>6. documents' \in [Doc -> KnownText]
    BY <2>2
  <2>7. \A e \in Doc : documents'[e].text <= texts'
    <3> SUFFICES ASSUME NEW e \in Doc PROVE documents'[e].text <= texts'
      OBVIOUS
    <3>1. documents[e].text \in Nat /\ documents[e].text <= texts /\ texts <= texts'
      BY <2>2, TextIs
    <3>2. e # d => documents'[e] = documents[e]
      BY <2>2
    <3> QED BY <2>2, <3>1, <3>2
  <2>8. IsFiniteSet(Opened')
    <3>1. IsFiniteSet(Opened \cup {d})
      BY FS_AddElement
    <3>2. Opened' \in SUBSET (Opened \cup {d})
      BY <2>2 DEF IsOpen, Opened
    <3> QED BY <3>1, <3>2, FS_Subset
  <2>9. /\ DOMAIN diagnostics' = Doc
        /\ \A e \in Doc : diagnostics'[e] \in
             [state : {"none", "fresh", "stale", "unknown"}, version : Nat, text : Nat]
    BY <2>1, <2>2, AfterIs DEF CloseDocument, NoEntry
  <2> QED BY <2>2, <2>3, <2>5, <2>6, <2>7, <2>8, <2>9
<1>21. CASE \E d \in Doc : ServerPublishes(d)
  <2>1. PICK d \in Doc : ServerPublishes(d)
    BY <1>21
  <2>2. PICK v \in {NoVersion} \cup (IF view[d] = Absent THEN {} ELSE {view[d].version}) :
          inbox' = Append(inbox, [doc |-> d, version |-> v, text |-> view[d].text])
    BY <2>1 DEF ServerPublishes
  <2>3. view[d] \in KnownText
    BY <2>1, RunningView DEF ServerPublishes
  <2>4. [doc |-> d, version |-> v, text |-> view[d].text] \in
          [doc : Doc, version : Nat, text : Nat]
    <3>1. NoVersion \in Nat
      BY LspAssumption DEF LspConfig, NoVersion
    <3> QED BY <2>3, <3>1, TextIs
  <2>5. inbox' \in Seq([doc : Doc, version : Nat, text : Nat])
    BY <2>2, <2>4, AppendProperties
  <2>6. UNCHANGED <<storeVars, connection, spawned, running, pipe, view>>
    BY <2>1 DEF ServerPublishes
  <2> QED BY <2>5, <2>6, SameOpen
<1>22. CASE UNCHANGED lspVars
  BY <1>22, SameOpen DEF lspVars
<1> QED BY <1>1, <1>2, <1>3, <1>4, <1>5, <1>6, <1>7, <1>8, <1>9, <1>10, <1>11, <1>12, <1>13,
   <1>14, <1>15, <1>16, <1>17, <1>18, <1>19, <1>20, <1>21, <1>22 DEF LspNext, ActorStep

\* Reading a replay, a server that knows nothing comes to the open documents.
LEMMA ReplayReads ==
  ASSUME LspShape
  PROVE  \E k : Reads(k, NoDocuments, Replay) /\ k[Len(Replay)] = documents
<1> DEFINE Told(i, d) == \E j \in 1 .. i : Replay[j].doc = d
           at(i) == [d \in Doc |-> IF Told(i, d) THEN documents[d] ELSE Absent]
           k == [i \in 0 .. Len(Replay) |-> at(i)]
<1>1. Replay \in Seq(Notification) /\ Len(Replay) \in Nat
  BY ReplayNames, LenProperties
<1>2. documents \in [Doc -> KnownText] /\ Absent \in KnownText
  BY DEF LspShape, KnownText
<1>3. \A i \in 1 .. Len(Replay) : \E d \in Doc : IsOpen(d) /\ Replay[i] = DidOpen(d)
  BY ReplayNames
<1>12. \A d : DidOpen(d).doc = d
  BY DEF DidOpen
<1>13. \A i \in 1 .. Len(Replay) :
        Replay[i] = DidOpen(Replay[i].doc) /\ Replay[i].doc \in Doc /\ IsOpen(Replay[i].doc)
  <2> SUFFICES ASSUME NEW i \in 1 .. Len(Replay)
               PROVE  /\ Replay[i] = DidOpen(Replay[i].doc) /\ Replay[i].doc \in Doc
                      /\ IsOpen(Replay[i].doc)
    OBVIOUS
  <2>1. PICK d \in Doc : IsOpen(d) /\ Replay[i] = DidOpen(d)
    BY <1>3
  <2>2. Replay[i].doc = d
    BY <1>12, <2>1
  <2> QED BY <2>1, <2>2
<1>4. ASSUME NEW i \in 1 .. Len(Replay), NEW j \in 1 .. Len(Replay), Replay[i].doc = Replay[j].doc
      PROVE  i = j
  <2>1. Replay[i] = Replay[j]
    BY <1>4, <1>13
  <2>2. \A m, n \in 1 .. Len(Replay) : Replay[m] = Replay[n] => m = n
    BY ReplayNames
  <2> QED BY <2>1, <2>2
<1>5. \A i : at(i) \in [Doc -> KnownText]
  BY <1>2
<1>6. at(0) = NoDocuments
  BY DEF NoDocuments
<1>7. ASSUME NEW i \in 1 .. Len(Replay)
      PROVE  at(i) = Understood(at(i - 1), Replay[i])
  <2>1. PICK e \in Doc : IsOpen(e) /\ Replay[i] = DidOpen(e)
    BY <1>3
  <2>2. Replay[i].doc = e /\ Replay[i].as = documents[e] /\ Replay[i].kind = "open"
    BY <2>1 DEF DidOpen
  <2>3. i - 1 \in Nat /\ 1 .. i = (1 .. (i - 1)) \cup {i} /\ i \in Nat
    BY <1>1
  <2>4. ~Told(i - 1, e)
    BY <1>1, <1>4, <2>2, <2>3
  <2>5. Told(i, e)
    BY <2>2, <2>3
  <2>6. \A d \in Doc \ {e} : Told(i, d) <=> Told(i - 1, d)
    BY <2>2, <2>3
  <2> HIDE DEF Told
  <2>7. at(i) = [at(i - 1) EXCEPT ![e] = documents[e]]
    <3>1. \A d \in Doc : at(i)[d] = IF d = e THEN documents[e] ELSE at(i - 1)[d]
      BY <2>5, <2>6
    <3> QED BY <3>1
  <2>8. at(i - 1)[e] = Absent /\ Absent # Confused
    BY <1>2, <2>4, TextIs
  <2> HIDE DEF at
  <2>9. Understood(at(i - 1), Replay[i]) = [at(i - 1) EXCEPT ![e] = documents[e]]
    BY <2>2, <2>8 DEF Understood
  <2> QED BY <2>7, <2>9
<1>8. at(Len(Replay)) = documents
  <2>1. ASSUME NEW d \in Doc, IsOpen(d) PROVE Told(Len(Replay), d)
    <3>1. \A e \in Doc : IsOpen(e) => \E i \in 1 .. Len(Replay) : Replay[i] = DidOpen(e)
      BY ReplayNames
    <3>2. PICK i \in 1 .. Len(Replay) : Replay[i] = DidOpen(d)
      BY <2>1, <3>1
    <3>3. Replay[i].doc = d
      BY <1>12, <3>2
    <3> QED BY <3>3
  <2>2. ASSUME NEW d \in Doc, Told(Len(Replay), d) PROVE IsOpen(d)
    BY <1>13, <2>2
  <2> HIDE DEF Told
  <2>3. \A d \in Doc : at(Len(Replay))[d] = documents[d]
    BY <2>1, <2>2 DEF IsOpen
  <2> QED BY <1>2, <2>3
<1> HIDE DEF at
<1>9. k[Len(Replay)] = documents /\ k[0] = NoDocuments
  BY <1>1, <1>6, <1>8
<1>10. k \in [0 .. Len(Replay) -> [Doc -> KnownText]]
  BY <1>5
<1>11. \A i \in 1 .. Len(Replay) : k[i] = Understood(k[i - 1], Replay[i])
  <2> SUFFICES ASSUME NEW i \in 1 .. Len(Replay) PROVE k[i] = Understood(k[i - 1], Replay[i])
    OBVIOUS
  <2>1. i - 1 \in 0 .. Len(Replay) /\ i \in 0 .. Len(Replay)
    BY <1>1
  <2>2. k[i] = at(i) /\ k[i - 1] = at(i - 1)
    BY <2>1
  <2> QED BY <1>7, <2>2
<1> HIDE DEF k
<1> QED BY <1>9, <1>10, <1>11 DEF Reads

\* What a client does to a document, a server that has the documents makes of
\* the notification.
LEMMA CommandUnderstood ==
  ASSUME LspShape, NEW d \in Doc, NEW kind, (kind = "open") = ~IsOpen(d),
         documents' = [documents EXCEPT ![d] = documents'[d]]
  PROVE  Understood(documents, [kind |-> kind, doc |-> d, as |-> documents'[d]]) = documents'
<1>1. documents[d] # Confused
  BY TextIs DEF LspShape
<1>2. (kind = "open") = (documents[d] = Absent)
  BY DEF IsOpen
<1> QED BY <1>1, <1>2 DEF Understood

\* A client's command leaves the server in step.
LEMMA CommandInStep ==
  ASSUME LspShape, LspPlaces, InStep, NEW d \in Doc, Open(d) \/ Change(d) \/ CloseDocument(d)
  PROVE  InStep'
<1>1. PICK kind \in {"open", "change", "close"} :
        Tells(kind, d, documents'[d]) /\ (kind = "open") = ~IsOpen(d)
  BY CommandIs
<1>2. /\ documents' = [documents EXCEPT ![d] = documents'[d]] /\ documents'[d] \in KnownText
      /\ UNCHANGED <<connection, running, view, server_state>>
  BY CommandIs DEF Keeps, actorVars
<1>3. SUFFICES ASSUME connection \in running
               PROVE  \E k : /\ Reads(k, view, pipe')
                             /\ server_state = "Ready" => k[Len(pipe')] = documents'
  BY <1>2 DEF InStep
<1>4. PICK k : Reads(k, view, pipe) /\ (server_state = "Ready" => k[Len(pipe)] = documents)
  BY <1>3 DEF InStep
<1>5. CASE server_state # "Ready"
  BY <1>1, <1>4, <1>5 DEF Tells
<1>6. CASE server_state = "Ready"
  <2> DEFINE n == [kind |-> kind, doc |-> d, as |-> documents'[d]]
  <2>1. pipe' = Append(pipe, n)
    BY <1>1, <1>3, <1>6 DEF Tells
  <2>2. n \in Notification /\ pipe \in Seq(Notification)
    BY <1>2 DEF Notification, LspShape
  <2>3. Understood(k[Len(pipe)], n) = documents'
    BY <1>1, <1>2, <1>4, <1>6, CommandUnderstood
  <2>4. documents' \in [Doc -> KnownText]
    BY <1>2 DEF LspShape
  <2> HIDE DEF n
  <2> QED BY <1>4, <2>1, <2>2, <2>3, <2>4, OneMoreToRead
<1> QED BY <1>5, <1>6

LEMMA StillInStep ==
  ASSUME InStep, UNCHANGED <<connection, running, view, pipe, documents>>,
         server_state' = "Ready" => server_state = "Ready"
  PROVE  InStep'
BY DEF InStep

LEMMA ApartInStep ==
  ASSUME LspShape, Disconnects \/ ServerExits
  PROVE  InStep'
<1>1. connection' \notin running'
  BY DEF LspShape, Disconnects, ServerExits
<1> QED BY <1>1 DEF InStep

\* A server that runs stays in step, whatever the two sides do.
LEMMA InStepKept ==
  ASSUME LspShape, LspPlaces, InStep, [LspNext]_lspVars
  PROVE  InStep'
<1>1. CASE Spawn
  <2>1. pipe' = <<>> /\ view' = NoDocuments /\ server_state' = "Initializing"
    BY <1>1 DEF Spawn, LspPlaces
  <2>2. NoDocuments \in [Doc -> KnownText]
    BY DEF NoDocuments, KnownText
  <2>3. \E k : Reads(k, view', pipe')
    BY <2>1, <2>2, NothingToRead
  <2> QED BY <2>1, <2>3 DEF InStep
<1>2. CASE SpawnFails
  <2>1. UNCHANGED <<connection, running, view, pipe, documents>>
        /\ (server_state' = "Ready" => server_state = "Ready")
    BY <1>2 DEF SpawnFails, actorVars, storeVars, connectionVars
  <2> QED BY <2>1, StillInStep
<1>3. CASE Handshake
  <2>1. /\ pipe' = IF connection \in running THEN Replay ELSE pipe
        /\ UNCHANGED <<connection, running, view, documents>> /\ actor_at = "shake"
    BY <1>3 DEF Handshake, Replay
  <2>2. view' = NoDocuments
    BY <2>1 DEF LspPlaces
  <2>3. SUFFICES ASSUME connection' \in running'
                 PROVE  \E k : Reads(k, view', pipe') /\ k[Len(pipe')] = documents'
    BY DEF InStep
  <2>4. pipe' = Replay /\ documents' = documents
    BY <2>1, <2>3
  <2> QED BY <2>2, <2>4, ReplayReads
<1>4. CASE HandshakeFails
  BY <1>4, ApartInStep DEF HandshakeFails
<1>5. CASE TakePublication
  <2>1. UNCHANGED <<connection, running, view, pipe, documents>>
        /\ (server_state' = "Ready" => server_state = "Ready")
    BY <1>5 DEF TakePublication, actorVars, storeVars, connectionVars
  <2> QED BY <2>1, StillInStep
<1>6. CASE SeesDeath
  BY <1>6, ApartInStep DEF SeesDeath
<1>7. CASE Ping
  <2>1. UNCHANGED <<connection, running, view, pipe, documents>>
        /\ (server_state' = "Ready" => server_state = "Ready")
    BY <1>7 DEF Ping, actorVars, storeVars, connectionVars
  <2> QED BY <2>1, StillInStep
<1>8. CASE PingAnswered
  <2>1. UNCHANGED <<connection, running, view, pipe, documents>>
        /\ (server_state' = "Ready" => server_state = "Ready")
    BY <1>8 DEF PingAnswered, actorVars, storeVars, connectionVars
  <2> QED BY <2>1, StillInStep
<1>9. CASE PingFails
  BY <1>9, ApartInStep DEF PingFails
<1>10. CASE Restart
  <2>1. UNCHANGED <<connection, running, view, pipe, documents>>
        /\ (server_state' = "Ready" => server_state = "Ready")
    BY <1>10 DEF Restart, actorVars, storeVars, connectionVars
  <2> QED BY <2>1, StillInStep
<1>11. CASE Stop
  <2>1. UNCHANGED <<connection, running, view, pipe, documents>>
        /\ (server_state' = "Ready" => server_state = "Ready")
    BY <1>11 DEF Stop, actorVars, storeVars, connectionVars
  <2> QED BY <2>1, StillInStep
<1>12. CASE Stopped
  BY <1>12, ApartInStep DEF Stopped
<1>13. CASE SendersDropped
  <2>1. UNCHANGED <<connection, running, view, pipe, documents>>
        /\ (server_state' = "Ready" => server_state = "Ready")
    BY <1>13 DEF SendersDropped, actorVars, storeVars, connectionVars
  <2> QED BY <2>1, StillInStep
<1>14. CASE AskStop
  <2>1. UNCHANGED <<connection, running, view, pipe, documents>>
        /\ (server_state' = "Ready" => server_state = "Ready")
    BY <1>14 DEF AskStop, actorVars, storeVars, connectionVars
  <2> QED BY <2>1, StillInStep
<1>15. CASE ServerReads
  <2>1. /\ pipe' = Tail(pipe) /\ pipe # <<>> /\ view' = Understood(view, Head(pipe))
        /\ UNCHANGED <<connection, running, documents, server_state>> /\ connection \in running
    BY <1>15 DEF ServerReads, storeVars, actorVars
  <2>2. PICK k : Reads(k, view, pipe) /\ (server_state = "Ready" => k[Len(pipe)] = documents)
    BY <2>1 DEF InStep
  <2>3. pipe \in Seq(Notification)
    BY DEF LspShape
  <2>4. PICK m : Reads(m, view', pipe') /\ m[Len(pipe')] = k[Len(pipe)]
    BY <2>1, <2>2, <2>3, OneLessToRead
  <2> QED BY <2>1, <2>2, <2>4 DEF InStep
<1>16. CASE ServerExits
  BY <1>16, ApartInStep
<1>17. CASE ReadLoopEnds
  <2>1. UNCHANGED <<connection, running, view, pipe, documents>>
        /\ (server_state' = "Ready" => server_state = "Ready")
    BY <1>17 DEF ReadLoopEnds, actorVars, storeVars, connectionVars
  <2> QED BY <2>1, StillInStep
<1>18. CASE \E d \in Doc : Open(d)
  BY <1>18, CommandInStep
<1>19. CASE \E d \in Doc : Change(d)
  BY <1>19, CommandInStep
<1>20. CASE \E d \in Doc : CloseDocument(d)
  BY <1>20, CommandInStep
<1>21. CASE \E d \in Doc : ServerPublishes(d)
  <2>1. PICK d \in Doc : ServerPublishes(d)
    BY <1>21
  <2>2. UNCHANGED <<connection, running, view, pipe, documents, server_state>>
    BY <2>1 DEF ServerPublishes, actorVars, storeVars
  <2> QED BY <2>2, StillInStep
<1>22. CASE UNCHANGED lspVars
  <2>1. UNCHANGED <<connection, running, view, pipe, documents>>
        /\ (server_state' = "Ready" => server_state = "Ready")
    BY <1>22 DEF lspVars, actorVars, storeVars, connectionVars, lspVars
  <2> QED BY <2>1, StillInStep
<1> QED BY <1>1, <1>2, <1>3, <1>4, <1>5, <1>6, <1>7, <1>8, <1>9, <1>10, <1>11, <1>12, <1>13,
   <1>14, <1>15, <1>16, <1>17, <1>18, <1>19, <1>20, <1>21, <1>22 DEF LspNext, ActorStep

\* A step that leaves the stores, or what is on its way, alone.
LEMMA SameStores == StoresNamed /\ UNCHANGED <<documents, diagnostics>> => StoresNamed'
BY DEF StoresNamed, IsOpen, Named

LEMMA SameOnTheWay ==
  /\ PipeNamed /\ UNCHANGED pipe => PipeNamed'
  /\ ViewNamed /\ UNCHANGED <<connection, running, view>> => ViewNamed'
  /\ InboxNamed /\ UNCHANGED inbox => InboxNamed'
BY DEF PipeNamed, ViewNamed, InboxNamed, Named

\* A connection that is closed or lost names nothing wrongly.
LEMMA ApartNames ==
  ASSUME LspShape, Names, UNCHANGED <<documents, diagnostics>>,
         Disconnects \/ (ServerExits /\ UNCHANGED <<pipe, inbox>>)
  PROVE  Names'
<1>1. connection' \notin running'
  BY DEF LspShape, Disconnects, ServerExits
<1>2. (pipe' = <<>> /\ inbox' = <<>>) \/ UNCHANGED <<pipe, inbox>>
  BY DEF Disconnects
<1>3. ViewNamed'
  BY <1>1 DEF ViewNamed
<1>4. PipeNamed'
  BY <1>2, SameOnTheWay DEF PipeNamed, Names
<1>5. InboxNamed'
  BY <1>2, SameOnTheWay DEF InboxNamed, Names
<1>6. StoresNamed'
  BY SameStores DEF Names
<1> QED BY <1>3, <1>4, <1>5, <1>6 DEF Names

LEMMA SameNames ==
  ASSUME Names, UNCHANGED <<documents, diagnostics, pipe, connection, running, view, inbox>>
  PROVE  Names'
BY SameStores, SameOnTheWay DEF Names

\* The stores after a client's command.
LEMMA CommandStores ==
  ASSUME Reused = FALSE, LspShape, LspPlaces, Names, NEW d \in Doc,
         Open(d) \/ Change(d) \/ CloseDocument(d)
  PROVE  StoresNamed' /\ (documents'[d] # Absent => Named(documents'[d]))
<1>0. FirstVersion \in Nat /\ texts \in Nat
  BY LspAssumption DEF LspConfig, LspShape
<1>1. /\ documents' = [documents EXCEPT ![d] = documents'[d]] /\ documents \in [Doc -> KnownText]
      /\ documents'[d] # Absent => /\ documents'[d].text = texts + 1
                                   /\ Reused \/ documents'[d].version = FirstVersion + texts
  BY CommandIs DEF LspShape
<1>2. documents'[d] # Absent => Named(documents'[d])
  BY <1>0, <1>1 DEF Named
<1>3. \A e \in Doc : documents'[e] # Absent => Named(documents'[e])
  <2> SUFFICES ASSUME NEW e \in Doc, documents'[e] # Absent PROVE Named(documents'[e])
    OBVIOUS
  <2>1. CASE e = d
    BY <1>2, <2>1
  <2>2. CASE e # d
    <3>1. documents'[e] = documents[e]
      BY <1>1, <2>2
    <3> QED BY <3>1 DEF Names, StoresNamed, IsOpen
  <2> QED BY <2>1, <2>2
<1>4. \A e \in Doc \ {d} : diagnostics'[e] = diagnostics[e] /\ documents'[e] = documents[e]
  BY <1>1 DEF Open, Change, CloseDocument, LspShape
<1>5. \A e \in Doc : diagnostics[e].state = "fresh" =>
        /\ diagnostics[e].version = documents[e].version /\ Named(diagnostics[e])
        /\ diagnostics[e].version # 0
  BY DEF Names, StoresNamed
<1>6. diagnostics'[d].state = "fresh" =>
        /\ diagnostics'[d].version = documents'[d].version /\ Named(diagnostics'[d])
        /\ diagnostics'[d].version # 0
  <2>1. CASE Open(d)
    <3>1. documents[d].version = 0 /\ diagnostics' = diagnostics
      BY <2>1 DEF Open, IsOpen, Absent
    <3> QED BY <1>5, <3>1
  <2>2. CASE Change(d)
    <3>1. PICK v \in NewVersions(documents[d].version) :
            /\ documents' = [documents EXCEPT ![d] = [version |-> v, text |-> texts']]
            /\ diagnostics' = [diagnostics EXCEPT ![d] = AfterChange(@, v)]
      BY <2>2 DEF Change
    <3>2. documents'[d].version = v
      BY <1>1, <3>1
    <3>3. diagnostics'[d] = AfterChange(diagnostics[d], v)
      BY <3>1 DEF LspShape
    <3>4. diagnostics[d] \in [state : {"none", "fresh", "stale", "unknown"}, version : Nat,
                              text : Nat]
      BY DEF LspShape
    <3> QED BY <1>5, <3>2, <3>3, <3>4, AfterIs DEF Named
  <2>3. CASE CloseDocument(d)
    BY <2>3 DEF CloseDocument, LspShape, NoEntry
  <2> QED BY <2>1, <2>2, <2>3
<1>7. \A e \in Doc : diagnostics'[e].state = "fresh" =>
        /\ diagnostics'[e].version = documents'[e].version /\ Named(diagnostics'[e])
        /\ diagnostics'[e].version # 0
  BY <1>4, <1>5, <1>6
<1> QED BY <1>2, <1>3, <1>7 DEF StoresNamed, IsOpen

\* Where no two texts share a version, a version names one text.
LEMMA NamesKept ==
  ASSUME FirstVersion >= 1, Reused = FALSE, LspShape, LspPlaces, InStep, Names, [LspNext]_lspVars
  PROVE  Names'
<1>1. CASE Spawn
  <2>1. view' = NoDocuments
    BY <1>1 DEF Spawn, LspPlaces
  <2>2. ViewNamed'
    BY <2>1 DEF ViewNamed, NoDocuments
  <2> QED BY <1>1, <2>2, SameStores, SameOnTheWay DEF Spawn, storeVars, Names
<1>2. CASE SpawnFails
  BY <1>2, SameNames DEF SpawnFails, actorVars, storeVars, connectionVars
<1>3. CASE Handshake
  <2>1. /\ pipe' = Replay \/ pipe' = pipe
        /\ diagnostics' = [d \in Doc |-> IF IsOpen(d)
             THEN AfterChange(diagnostics[d], documents[d].version) ELSE diagnostics[d]]
        /\ UNCHANGED <<documents, connection, running, view, inbox>>
    BY <1>3 DEF Handshake, Replay
  <2>2. PipeNamed'
    <3>1. CASE pipe' = pipe
      BY <3>1, SameOnTheWay DEF Names
    <3>2. CASE pipe' = Replay
      <4> SUFFICES ASSUME NEW i \in 1 .. Len(pipe'), pipe'[i].as # Absent
                   PROVE  Named(pipe'[i].as)
        BY DEF PipeNamed, Named
      <4>1. PICK d \in Doc : IsOpen(d) /\ Replay[i] = DidOpen(d)
        BY <3>2, ReplayNames
      <4>2. pipe'[i].as = documents[d]
        BY <3>2, <4>1 DEF DidOpen
      <4> QED BY <4>1, <4>2 DEF Names, StoresNamed
    <3> QED BY <2>1, <3>1, <3>2
  <2>3. ASSUME NEW d \in Doc, diagnostics'[d].state = "fresh"
        PROVE  /\ diagnostics'[d].version = documents[d].version /\ Named(diagnostics'[d])
               /\ diagnostics'[d].version # 0
    <3>1. /\ diagnostics[d].state = "fresh" /\ diagnostics'[d].version = diagnostics[d].version
          /\ diagnostics'[d].text = diagnostics[d].text
      <4>1. diagnostics[d] \in [state : {"none", "fresh", "stale", "unknown"}, version : Nat,
                                text : Nat]
        BY DEF LspShape
      <4> QED BY <2>1, <2>3, <4>1, AfterIs
    <3> QED BY <3>1 DEF Names, StoresNamed, Named
  <2>4. StoresNamed'
    BY <2>1, <2>3 DEF StoresNamed, Names, IsOpen, Named
  <2> QED BY <2>1, <2>2, <2>4, SameOnTheWay DEF Names
<1>4. CASE HandshakeFails
  BY <1>4, ApartNames DEF HandshakeFails, storeVars
<1>5. CASE TakePublication
  <2> DEFINE p == Head(inbox)
  <2>1. /\ inbox' = Tail(inbox) /\ inbox # <<>>
        /\ diagnostics' = [diagnostics EXCEPT ![p.doc] =
             [state |-> StalenessOf(p.version, documents[p.doc].version),
              version |-> p.version, text |-> p.text]]
        /\ UNCHANGED <<documents, connection, running, pipe, view>>
    BY <1>5 DEF TakePublication
  <2>2. /\ Len(inbox') = Len(inbox) - 1 /\ p = inbox[1] /\ 1 \in 1 .. Len(inbox)
        /\ \A i \in 1 .. Len(inbox') : inbox'[i] = inbox[i + 1] /\ i + 1 \in 1 .. Len(inbox)
    BY <2>1 DEF LspShape
  <2>3. InboxNamed'
    BY <2>2 DEF InboxNamed, Names, Named
  <2>4. p.version # NoVersion => Named(p) /\ p.version # 0
    BY <2>2 DEF InboxNamed, Names
  <2> HIDE DEF p
  <2> DEFINE new == [state |-> StalenessOf(p.version, documents[p.doc].version),
                     version |-> p.version, text |-> p.text]
  <2>5. new.state = "fresh" =>
          new.version = documents[p.doc].version /\ Named(new) /\ new.version # 0
    BY <2>4 DEF StalenessOf, Named
  <2>6. \A d \in Doc : diagnostics'[d] = IF d = p.doc THEN new ELSE diagnostics[d]
    BY <2>1 DEF LspShape
  <2> HIDE DEF new
  <2>7. \A d \in Doc : diagnostics'[d].state = "fresh" =>
          /\ diagnostics'[d].version = documents[d].version /\ Named(diagnostics'[d])
          /\ diagnostics'[d].version # 0
    BY <2>5, <2>6 DEF Names, StoresNamed
  <2>8. StoresNamed'
    BY <2>1, <2>7 DEF StoresNamed, Names, IsOpen, Named
  <2> QED BY <2>1, <2>3, <2>8, SameOnTheWay DEF Names
<1>6. CASE SeesDeath
  BY <1>6, ApartNames DEF SeesDeath, storeVars
<1>7. CASE Ping
  BY <1>7, SameNames DEF Ping, actorVars, storeVars, connectionVars
<1>8. CASE PingAnswered
  BY <1>8, SameNames DEF PingAnswered, actorVars, storeVars, connectionVars
<1>9. CASE PingFails
  BY <1>9, ApartNames DEF PingFails, storeVars
<1>10. CASE Restart
  BY <1>10, SameNames DEF Restart, actorVars, storeVars, connectionVars
<1>11. CASE Stop
  BY <1>11, SameNames DEF Stop, actorVars, storeVars, connectionVars
<1>12. CASE Stopped
  BY <1>12, ApartNames DEF Stopped, storeVars
<1>13. CASE SendersDropped
  BY <1>13, SameNames DEF SendersDropped, actorVars, storeVars, connectionVars
<1>14. CASE AskStop
  BY <1>14, SameNames DEF AskStop, actorVars, storeVars, connectionVars
<1>15. CASE ServerReads
  <2>1. /\ pipe' = Tail(pipe) /\ pipe # <<>> /\ view' = Understood(view, Head(pipe))
        /\ UNCHANGED <<connection, running, documents, diagnostics, inbox>>
        /\ connection \in running
    BY <1>15 DEF ServerReads, storeVars
  <2>2. /\ Len(pipe') = Len(pipe) - 1 /\ Head(pipe) = pipe[1] /\ 1 \in 1 .. Len(pipe)
        /\ \A i \in 1 .. Len(pipe') : pipe'[i] = pipe[i + 1] /\ i + 1 \in 1 .. Len(pipe)
    BY <2>1 DEF LspShape
  <2>3. PipeNamed'
    BY <2>2 DEF PipeNamed, Names, Named
  <2>4. view \in [Doc -> KnownText] /\ view' \in [Doc -> KnownText]
    <3>1. view' \in [Doc -> KnownText]
      <4>1. InStep' /\ connection' \in running' /\ pipe' \in Seq(Notification)
        BY <2>1, LspShapeKept, InStepKept DEF LspShape
      <4>2. PICK k : Reads(k, view', pipe')
        BY <4>1 DEF InStep
      <4>3. 0 \in 0 .. Len(pipe')
        BY <4>1
      <4> QED BY <4>2, <4>3 DEF Reads
    <3> QED BY <2>1, <3>1, RunningView
  <2>5. ViewNamed'
    <3> SUFFICES ASSUME NEW d \in Doc, view'[d] # Absent PROVE Named(view'[d])
      BY DEF ViewNamed, Named
    <3>1. view'[d] = view[d] \/ view'[d] = pipe[1].as \/ view'[d] = Confused
      BY <2>1, <2>2, <2>4 DEF Understood
    <3>2. view'[d] # Confused
      BY <2>4, TextIs
    <3> QED BY <2>1, <2>2, <3>1, <3>2 DEF Names, PipeNamed, ViewNamed
  <2> QED BY <2>1, <2>3, <2>5, SameStores, SameOnTheWay DEF Names
<1>16. CASE ServerExits
  <2>1. UNCHANGED <<documents, diagnostics, pipe, inbox>>
    BY <1>16 DEF ServerExits, storeVars
  <2> QED BY <1>16, <2>1, ApartNames
<1>17. CASE ReadLoopEnds
  BY <1>17, SameNames DEF ReadLoopEnds, actorVars, storeVars, connectionVars
<1>18. CASE \E d \in Doc : Open(d)
  <2>1. PICK d \in Doc : Open(d)
    BY <1>18
  <2>2. StoresNamed' /\ (documents'[d] # Absent => Named(documents'[d]))
    BY <2>1, CommandStores
  <2>3. UNCHANGED <<connection, running, view, inbox>>
    BY <2>1, CommandIs DEF Keeps
  <2>4. PICK kind \in {"open", "change", "close"} : Tells(kind, d, documents'[d])
    BY <2>1, CommandIs
  <2>5. PipeNamed'
    <3> DEFINE n == [kind |-> kind, doc |-> d, as |-> documents'[d]]
    <3>1. pipe \in Seq(Notification) /\ n.as = documents'[d]
      BY DEF LspShape
    <3> HIDE DEF n
    <3>2. CASE pipe' = pipe
      BY <3>2, SameOnTheWay DEF Names
    <3>3. CASE pipe' = Append(pipe, n)
      <4>1. /\ Len(pipe') = Len(pipe) + 1 /\ pipe'[Len(pipe) + 1] = n /\ Len(pipe) \in Nat
            /\ \A i \in 1 .. Len(pipe) : pipe'[i] = pipe[i]
        BY <3>1, <3>3
      <4>2. \A i \in 1 .. Len(pipe') : i \in 1 .. Len(pipe) \/ i = Len(pipe) + 1
        BY <4>1
      <4> QED BY <2>2, <3>1, <4>1, <4>2 DEF PipeNamed, Names
    <3> QED BY <2>4, <3>2, <3>3 DEF Tells, n
  <2> QED BY <2>2, <2>3, <2>5, SameOnTheWay DEF Names
<1>19. CASE \E d \in Doc : Change(d)
  <2>1. PICK d \in Doc : Change(d)
    BY <1>19
  <2>2. StoresNamed' /\ (documents'[d] # Absent => Named(documents'[d]))
    BY <2>1, CommandStores
  <2>3. UNCHANGED <<connection, running, view, inbox>>
    BY <2>1, CommandIs DEF Keeps
  <2>4. PICK kind \in {"open", "change", "close"} : Tells(kind, d, documents'[d])
    BY <2>1, CommandIs
  <2>5. PipeNamed'
    <3> DEFINE n == [kind |-> kind, doc |-> d, as |-> documents'[d]]
    <3>1. pipe \in Seq(Notification) /\ n.as = documents'[d]
      BY DEF LspShape
    <3> HIDE DEF n
    <3>2. CASE pipe' = pipe
      BY <3>2, SameOnTheWay DEF Names
    <3>3. CASE pipe' = Append(pipe, n)
      <4>1. /\ Len(pipe') = Len(pipe) + 1 /\ pipe'[Len(pipe) + 1] = n /\ Len(pipe) \in Nat
            /\ \A i \in 1 .. Len(pipe) : pipe'[i] = pipe[i]
        BY <3>1, <3>3
      <4>2. \A i \in 1 .. Len(pipe') : i \in 1 .. Len(pipe) \/ i = Len(pipe) + 1
        BY <4>1
      <4> QED BY <2>2, <3>1, <4>1, <4>2 DEF PipeNamed, Names
    <3> QED BY <2>4, <3>2, <3>3 DEF Tells, n
  <2> QED BY <2>2, <2>3, <2>5, SameOnTheWay DEF Names
<1>20. CASE \E d \in Doc : CloseDocument(d)
  <2>1. PICK d \in Doc : CloseDocument(d)
    BY <1>20
  <2>2. StoresNamed' /\ (documents'[d] # Absent => Named(documents'[d]))
    BY <2>1, CommandStores
  <2>3. UNCHANGED <<connection, running, view, inbox>>
    BY <2>1, CommandIs DEF Keeps
  <2>4. PICK kind \in {"open", "change", "close"} : Tells(kind, d, documents'[d])
    BY <2>1, CommandIs
  <2>5. PipeNamed'
    <3> DEFINE n == [kind |-> kind, doc |-> d, as |-> documents'[d]]
    <3>1. pipe \in Seq(Notification) /\ n.as = documents'[d]
      BY DEF LspShape
    <3> HIDE DEF n
    <3>2. CASE pipe' = pipe
      BY <3>2, SameOnTheWay DEF Names
    <3>3. CASE pipe' = Append(pipe, n)
      <4>1. /\ Len(pipe') = Len(pipe) + 1 /\ pipe'[Len(pipe) + 1] = n /\ Len(pipe) \in Nat
            /\ \A i \in 1 .. Len(pipe) : pipe'[i] = pipe[i]
        BY <3>1, <3>3
      <4>2. \A i \in 1 .. Len(pipe') : i \in 1 .. Len(pipe) \/ i = Len(pipe) + 1
        BY <4>1
      <4> QED BY <2>2, <3>1, <4>1, <4>2 DEF PipeNamed, Names
    <3> QED BY <2>4, <3>2, <3>3 DEF Tells, n
  <2> QED BY <2>2, <2>3, <2>5, SameOnTheWay DEF Names
<1>21. CASE \E d \in Doc : ServerPublishes(d)
  <2>1. PICK d \in Doc : ServerPublishes(d)
    BY <1>21
  <2>2. PICK v \in {NoVersion} \cup (IF view[d] = Absent THEN {} ELSE {view[d].version}) :
          inbox' = Append(inbox, [doc |-> d, version |-> v, text |-> view[d].text])
    BY <2>1 DEF ServerPublishes
  <2>3. view[d] \in KnownText /\ connection \in running
    BY <2>1, RunningView DEF ServerPublishes
  <2> DEFINE p == [doc |-> d, version |-> v, text |-> view[d].text]
  <2>4. p.version # NoVersion => Named(p) /\ p.version # 0
    <3> SUFFICES ASSUME v # NoVersion PROVE Named(p) /\ v # 0
      OBVIOUS
    <3>1. view[d] # Absent /\ v = view[d].version
      BY <2>2
    <3>2. Named(view[d])
      BY <2>3, <3>1 DEF Names, ViewNamed
    <3>3. v \in Versions /\ FirstVersion \in Nat
      BY <2>3, <3>1, TextIs, LspAssumption DEF LspConfig
    <3> QED BY <3>1, <3>2, <3>3 DEF Named, Versions
  <2> HIDE DEF p
  <2>5. /\ Len(inbox') = Len(inbox) + 1 /\ inbox'[Len(inbox) + 1] = p /\ Len(inbox) \in Nat
        /\ \A i \in 1 .. Len(inbox) : inbox'[i] = inbox[i]
    BY <2>2 DEF LspShape, p
  <2>6. \A i \in 1 .. Len(inbox') : i \in 1 .. Len(inbox) \/ i = Len(inbox) + 1
    BY <2>5
  <2>7. InboxNamed'
    BY <2>4, <2>5, <2>6 DEF InboxNamed, Names, Named
  <2>8. UNCHANGED <<connection, running, pipe, view, documents, diagnostics>>
    BY <2>1 DEF ServerPublishes, storeVars
  <2> QED BY <2>7, <2>8, SameStores, SameOnTheWay DEF Names
<1>22. CASE UNCHANGED lspVars
  BY <1>22, SameNames DEF lspVars, actorVars, storeVars, connectionVars, lspVars
<1> QED BY <1>1, <1>2, <1>3, <1>4, <1>5, <1>6, <1>7, <1>8, <1>9, <1>10, <1>11, <1>12, <1>13,
   <1>14, <1>15, <1>16, <1>17, <1>18, <1>19, <1>20, <1>21, <1>22 DEF LspNext, ActorStep

LEMMA LspStarts == LspInit => LspShape /\ LspPlaces /\ InStep /\ Names
<1> SUFFICES ASSUME LspInit PROVE LspShape /\ LspPlaces /\ InStep /\ Names
  OBVIOUS
<1>1. FirstVersion \in Nat /\ MaxTexts \in Nat /\ MaxAttempts \in Nat \ {0}
  BY LspAssumption DEF LspConfig
<1>2. \A d \in Doc : ~IsOpen(d)
  BY DEF LspInit, IsOpen, NoDocuments
<1>3. LspShape
  <2>1. Opened = {}
    BY <1>2 DEF Opened
  <2>2. IsFiniteSet(Opened)
    BY <2>1, FS_EmptySet
  <2>3. documents \in [Doc -> KnownText] /\ \A d \in Doc : documents[d].text = 0
    BY DEF LspInit, NoDocuments, KnownText, Absent
  <2>4. pipe \in Seq(Notification) /\ inbox \in Seq([doc : Doc, version : Nat, text : Nat])
    BY EmptySeq DEF LspInit
  <2>5. \A d \in Doc : diagnostics[d] \in
          [state : {"none", "fresh", "stale", "unknown"}, version : Nat, text : Nat]
    BY DEF LspInit, NoEntry
  <2> QED BY <1>1, <2>2, <2>3, <2>4, <2>5 DEF LspShape, LspInit, NoDocuments
<1>4. LspPlaces
  <2>1. starts = 1 /\ 1 \in 1 .. MaxAttempts + 1 /\ 1 <= MaxAttempts
    BY <1>1 DEF LspInit
  <2> QED BY <2>1 DEF LspInit, LspPlaces
<1>5. InStep
  BY DEF LspInit, InStep
<1>6. Names
  BY <1>2 DEF LspInit, Names, StoresNamed, PipeNamed, ViewNamed, InboxNamed, NoEntry
<1> QED BY <1>3, <1>4, <1>5, <1>6

LEMMA InStepSees ==
  ASSUME LspShape, InStep
  PROVE  ServerSeesDocuments
<1> SUFFICES ASSUME server_state = "Ready", connection \in running
             PROVE  AfterReading(view, pipe) = documents
  BY DEF ServerSeesDocuments
<1>1. PICK k : Reads(k, view, pipe) /\ k[Len(pipe)] = documents
  BY DEF InStep
<1>2. Len(pipe) \in Nat
  BY DEF LspShape
<1> QED BY <1>1, <1>2, ReadingIs

\* Every variable of the language server has its type, for any bounds.
THEOREM LspTypes == LspSpec => []LspTypeOK
<1>1. LspInit => LspShape /\ LspPlaces /\ InStep
  BY LspStarts
<1>2. LspShape /\ LspPlaces /\ InStep /\ [LspNext]_lspVars => (LspShape /\ LspPlaces /\ InStep)'
  BY LspShapeKept, LspPlacesKept, InStepKept
<1>3. LspShape /\ LspPlaces => LspTypeOK
  <2> SUFFICES ASSUME LspShape, LspPlaces PROVE LspTypeOK
    OBVIOUS
  <2>1. ASSUME NEW d \in Doc
        PROVE  documents[d] \in {Absent} \cup [version : Versions, text : 1 .. texts]
    <3>1. documents[d] \in KnownText /\ documents[d].text <= texts /\ texts \in Nat
      BY LspAssumption DEF LspConfig, LspShape
    <3>2. documents[d] \in OpenText => documents[d] \in [version : Versions, text : 1 .. texts]
      BY <3>1 DEF OpenText
    <3> QED BY <3>1, <3>2 DEF KnownText
  <2>2. \A d \in Doc : diagnostics[d].state \in {"none", "fresh", "stale", "unknown"}
    BY DEF LspShape
  <2> QED BY <2>1, <2>2 DEF LspTypeOK, LspPlaces, LspShape
<1> QED BY <1>1, <1>2, <1>3, PTL DEF LspSpec

\* A server that is ready and has read what it was sent has the documents that
\* are open, in their current text: replays, notifications in between and
\* restarts included (actor.rs:567).
THEOREM ServerFollows == LspSpec => []ServerSeesDocuments
<1>1. LspInit => LspShape /\ LspPlaces /\ InStep
  BY LspStarts
<1>2. LspShape /\ LspPlaces /\ InStep /\ [LspNext]_lspVars => (LspShape /\ LspPlaces /\ InStep)'
  BY LspShapeKept, LspPlacesKept, InStepKept
<1>3. LspShape /\ InStep => ServerSeesDocuments
  BY InStepSees
<1> QED BY <1>1, <1>2, <1>3, PTL DEF LspSpec

\* The server and the client agree on the documents in both directions, where
\* a client starts at version 1 or later and gives every text of a document a
\* version of its own (diagnostics.rs:15).
THEOREM BothAgree ==
  ASSUME FirstVersion >= 1, Reused = FALSE
  PROVE  LspSpec => []DocumentsAgree
<1>1. LspInit => LspShape /\ LspPlaces /\ InStep /\ Names
  BY LspStarts
<1>2. LspShape /\ LspPlaces /\ InStep /\ Names /\ [LspNext]_lspVars
        => (LspShape /\ LspPlaces /\ InStep /\ Names)'
  BY LspShapeKept, LspPlacesKept, InStepKept, NamesKept
<1>3. LspShape /\ InStep => ServerSeesDocuments
  BY InStepSees
<1>4. LspShape /\ Names => FreshDescribesText
  <2> SUFFICES ASSUME LspShape, Names, NEW d \in Doc, IsOpen(d), diagnostics[d].state = "fresh"
               PROVE  diagnostics[d].text = documents[d].text
    BY DEF FreshDescribesText
  <2>1. diagnostics[d].version = documents[d].version /\ Named(diagnostics[d])
        /\ Named(documents[d])
    BY DEF Names, StoresNamed
  <2>2. diagnostics[d].text \in Nat /\ documents[d].text \in Nat /\ FirstVersion \in Nat
    BY TextIs, LspAssumption DEF LspShape, LspConfig
  <2>3. \A a, b \in Nat : FirstVersion + a - 1 = FirstVersion + b - 1 => a = b
    BY <2>2
  <2>4. FirstVersion + diagnostics[d].text - 1 = FirstVersion + documents[d].text - 1
    BY <2>1 DEF Named
  <2> QED BY <2>2, <2>3, <2>4
<1> QED BY <1>1, <1>2, <1>3, <1>4, PTL DEF LspSpec, DocumentsAgree

(***************************************************************************)
(* The services side by side.                                              *)
(***************************************************************************)
\* A step of one part is a step of it and leaves every other as it is.
LEMMA PartsStep ==
  [ServicesNext]_servicesVars =>
    /\ [SendNext]_vars /\ [HistoryNext]_historyVars /\ [OperationNext]_opVars
    /\ [AuthorizationNext]_authVars /\ [StreamNext]_streamVars /\ [LspNext]_lspVars
    /\ [HunkNext]_hunkVars /\ [RewindNext]_rewindVars
<1>1. CASE UNCHANGED servicesVars
  BY <1>1 DEF servicesVars
<1>2. CASE Only("send") /\ SendNext
  BY <1>2 DEF Only
<1>3. CASE Only("history") /\ HistoryNext
  BY <1>3 DEF Only
<1>4. CASE Only("operations") /\ OperationNext
  BY <1>4 DEF Only
<1>5. CASE Only("authorization") /\ AuthorizationNext
  BY <1>5 DEF Only
<1>6. CASE Only("stream") /\ StreamNext
  BY <1>6 DEF Only
<1>7. CASE Only("lsp") /\ LspNext
  BY <1>7 DEF Only
<1>8. CASE Only("hunks") /\ HunkNext
  BY <1>8 DEF Only
<1>9. CASE Only("rewind") /\ RewindNext
  BY <1>9 DEF Only
<1> QED BY <1>1, <1>2, <1>3, <1>4, <1>5, <1>6, <1>7, <1>8, <1>9 DEF ServicesNext

\* A behaviour of the services is one of every part, but for the fairness of
\* the specifications of the authorizations and of the event stream.
LEMMA PartsRefined ==
  ServicesSpec =>
    /\ SendSpec /\ HistorySpec /\ OperationSpec /\ LspSpec /\ HunkSpec /\ RewindSpec
    /\ AuthorizationInit /\ [][AuthorizationNext]_authVars
    /\ StreamInit /\ [][StreamNext]_streamVars
<1>1. ServicesInit =>
        /\ SendInit /\ HistoryInit /\ OperationInit /\ AuthorizationInit /\ StreamInit /\ LspInit
        /\ HunkInit /\ RewindInit
  BY DEF ServicesInit
<1> QED BY <1>1, PartsStep, PTL
        DEF ServicesSpec, SendSpec, HistorySpec, OperationSpec, LspSpec, HunkSpec, RewindSpec

\* Every variable of every service has its type, whatever the others do.
THEOREM ServicesTypes == ServicesSpec => []ServicesTypeOK
<1>1. AuthorizationInit /\ [][AuthorizationNext]_authVars => []AuthorizationTypeOK
  BY AuthorizationStarts, AuthorizationKept, AuthorizationTyped, PTL
<1>2. StreamInit /\ [][StreamNext]_streamVars => []StreamTypeOK
  BY StreamStarts, StreamKeeps, StreamTyped, PTL
<1>3. OperationSpec => []OperationTypeOK
  <2>1. OperationInv => OperationTypeOK
    BY DEF OperationInv
  <2> QED BY <2>1, OperationInvariant, PTL
<1> QED BY <1>1, <1>2, <1>3, PartsRefined, SendTypes, HistoryTypes, LspTypes, HunkTypes, RewindTypes,
           PTL DEF ServicesTypeOK

\* Side by side the services keep what each keeps on its own: the probes and
\* the open time of the breaker, answered tool calls, held subtrees, swept
\* revocations, one verdict, the shown requests, the front ends' events, the
\* reviewed text and its credit, and whole rewinds that leave what to replay.
THEOREM ServicesAreSafe ==
  ServicesSpec =>
    /\ [](/\ SlotsCoverProbes /\ CompactionKeepsAnswers /\ SubtreeIsHeld /\ RevokedIsCancelled
          /\ OneVerdict /\ ShownSettles /\ NothingSkipped /\ ServerSeesDocuments
          /\ RejectReplacesTheShown /\ BranchReplays /\ StartupLoads)
    /\ OpenHoldsFullDuration /\ ApprovedUnderCurrentGeneration /\ CreditStays /\ RewindIsWhole
<1>1. AuthorizationInit /\ [][AuthorizationNext]_authVars => [](OneVerdict /\ ShownSettles)
  <2>1. AuthorizationInv => OneVerdict /\ ShownSettles
    BY SyncSettles, VerdictSays DEF AuthorizationInv
  <2> QED BY <2>1, AuthorizationStarts, AuthorizationKept, PTL
<1>2. AuthorizationInit /\ [][AuthorizationNext]_authVars => ApprovedUnderCurrentGeneration
  <2>1. AuthorizationInv => WorkInv /\ GuardInv
    BY DEF AuthorizationInv, VerdictTypes
  <2> QED BY <2>1, AuthorizationStarts, AuthorizationKept, ApprovalChecked, PTL
          DEF ApprovedUnderCurrentGeneration, ApprovalStep
<1>3. StreamInit /\ [][StreamNext]_streamVars => []NothingSkipped
  BY StreamStarts, StreamKeeps, StreamSkipsNothing, PTL
<1> QED BY <1>1, <1>2, <1>3, PartsRefined, ProbesAccounted, SharedBreakerSafety, CutsKeepAnswers,
           SubtreesAreHeld, RevocationReaches, ServerFollows, RejectIsFenced, CreditIsKept,
           BranchesReplay, SessionFindsCheckpoint, RewindWhole, PTL

\* Among the other services too the server and the client agree in both
\* directions, for clients that number texts as BothAgree asks of them.
THEOREM ServicesAgree ==
  ASSUME FirstVersion >= 1, Reused = FALSE
  PROVE  ServicesSpec => []DocumentsAgree
BY BothAgree, PartsRefined, PTL
=============================================================================
