------------------------ MODULE StorageServer_proofs ------------------------
(***************************************************************************)
(* Safety of the storage server for every set of clients, requests,        *)
(* commands and files.                                                     *)
(***************************************************************************)
EXTENDS StorageServer, Paths_proofs, FiniteSetTheorems

(* The disk only grows: inodes keep their numbers. *)
Grows == Len(data) \in Nat /\ Len(data') \in Nat /\ Len(data) <= Len(data')

(* Most actions leave most of the state alone. *)
LEMMA Kept ==
  /\ TableTypeOK /\ UNCHANGED tableVars => TableTypeOK'
  /\ SemTypeOK /\ UNCHANGED semVars => SemTypeOK'
  /\ DiskTypeOK /\ UNCHANGED diskVars => DiskTypeOK' /\ Grows
  /\ NamingTypeOK /\ UNCHANGED namingVars /\ Grows => NamingTypeOK'
  /\ SessionTypeOK /\ UNCHANGED sessionVars /\ Grows => SessionTypeOK'
  /\ ClientTypeOK /\ UNCHANGED clientVars => ClientTypeOK'
<1>1. TableTypeOK /\ UNCHANGED tableVars => TableTypeOK'
  BY DEF TableTypeOK, tableVars
<1>2. SemTypeOK /\ UNCHANGED semVars => SemTypeOK'
  BY DEF SemTypeOK, semVars
<1>3. DiskTypeOK /\ UNCHANGED diskVars => DiskTypeOK' /\ Grows
  BY DEF DiskTypeOK, diskVars, Grows, Inode
<1>4. NamingTypeOK /\ UNCHANGED namingVars /\ Grows => NamingTypeOK'
  BY DEF NamingTypeOK, namingVars, Grows, Inode
<1>5. SessionTypeOK /\ UNCHANGED sessionVars /\ Grows => SessionTypeOK'
  <2> SUFFICES ASSUME SessionTypeOK, UNCHANGED sessionVars, Grows PROVE SessionTypeOK'
    OBVIOUS
  <2>1. Inode \cup {Dir} \subseteq Inode' \cup {Dir}
    BY DEF Grows, Inode
  <2> QED BY <2>1 DEF SessionTypeOK, sessionVars
<1>6. ClientTypeOK /\ UNCHANGED clientVars => ClientTypeOK'
  BY DEF ClientTypeOK, clientVars
<1> QED BY <1>1, <1>2, <1>3, <1>4, <1>5, <1>6

LEMMA DiesType == TypeOK /\ Dies => TypeOK'
<1> SUFFICES ASSUME TypeOK, Dies PROVE TypeOK'
  OBVIOUS
<1> QED BY Kept DEF TypeOK, Dies

(* The place of a member of a sequence without repetitions. *)
LEMMA PlaceOfMember ==
  ASSUME NEW seq, NEW p \in Members(seq)
  PROVE  PlaceOf(seq, p) \in 1..Len(seq) /\ seq[PlaceOf(seq, p)] = p
<1>1. \E i \in 1..Len(seq) : seq[i] = p
  BY DEF Members
<1> QED BY <1>1 DEF PlaceOf

LEMMA SourceContent == \A v \in Source : Content(v) \in Seq(Block)
<1> SUFFICES ASSUME NEW v \in Source PROVE Content(v) \in Seq(Block)
  OBVIOUS
<1>1. Blocks \in Nat /\ \A k \in 1..Blocks : <<v, k>> \in Block
  BY BoundAssumption DEF Block
<1> QED BY <1>1 DEF Content

LEMMA InitType == Init => TypeOK /\ IndicesDistinct
<1> SUFFICES ASSUME Init PROVE TypeOK /\ IndicesDistinct
  OBVIOUS
<1>0. Len(Export) \in Nat /\ Len(InitialFile) \in Nat
  BY DiskAssumption
<1>1. Members(Export) \subseteq Str /\ Members(InitialFile) \subseteq Str
  BY DiskAssumption DEF Members
<1>2. \A p \in Members(Export) :
         PlaceOf(Export, p) \in 1..Len(Export) /\ Export[PlaceOf(Export, p)] = p
  BY PlaceOfMember
<1>3. TableTypeOK
  BY <1>0, <1>1, <1>2 DEF Init, TableTypeOK, TableType
<1>4. IndicesDistinct
  BY <1>0, <1>2 DEF Init, IndicesDistinct
<1>5. SemTypeOK
  BY <1>0 DEF Init, SemTypeOK, Index
<1>6. DiskTypeOK
  <2>1. Content(<<"original", 0>>) \in Seq(Block)
    BY SourceContent DEF Source
  <2>2. data \in Seq(Seq(Block)) /\ Len(data) = Len(InitialFile)
    BY <1>0, <2>1 DEF Init
  <2>3. \A p \in Members(InitialFile) : PlaceOf(InitialFile, p) \in 1..Len(InitialFile)
    BY PlaceOfMember
  <2>4. DOMAIN disk \subseteq Str
    BY <1>1, DiskAssumption DEF Init
  <2>5. \A p \in DOMAIN disk : disk[p] \in Inode \cup {Dir}
    BY <2>2, <2>3 DEF Init, Inode
  <2> QED BY <2>2, <2>4, <2>5 DEF DiskTypeOK
<1>7. NamingTypeOK
  BY BoundAssumption DEF Init, NamingTypeOK
<1>8. SessionTypeOK
  BY DEF Init, SessionTypeOK, Session
<1>9. ClientTypeOK
  BY BoundAssumption DEF Init, ClientTypeOK
<1> QED BY <1>3, <1>4, <1>5, <1>6, <1>7, <1>8, <1>9 DEF TypeOK, Init

-----------------------------------------------------------------------------
(* Operations on the disk.                                                 *)

LEMMA PutInode ==
  ASSUME DiskTypeOK, NEW inode \in Inode, NEW block \in Source \X Nat,
         data' = Put(inode, block)
  PROVE  /\ data' \in Seq(Seq(Block)) /\ Len(data') = Len(data)
         /\ \A j \in Inode : j # inode => data'[j] = data[j]
<1> DEFINE old == data[inode]
           k == block[2]
           n == IF Len(old) < k THEN k ELSE Len(old)
           new == [j \in 1..n |->
                     IF j = k THEN block ELSE IF j <= Len(old) THEN old[j] ELSE <<Hole, 0>>]
<1>1. data \in Seq(Seq(Block)) /\ inode \in 1..Len(data) /\ old \in Seq(Block)
  BY DEF DiskTypeOK, Inode
<1>2. n \in Nat
  BY <1>1
<1>3. new \in Seq(Block)
  <2>1. \A j \in 1..n : new[j] \in Block
    <3> SUFFICES ASSUME NEW j \in 1..n PROVE new[j] \in Block
      OBVIOUS
    <3>1. block \in Block /\ <<Hole, 0>> \in Block
      BY DEF Block
    <3>2. j <= Len(old) => old[j] \in Block
      BY <1>1, <1>2
    <3> HIDE DEF old, n
    <3> QED BY <3>1, <3>2
  <2> HIDE DEF n
  <2>2. new \in [1..n -> Block]
    BY <2>1
  <2> HIDE DEF new
  <2> QED BY <1>2, <2>2
<1>4. data' = [data EXCEPT ![inode] = new]
  BY DEF Put
<1> HIDE DEF new
<1> QED BY <1>1, <1>3, <1>4, ExceptSeq DEF Inode

LEMMA PutType ==
  ASSUME DiskTypeOK, NEW inode \in Inode \cup {Dir}, NEW block \in Source \X Nat,
         data' = Put(inode, block) \/ data' = data, disk' = disk
  PROVE  DiskTypeOK' /\ Grows /\ \A j \in Inode : j # inode => data'[j] = data[j]
<1>1. data \in Seq(Seq(Block)) /\ Len(data) \in Nat
  BY DEF DiskTypeOK
<1>2. CASE inode \in Inode /\ data' = Put(inode, block)
  BY <1>1, <1>2, PutInode DEF DiskTypeOK, Grows, Inode
<1>3. CASE inode = Dir /\ data' = Put(inode, block)
  <2>1. Dir \notin DOMAIN data
    BY <1>1 DEF Dir
  <2>2. data' = data
    BY <1>1, <1>3, <2>1 DEF Put
  <2> QED BY <1>1, <2>2 DEF DiskTypeOK, Grows, Inode
<1>4. CASE data' = data
  BY <1>1, <1>4 DEF DiskTypeOK, Grows, Inode
<1> QED BY <1>2, <1>3, <1>4

(* A new inode, or an old one cut to nothing. *)
LEMMA OpenedType ==
  ASSUME DiskTypeOK, NEW p \in Str, CanOpenForWriting(p), data' = OpenedData(p)
  PROVE  /\ data' \in Seq(Seq(Block)) /\ Grows
         /\ OpenedInode(p) \in Inode'
         /\ p \notin DOMAIN disk => OpenedInode(p) \notin Inode
         /\ \A j \in Inode : j # OpenedInode(p) => data'[j] = data[j]
         /\ DOMAIN With(p, OpenedInode(p)) \subseteq Str
         /\ \A q \in DOMAIN With(p, OpenedInode(p)) :
               With(p, OpenedInode(p))[q] \in Inode' \cup {Dir}
<1>1. << >> \in Seq(Block) /\ data \in Seq(Seq(Block)) /\ Len(data) \in Nat
  BY DEF DiskTypeOK
<1>2. CASE p \in DOMAIN disk
  <2>1. disk[p] \in 1..Len(data) /\ OpenedInode(p) = disk[p]
    BY <1>2 DEF CanOpenForWriting, IsDir, DiskTypeOK, Inode, OpenedInode
  <2>2. data' = [data EXCEPT ![disk[p]] = << >>]
    BY <1>2 DEF OpenedData
  <2>3. data' \in Seq(Seq(Block)) /\ Len(data') = Len(data)
        /\ \A j \in 1..Len(data) : j # disk[p] => data'[j] = data[j]
    BY <1>1, <2>1, <2>2, ExceptSeq
  <2>4. /\ DOMAIN With(p, OpenedInode(p)) \subseteq Str
        /\ \A q \in DOMAIN With(p, OpenedInode(p)) :
              With(p, OpenedInode(p))[q] \in Inode \cup {Dir}
    BY <1>2, <2>1 DEF With, DiskTypeOK, Inode
  <2> QED BY <1>1, <1>2, <2>1, <2>3, <2>4 DEF Inode, Grows
<1>3. CASE p \notin DOMAIN disk
  <2>1. OpenedInode(p) = Len(data) + 1 /\ data' = Append(data, << >>)
    BY <1>3 DEF OpenedData, OpenedInode, NewInode
  <2>2. data' \in Seq(Seq(Block)) /\ Len(data') = Len(data) + 1
        /\ \A j \in 1..Len(data) : data'[j] = data[j]
    BY <1>1, <2>1, AppendProperties
  <2>3. /\ DOMAIN With(p, OpenedInode(p)) \subseteq Str
        /\ \A q \in DOMAIN With(p, OpenedInode(p)) :
              With(p, OpenedInode(p))[q] \in Inode' \cup {Dir}
    BY <1>1, <1>3, <2>1, <2>2 DEF With, DiskTypeOK, Inode
  <2> QED BY <1>1, <2>1, <2>2, <2>3 DEF Inode, Grows
<1> QED BY <1>2, <1>3

LEMMA OpenForWritingType ==
  ASSUME DiskTypeOK, NEW p \in Str, CanOpenForWriting(p), OpenForWriting(p) \/ SendArchive(p)
  PROVE  /\ DiskTypeOK' /\ Grows
         /\ OpenedInode(p) \in Inode'
         /\ p \notin DOMAIN disk => OpenedInode(p) \notin Inode
         /\ \A j \in Inode : j # OpenedInode(p) => data'[j] = data[j]
<1> DEFINE made == With(p, OpenedInode(p))
<1>1. data' = OpenedData(p)
  BY DEF OpenForWriting, SendArchive
<1>2. DOMAIN disk' \subseteq DOMAIN made /\ \A q \in DOMAIN disk' : disk'[q] = made[q]
  BY DEF OpenForWriting, SendArchive
<1>3. DOMAIN made \subseteq Str /\ \A q \in DOMAIN made : made[q] \in Inode' \cup {Dir}
  BY <1>1, OpenedType
<1>4. data' \in Seq(Seq(Block))
  BY <1>1, OpenedType
<1> HIDE DEF made
<1>5. DiskTypeOK'
  BY <1>2, <1>3, <1>4 DEF DiskTypeOK
<1> QED BY <1>1, <1>5, OpenedType

-----------------------------------------------------------------------------
(* Each action keeps the types.                                            *)

LEMMA ClientType ==
  ASSUME TypeOK, NEW c \in Client,
         (\E r \in Request : ClientRequest(c, r)) \/ ClientChoose(c) \/ ClientQuit(c)
  PROVE  TypeOK'
<1>1. ASSUME NEW r \in Request, ClientRequest(c, r) PROVE TypeOK'
  <2>1. TableTypeOK' /\ SemTypeOK' /\ DiskTypeOK' /\ NamingTypeOK' /\ Grows /\ alive' \in BOOLEAN
    BY <1>1, Kept DEF TypeOK, ClientRequest
  <2>2. SessionTypeOK'
    <3>1. queue' \in Seq(Client) /\ request' \in [Client -> Request \cup {NoRequest}]
      BY <1>1, AppendProperties DEF TypeOK, SessionTypeOK, ClientRequest
    <3> QED BY <1>1, <2>1, <3>1 DEF TypeOK, SessionTypeOK, ClientRequest, Grows, Inode
  <2>3. ClientTypeOK'
    BY <1>1, BoundAssumption DEF TypeOK, ClientTypeOK, ClientRequest
  <2> QED BY <2>1, <2>2, <2>3 DEF TypeOK
<1>2. CASE ClientChoose(c) \/ ClientQuit(c)
  <2>1. TableTypeOK' /\ SemTypeOK' /\ DiskTypeOK' /\ NamingTypeOK' /\ SessionTypeOK'
        /\ alive' \in BOOLEAN
    BY <1>2, Kept DEF TypeOK, ClientChoose, ClientQuit
  <2>2. upload' \in [Client -> Seq(Chunk)]
    <3>1. \A file \in LocalFile : file \in Seq(Chunk)
      BY CommandAssumption
    <3> QED BY <1>2, <3>1 DEF TypeOK, ClientTypeOK, ClientChoose, ClientQuit
  <2>3. ClientTypeOK'
    <3>1. CASE ClientChoose(c)
      BY <2>2, <3>1 DEF TypeOK, ClientTypeOK, ClientChoose
    <3>2. CASE ClientQuit(c)
      BY <2>2, <3>2, BoundAssumption DEF TypeOK, ClientTypeOK, ClientQuit
    <3> QED BY <1>2, <3>1, <3>2
  <2> QED BY <2>1, <2>3 DEF TypeOK
<1> QED BY <1>1, <1>2

LEMMA AcceptType ==
  ASSUME TypeOK, NEW c \in Client, Accept(c)
  PROVE  TypeOK'
<1>1. TableTypeOK' /\ SemTypeOK' /\ DiskTypeOK' /\ NamingTypeOK' /\ Grows /\ alive' \in BOOLEAN
  BY Kept DEF TypeOK, Accept, Serve
<1>2. SessionTypeOK'
  <2>1. queue' \in Seq(Client)
    BY HeadTailProperties DEF TypeOK, SessionTypeOK, Accept, Serve
  <2>2. pc' \in [Client -> Session]
    BY DEF TypeOK, SessionTypeOK, Accept, Serve, Session
  <2> QED BY <1>1, <2>1, <2>2 DEF TypeOK, SessionTypeOK, Accept, Serve, Grows, Inode
<1>3. ClientTypeOK'
  BY DEF TypeOK, ClientTypeOK, Accept, Serve
<1> QED BY <1>1, <1>2, <1>3 DEF TypeOK

LEMMA RefuseType ==
  ASSUME TypeOK, NEW c \in Client, Refuse(c)
  PROVE  TypeOK'
<1>1. TableTypeOK' /\ SemTypeOK' /\ DiskTypeOK' /\ NamingTypeOK' /\ Grows /\ alive' \in BOOLEAN
  BY Kept DEF TypeOK, Refuse
<1>2. SessionTypeOK'
  BY <1>1 DEF TypeOK, SessionTypeOK, Refuse, Session, Grows, Inode
<1>3. ClientTypeOK'
  BY DEF TypeOK, ClientTypeOK, Refuse
<1> QED BY <1>1, <1>2, <1>3 DEF TypeOK

(* The index is a number because every entry of path_to_sem is one given   *)
(* out, and -1 is refused.                                                 *)
LEMMA LookupType ==
  ASSUME TypeOK, IndicesDistinct, NEW c \in Client, Lookup(c)
  PROVE  TypeOK'
<1>1. CASE Refuse(c)
  BY <1>1, RefuseType
<1>2. CASE Dies
  BY <1>2, DiesType
<1>3. ASSUME NEW i \in Found(request[c].path), i # -1,
             index' = [index EXCEPT ![c] = i],
             pc' = [pc EXCEPT ![c] = IF request[c].op = "READ" THEN "enter" ELSE "create"],
             pos' = [pos EXCEPT ![c] = 0],
             UNCHANGED <<alive, tableVars, semVars, diskVars, namingVars, queue,
                         request, handle, clientVars>>
      PROVE  TypeOK'
  <2>1. i \in Nat
    <3>1. CASE i = get_value(path_to_sem, request[c].path)
      BY <1>3, <3>1 DEF get_value, IndicesDistinct, TypeOK, TableTypeOK
    <3>2. CASE i \in {-1, 0}
      BY <1>3, <3>2
    <3>3. associated_files \in Nat
      BY DEF TypeOK, TableTypeOK
    <3> QED BY <1>3, <3>1, <3>2, <3>3 DEF Found
  <2>2. TableTypeOK' /\ SemTypeOK' /\ DiskTypeOK' /\ NamingTypeOK' /\ ClientTypeOK' /\ Grows
        /\ alive' \in BOOLEAN
    BY <1>3, Kept DEF TypeOK
  <2>3. pc' \in [Client -> Session]
    BY <1>3 DEF TypeOK, SessionTypeOK, Session
  <2>4. SessionTypeOK'
    BY <1>3, <2>1, <2>2, <2>3 DEF TypeOK, SessionTypeOK, Grows, Inode
  <2> QED BY <2>2, <2>4 DEF TypeOK
<1> QED BY <1>1, <1>2, <1>3 DEF Lookup

(* sem_post and sem_wait of one element, and the counts of readers. *)
LEMMA Counted ==
  ASSUME NEW S, NEW T, NEW f \in [S -> T], NEW k, NEW v, k \in S => v \in T
  PROVE  [f EXCEPT ![k] = v] \in [S -> T]
  OBVIOUS

LEMMA CountUp ==
  ASSUME NEW S, NEW f \in [S -> Nat], NEW k
  PROVE  [f EXCEPT ![k] = @ + 1] \in [S -> Nat]
<1>1. k \in S => f[k] + 1 \in Nat
  OBVIOUS
<1> QED BY <1>1, Counted

LEMMA CountDown ==
  ASSUME NEW S, NEW f \in [S -> Nat], NEW k, f[k] > 0
  PROVE  [f EXCEPT ![k] = @ - 1] \in [S -> Nat]
<1>1. k \in S => f[k] - 1 \in Nat
  OBVIOUS
<1> QED BY <1>1, Counted

LEMMA CountInt ==
  ASSUME NEW S, NEW f \in [S -> Int], NEW k
  PROVE  /\ [f EXCEPT ![k] = @ + 1] \in [S -> Int]
         /\ [f EXCEPT ![k] = @ - 1] \in [S -> Int]
<1>1. k \in S => f[k] + 1 \in Int /\ f[k] - 1 \in Int
  OBVIOUS
<1> QED BY <1>1, Counted

(* The steps of a transfer that leave the disk alone. *)
LEMMA SemaphoreType ==
  ASSUME TypeOK, NEW c \in Client,
         \/ ReadEnter(c) \/ ReadTake(c) \/ ReadSend(c) \/ ReadStop(c) \/ ReadLeave(c)
         \/ WriteTake(c) \/ WriteStop(c) \/ DetailsEnd(c)
  PROVE  TypeOK'
<1>1. TableTypeOK' /\ DiskTypeOK' /\ NamingTypeOK' /\ Grows /\ alive' \in BOOLEAN
  BY Kept DEF TypeOK, ReadEnter, ReadTake, ReadSend, ReadStop, ReadLeave, WriteTake, WriteStop,
              DetailsEnd, diskVars
<1>2. SemTypeOK'
  <2>0. SemTypeOK
    BY DEF TypeOK
  <2>1. CASE ReadEnter(c)
    <3>1. semlocks' \in [Index -> Nat]
      BY <2>0, <2>1, CountDown DEF SemTypeOK, ReadEnter
    <3>2. reader_count' \in [Index -> Int]
      BY <2>0, <2>1, CountInt DEF SemTypeOK, ReadEnter
    <3> QED BY <2>0, <2>1, <3>1, <3>2 DEF SemTypeOK, ReadEnter
  <2>2. CASE ReadTake(c)
    <3>1. semaphores' \in [Index -> Nat]
      BY <2>0, <2>2, CountDown DEF SemTypeOK, ReadTake
    <3>2. semlocks' \in [Index -> Nat]
      BY <2>0, <2>2, CountUp DEF SemTypeOK, ReadTake
    <3> QED BY <2>0, <2>2, <3>1, <3>2 DEF SemTypeOK, ReadTake
  <2>3. CASE ReadSend(c) \/ ReadStop(c) \/ DetailsEnd(c)
    BY <2>0, <2>3, Kept DEF ReadSend, ReadStop, DetailsEnd
  <2>4. CASE ReadLeave(c)
    <3>1. reader_count' \in [Index -> Int]
      BY <2>0, <2>4, CountInt DEF SemTypeOK, ReadLeave
    <3>2. semaphores' \in [Index -> Nat]
      BY <2>0, <2>4, CountUp DEF SemTypeOK, ReadLeave
    <3> QED BY <2>0, <2>4, <3>1, <3>2 DEF SemTypeOK, ReadLeave
  <2>5. CASE WriteTake(c) \/ WriteStop(c)
    <3>1. CASE WriteTake(c)
      BY <2>0, <3>1, CountDown DEF SemTypeOK, WriteTake
    <3>2. CASE WriteStop(c)
      BY <2>0, <3>2, CountUp DEF SemTypeOK, WriteStop
    <3> QED BY <2>5, <3>1, <3>2
  <2> QED BY <2>1, <2>2, <2>3, <2>4, <2>5
<1>3. SessionTypeOK'
  <2>1. pc' \in [Client -> Session]
    BY DEF TypeOK, SessionTypeOK, Session, Goto, ReadEnter, ReadTake, ReadSend, ReadStop,
           ReadLeave, WriteTake, WriteStop, DetailsEnd
  <2>2. pos' \in [Client -> Nat]
    <3>1. pos \in [Client -> Nat]
      BY DEF TypeOK, SessionTypeOK
    <3>2. pos' = pos \/ pos' = [pos EXCEPT ![c] = @ + 1]
      BY DEF ReadEnter, ReadTake, ReadSend, ReadStop, ReadLeave, WriteTake, WriteStop, DetailsEnd
    <3> QED BY <3>1, <3>2
  <2>3. UNCHANGED <<queue, request, index, handle>>
    BY DEF ReadEnter, ReadTake, ReadSend, ReadStop, ReadLeave, WriteTake, WriteStop, DetailsEnd
  <2> QED BY <1>1, <2>1, <2>2, <2>3 DEF TypeOK, SessionTypeOK, Grows, Inode
<1>4. ClientTypeOK'
  BY DEF TypeOK, ClientTypeOK, clientVars, ReadEnter, ReadTake, ReadSend, ReadStop, ReadLeave,
         WriteTake, WriteStop, DetailsEnd
<1> QED BY <1>1, <1>2, <1>3, <1>4 DEF TypeOK

LEMMA OpenType ==
  ASSUME TypeOK, NEW c \in Client, ReadOpen(c) \/ ReadAck(c) \/ DetailsSend(c) \/ WriteCut(c)
  PROVE  TypeOK'
<1>1. CASE Dies
  BY <1>1, DiesType
<1>2. CASE Refuse(c)
  BY <1>2, RefuseType
<1>3. CASE ~Dies /\ ~Refuse(c)
  <2>1. TableTypeOK' /\ SemTypeOK' /\ DiskTypeOK' /\ NamingTypeOK' /\ ClientTypeOK' /\ Grows
        /\ alive' \in BOOLEAN
    BY <1>3, Kept DEF TypeOK, ReadOpen, ReadAck, DetailsSend, WriteCut
  <2>2. pc' \in [Client -> Session]
    BY <1>3 DEF TypeOK, SessionTypeOK, Session, Goto, ReadOpen, ReadAck, DetailsSend, WriteCut
  <2>3. handle' \in [Client -> Inode \cup {Dir}]
    BY <1>3 DEF TypeOK, SessionTypeOK, DiskTypeOK, ReadOpen, ReadAck, DetailsSend, WriteCut,
                Exists, IsDir
  <2>4. UNCHANGED <<queue, request, index, pos>>
    BY <1>3 DEF ReadOpen, ReadAck, DetailsSend, WriteCut
  <2> QED BY <2>1, <2>2, <2>3, <2>4 DEF TypeOK, SessionTypeOK, Grows, Inode
<1> QED BY <1>1, <1>2, <1>3

LEMMA PathsInStr == /\ \A r \in Request \cup {NoRequest} : r.path \in Str
                    /\ \A n \in NamingCommand \cup {NoCommand} : n.path \in Str /\ n.name \in Str
<1>1. Empty \in Str
  BY DEF Empty, Str
<1>2. \A r \in Request : r.path \in Str
  BY CommandAssumption
<1>3. \A n \in NamingCommand : n.path \in Str /\ n.name \in Str
  BY CommandAssumption
<1> QED BY <1>1, <1>2, <1>3 DEF NoRequest, NoCommand

LEMMA WriteOpenType ==
  ASSUME TypeOK, NEW c \in Client, WriteOpen(c)
  PROVE  TypeOK'
<1>1. CASE Dies
  BY <1>1, DiesType
<1>2. CASE ~Dies
  <2> DEFINE p == request[c].path
  <2>1. p \in Str /\ CanOpenForWriting(p) /\ OpenForWriting(p)
    BY <1>2, PathsInStr DEF WriteOpen, TypeOK, SessionTypeOK
  <2>2. DiskTypeOK' /\ Grows /\ OpenedInode(p) \in Inode'
    BY <2>1, OpenForWritingType DEF TypeOK
  <2>3. TableTypeOK' /\ SemTypeOK' /\ NamingTypeOK' /\ ClientTypeOK' /\ alive' \in BOOLEAN
    BY <1>2, <2>2, Kept DEF TypeOK, WriteOpen
  <2>4. pc' \in [Client -> Session]
    BY <1>2 DEF TypeOK, SessionTypeOK, Session, Goto, WriteOpen
  <2>5. handle' \in [Client -> Inode' \cup {Dir}]
    <3>1. handle \in [Client -> Inode' \cup {Dir}]
      BY <2>2 DEF TypeOK, SessionTypeOK, Grows, Inode
    <3>2. handle' = [handle EXCEPT ![c] = OpenedInode(p)]
      BY <1>2 DEF WriteOpen
    <3> HIDE DEF p
    <3> QED BY <2>2, <3>1, <3>2
  <2>6. UNCHANGED <<queue, request, index, pos>>
    BY <1>2 DEF WriteOpen
  <2> QED BY <2>2, <2>3, <2>4, <2>5, <2>6 DEF TypeOK, SessionTypeOK
<1> QED BY <1>1, <1>2

LEMMA WriteType ==
  ASSUME TypeOK, NEW c \in Client, WriteBlock(c) \/ WriteClose(c)
  PROVE  TypeOK'
<1>1. DiskTypeOK' /\ Grows
  <2>1. handle[c] \in Inode \cup {Dir} /\ pos[c] \in Nat
    BY DEF TypeOK, SessionTypeOK
  <2>2. PICK block : block = Piece(c, pos[c])
    OBVIOUS
  <2>3. block \in Source \X Nat
    <3>1. Mine(c) \in Source /\ Cut(c) \in Source
      BY DEF Source
    <3> QED BY <2>1, <2>2, <3>1 DEF Piece
  <2>4. disk' = disk /\ (data' = Put(handle[c], block) \/ data' = data)
    BY <2>2 DEF WriteBlock, WriteClose, Flushed
  <2> QED BY <2>1, <2>3, <2>4, PutType DEF TypeOK
<1>2. TableTypeOK' /\ SemTypeOK' /\ NamingTypeOK' /\ ClientTypeOK' /\ alive' \in BOOLEAN
  BY <1>1, Kept DEF TypeOK, WriteBlock, WriteClose
<1>3. pc' \in [Client -> Session]
  BY DEF TypeOK, SessionTypeOK, Session, Goto, WriteBlock, WriteClose
<1>4. pos' \in [Client -> Nat]
  <2>1. pos \in [Client -> Nat]
    BY DEF TypeOK, SessionTypeOK
  <2>2. pos' = pos \/ pos' = [pos EXCEPT ![c] = @ + 1]
    BY DEF WriteBlock, WriteClose
  <2> QED BY <2>1, <2>2
<1>5. UNCHANGED <<queue, request, index, handle>>
  BY DEF WriteBlock, WriteClose
<1> QED BY <1>1, <1>2, <1>3, <1>4, <1>5 DEF TypeOK, SessionTypeOK, Grows, Inode

LEMMA NamingReceiveType ==
  ASSUME TypeOK, NEW n \in NamingCommand, NamingReceive(n)
  PROVE  TypeOK'
<1>1. TableTypeOK' /\ SemTypeOK' /\ DiskTypeOK' /\ SessionTypeOK' /\ ClientTypeOK' /\ Grows
      /\ alive' \in BOOLEAN
  BY Kept DEF TypeOK, NamingReceive, NamingStep
<1>2. NamingTypeOK'
  BY <1>1, BoundAssumption DEF TypeOK, NamingTypeOK, NamingReceive, NamingStep, Grows, Inode
<1> QED BY <1>1, <1>2 DEF TypeOK

(* What every step of the naming port has in common. *)
LEMMA NamingStepType ==
  ASSUME TypeOK, TableTypeOK', DiskTypeOK', Grows,
         NEW label \in {"accept", "exec", "map", "unmap", "receive"}, NamingStep(label),
         UNCHANGED <<ncmd, commands>>, nhandle' \in Inode' \cup {Dir}, npos' \in 0..Blocks
  PROVE  TypeOK'
<1>1. SemTypeOK' /\ SessionTypeOK' /\ ClientTypeOK' /\ alive' \in BOOLEAN
  BY Kept DEF TypeOK, NamingStep
<1>2. NamingTypeOK'
  BY DEF TypeOK, NamingTypeOK, NamingStep
<1> QED BY <1>1, <1>2 DEF TypeOK

LEMMA CreatedPathType == TypeOK => ncmd.path \in Str /\ ncmd.name \in Str /\ CreatedPath \in Str
<1> SUFFICES ASSUME TypeOK PROVE ncmd.path \in Str /\ ncmd.name \in Str /\ CreatedPath \in Str
  OBVIOUS
<1>1. ncmd.path \in Str /\ ncmd.name \in Str
  BY PathsInStr DEF TypeOK, NamingTypeOK
<1> QED BY <1>1, JoinType DEF CreatedPath

LEMMA ExecCreateType ==
  ASSUME TypeOK, ExecCreate
  PROVE  TypeOK'
<1> DEFINE p == CreatedPath
           touch == Dotted(ncmd.name)
           ok == IF touch THEN Exists(p) \/ IsDir(Parent(p)) ELSE ~Exists(p) /\ IsDir(Parent(p))
           new == ok /\ ~Exists(p)
<1>1. p \in Str /\ DiskTypeOK
  BY CreatedPathType DEF TypeOK
<1>2. /\ disk' = IF new THEN With(p, IF touch THEN NewInode ELSE Dir) ELSE disk
      /\ data' = IF new /\ touch THEN Append(data, << >>) ELSE data
      /\ \E label \in {"accept", "map"} : NamingStep(label)
      /\ UNCHANGED <<tableVars, ncmd, nhandle, npos, commands>>
  BY DEF ExecCreate
<1> HIDE DEF p, touch, new
<1>3. data \in Seq(Seq(Block)) /\ Len(data) \in Nat /\ << >> \in Seq(Block)
  BY <1>1 DEF DiskTypeOK
<1>4. data' \in Seq(Seq(Block)) /\ Grows
      /\ (new /\ touch => Len(data') = Len(data) + 1)
  BY <1>2, <1>3, AppendProperties DEF Grows
<1>5. DiskTypeOK'
  <2>1. CASE new
    BY <1>1, <1>2, <1>3, <1>4, <2>1 DEF DiskTypeOK, With, NewInode, Inode, Grows
  <2>2. CASE ~new
    BY <1>1, <1>2, <1>3, <1>4, <2>2 DEF DiskTypeOK, Inode, Grows
  <2> QED BY <2>1, <2>2
<1>6. TableTypeOK' /\ nhandle' \in Inode' \cup {Dir} /\ npos' \in 0..Blocks
  BY <1>2, <1>4, Kept DEF TypeOK, NamingTypeOK, Inode, Grows
<1> QED BY <1>2, <1>4, <1>5, <1>6, NamingStepType

LEMMA MapType ==
  ASSUME TypeOK, IndicesDistinct, MapCreate \/ MapDelete
  PROVE  TypeOK' /\ IndicesDistinct'
<1>1. DiskTypeOK' /\ Grows
  BY Kept DEF TypeOK, MapCreate, MapDelete, diskVars
<1>2. TableTypeOK'
  <2>1. TableType(path_to_sem) /\ associated_files \in Nat /\ associated_files \in Int
    BY DEF TypeOK, TableTypeOK
  <2>2. CASE MapCreate
    BY <2>1, <2>2, CreatedPathType, SetValueType DEF TableTypeOK, MapCreate
  <2>3. CASE MapDelete
    BY <2>1, <2>3, RemoveEntryType DEF TableTypeOK, MapDelete
  <2> QED BY <2>2, <2>3
<1>3. nhandle' \in Inode' \cup {Dir} /\ npos' \in 0..Blocks
  <2>1. nhandle' = nhandle /\ npos' = npos
    BY DEF MapCreate, MapDelete
  <2> QED BY <1>1, <2>1 DEF TypeOK, NamingTypeOK, Inode, Grows
<1>4. TypeOK'
  BY <1>1, <1>2, <1>3, NamingStepType DEF MapCreate, MapDelete
<1>5. IndicesDistinct'
  <2>1. associated_files \in Nat
    BY DEF TypeOK, TableTypeOK
  <2>2. CASE MapCreate
    <3>1. path_to_sem' = set_value(path_to_sem, CreatedPath, associated_files)
          /\ associated_files' = associated_files + 1
      BY <2>2 DEF MapCreate
    <3>2. \A p \in DOMAIN path_to_sem : path_to_sem[p] \in 0..(associated_files - 1)
      BY DEF IndicesDistinct
    <3> QED BY <2>1, <3>1, <3>2 DEF IndicesDistinct, set_value
  <2>3. CASE MapDelete
    BY <2>3 DEF IndicesDistinct, MapDelete, remove_entry
  <2> QED BY <2>2, <2>3
<1> QED BY <1>4, <1>5

LEMMA ExecDeleteType ==
  ASSUME TypeOK, ExecDelete
  PROVE  TypeOK'
<1>1. DiskTypeOK' /\ Grows
  BY DEF TypeOK, DiskTypeOK, ExecDelete, Inode, Grows
<1>2. TableTypeOK' /\ nhandle' \in Inode' \cup {Dir} /\ npos' \in 0..Blocks
  BY <1>1, Kept DEF TypeOK, NamingTypeOK, ExecDelete, Inode, Grows
<1> QED BY <1>1, <1>2, NamingStepType DEF ExecDelete

LEMMA ExecSendType ==
  ASSUME TypeOK, ExecSend
  PROVE  TypeOK'
<1>1. CASE Dies
  BY <1>1, DiesType
<1>2. CASE ~Dies
  <2> DEFINE p == ncmd.path \o <<TarGz>>
  <2>1. UNCHANGED diskVars \/ (CanOpenForWriting(p) /\ SendArchive(p))
    BY <1>2 DEF ExecSend
  <2>2. CASE UNCHANGED diskVars
    BY <1>2, <2>2, Kept, NamingStepType DEF TypeOK, ExecSend, NamingTypeOK, Inode, Grows
  <2>3. CASE CanOpenForWriting(p) /\ SendArchive(p)
    <3>1. p \in Str
      BY CreatedPathType, ConcatType, LetterType, LetterAssumption, DiskAssumption
    <3>2. DiskTypeOK' /\ Grows
      BY <3>1, <2>3, OpenForWritingType DEF TypeOK
    <3>3. TableTypeOK' /\ nhandle' \in Inode' \cup {Dir} /\ npos' \in 0..Blocks
      BY <1>2, <3>2, Kept DEF TypeOK, ExecSend, NamingTypeOK, Inode, Grows
    <3> QED BY <1>2, <3>2, <3>3, NamingStepType DEF ExecSend
  <2> QED BY <2>1, <2>2, <2>3
<1> QED BY <1>1, <1>2

LEMMA ExecReceiveType ==
  ASSUME TypeOK, ExecReceive
  PROVE  TypeOK'
<1>1. CASE Dies
  BY <1>1, DiesType
<1>2. CASE ~Dies
  <2>1. DiskTypeOK' /\ Grows /\ OpenedInode(CreatedPath) \in Inode'
    BY <1>2, CreatedPathType, OpenForWritingType DEF TypeOK, ExecReceive
  <2>2. TableTypeOK' /\ nhandle' \in Inode' \cup {Dir} /\ npos' \in 0..Blocks
    BY <1>2, <2>1, Kept, BoundAssumption DEF TypeOK, ExecReceive
  <2> QED BY <1>2, <2>1, <2>2, NamingStepType DEF ExecReceive
<1> QED BY <1>1, <1>2

LEMMA ReceiveType ==
  ASSUME TypeOK, ReceiveBlock \/ ReceiveStop
  PROVE  TypeOK'
<1> DEFINE copy == <<<<"copy", 0>>, npos>>
<1>1. copy \in Source \X Nat /\ nhandle \in Inode \cup {Dir} /\ npos \in 0..Blocks
      /\ npos \in Nat /\ Blocks \in Nat
  BY BoundAssumption DEF TypeOK, NamingTypeOK, Source
<1>2. disk' = disk /\ (data' = Put(nhandle, copy) \/ data' = data)
  BY DEF ReceiveBlock, ReceiveStop, CopyFlushed
<1> HIDE DEF copy
<1>3. DiskTypeOK' /\ Grows
  BY <1>1, <1>2, PutType DEF TypeOK
<1>4. TableTypeOK' /\ nhandle' \in Inode' \cup {Dir} /\ npos' \in 0..Blocks
  BY <1>1, <1>3, Kept DEF TypeOK, ReceiveBlock, ReceiveStop, Inode, Grows
<1> QED BY <1>3, <1>4, NamingStepType DEF ReceiveBlock, ReceiveStop

(* Only the end of a CREATE or a DELETE changes the table. *)
LEMMA TableKept ==
  ASSUME [Next]_vars, ~MapCreate, ~MapDelete
  PROVE  UNCHANGED tableVars
<1>1. CASE UNCHANGED vars
  BY <1>1 DEF vars
<1>2. ASSUME NEW c \in Client, NEW r \in Request, ClientRequest(c, r) PROVE UNCHANGED tableVars
  BY <1>2 DEF ClientRequest
<1>3. ASSUME NEW c \in Client, ClientChoose(c) \/ ClientQuit(c) \/ Accept(c)
      PROVE  UNCHANGED tableVars
  BY <1>3 DEF ClientChoose, ClientQuit, Accept, Serve
<1>4. ASSUME NEW c \in Client, Transfer(c) PROVE UNCHANGED tableVars
  <2>1. CASE Lookup(c) \/ DetailsSend(c) \/ DetailsEnd(c)
    BY <2>1 DEF Lookup, DetailsSend, DetailsEnd, Refuse, Dies
  <2>2. CASE \/ ReadEnter(c) \/ ReadTake(c) \/ ReadOpen(c) \/ ReadSend(c) \/ ReadAck(c)
             \/ ReadStop(c) \/ ReadLeave(c)
    BY <2>2 DEF ReadEnter, ReadTake, ReadOpen, ReadSend, ReadAck, ReadStop, ReadLeave, Dies
  <2>3. CASE \/ WriteOpen(c) \/ WriteTake(c) \/ WriteBlock(c) \/ WriteStop(c) \/ WriteClose(c)
             \/ WriteCut(c)
    BY <2>3 DEF WriteOpen, WriteTake, WriteBlock, WriteStop, WriteClose, WriteCut, Dies
  <2> QED BY <1>4, <2>1, <2>2, <2>3 DEF Transfer
<1>5. ASSUME NEW n \in NamingCommand, NamingReceive(n) PROVE UNCHANGED tableVars
  BY <1>5 DEF NamingReceive
<1>6. CASE NamingPort
  BY <1>6 DEF NamingPort, ExecCreate, ExecDelete, ExecSend, ExecReceive, ReceiveBlock,
              ReceiveStop, Dies
<1> QED BY <1>1, <1>2, <1>3, <1>4, <1>5, <1>6 DEF Next

LEMMA NextType ==
  ASSUME TypeOK, IndicesDistinct, [Next]_vars
  PROVE  TypeOK' /\ IndicesDistinct'
<1>1. TypeOK'
  <2>1. CASE UNCHANGED vars
    BY <2>1, Kept DEF TypeOK, vars
  <2>2. ASSUME NEW c \in Client, NEW r \in Request, ClientRequest(c, r) PROVE TypeOK'
    BY <2>2, ClientType
  <2>3. ASSUME NEW c \in Client, ClientChoose(c) \/ ClientQuit(c) \/ Accept(c) PROVE TypeOK'
    BY <2>3, ClientType, AcceptType
  <2>4. ASSUME NEW c \in Client, Transfer(c) PROVE TypeOK'
    BY <2>4, LookupType, SemaphoreType, OpenType, WriteOpenType, WriteType DEF Transfer
  <2>5. ASSUME NEW n \in NamingCommand, NamingReceive(n) PROVE TypeOK'
    BY <2>5, NamingReceiveType
  <2>6. CASE NamingPort
    BY <2>6, ExecCreateType, MapType, ExecDeleteType, ExecSendType, ExecReceiveType, ReceiveType
       DEF NamingPort
  <2> QED BY <2>1, <2>2, <2>3, <2>4, <2>5, <2>6 DEF Next
<1>2. IndicesDistinct'
  <2>1. CASE MapCreate \/ MapDelete
    BY <2>1, MapType
  <2>2. CASE ~MapCreate /\ ~MapDelete
    <3>1. path_to_sem' = path_to_sem /\ associated_files' = associated_files
      BY <2>2, TableKept DEF tableVars
    <3> QED BY <3>1 DEF IndicesDistinct
  <2> QED BY <2>1, <2>2
<1> QED BY <1>1, <1>2

LEMMA TypesAlways == Spec => [](TypeOK /\ IndicesDistinct)
<1>1. TypeOK /\ IndicesDistinct /\ [Next]_vars => (TypeOK /\ IndicesDistinct)'
  BY NextType
<1> QED BY InitType, <1>1, PTL DEF Spec

(* Every variable of the storage server keeps its type, a block of a file  *)
(* and the index of a session among them: the lookup of path_to_sem never  *)
(* gives a transfer a negative index.                                      *)
THEOREM TypeCorrect == Spec => []TypeOK
  BY TypesAlways, PTL

(* Neither the CREATEs nor the DELETEs of the naming server ever make two  *)
(* files of path_to_sem share a semaphore, however often a path is created *)
(* and deleted.                                                            *)
THEOREM IndicesAlwaysDistinct == Spec => []IndicesDistinct
  BY TypesAlways, PTL

-----------------------------------------------------------------------------
(* What a client reads is not written meanwhile.                           *)

(* The paths a command has the naming port write to. *)
NamingWrites(n) ==
    CASE n.op = "RECEIVE" -> {Join(n.path, n.name)}
      [] n.op = "SEND" -> {n.path \o <<TarGz>>}
      [] OTHER -> {}

CopiesApart ==
    \A r \in Request, n \in NamingCommand : r.op = "READ" => r.path \notin NamingWrites(n)

(* portThread joins a transfer before it accepts the next. *)
OneSession == \A c, d \in Client : InService(c) /\ InService(d) => c = d

(* No file has two names. *)
OwnInode == \A p, q \in DOMAIN disk : disk[p] = disk[q] /\ disk[p] # Dir => p = q

(* The file a client reads is at the path it asked for, or nowhere. *)
AtPath ==
    \A c \in Client : Reading(c) /\ handle[c] # Dir =>
        \A q \in DOMAIN disk : disk[q] = handle[c] => q = request[c].path

ReadersRead ==
    \A c \in Client :
        pc[c] \in {"enter", "take", "open", "read", "ack"} => request[c].op = "READ"

(* The file being received is at the path of its command. *)
Receiving ==
    npc = "receive" =>
        /\ ncmd \in NamingCommand /\ ncmd.op = "RECEIVE"
        /\ CreatedPath \in DOMAIN disk /\ disk[CreatedPath] = nhandle /\ nhandle # Dir

Apart == OneSession /\ OwnInode /\ AtPath /\ ReadersRead /\ Receiving

Undisturbed ==
    \A c \in Client : Reading(c) => Readable(handle[c])' = Readable(handle[c])

LEMMA InitApart == Init => Apart
<1> SUFFICES ASSUME Init PROVE Apart
  OBVIOUS
<1>1. OneSession /\ AtPath /\ ReadersRead /\ Receiving
  BY DEF Init, OneSession, InService, AtPath, Reading, ReadersRead, Receiving
<1>2. OwnInode
  <2> SUFFICES ASSUME NEW p \in DOMAIN disk, NEW q \in DOMAIN disk,
                      disk[p] = disk[q], disk[p] # Dir
               PROVE  p = q
    BY DEF OwnInode
  <2>1. p \in Members(InitialFile) /\ q \in Members(InitialFile)
    BY DEF Init
  <2>2. PlaceOf(InitialFile, p) = PlaceOf(InitialFile, q)
    BY DEF Init
  <2> QED BY <2>1, <2>2, PlaceOfMember
<1> QED BY <1>1, <1>2 DEF Apart

(* A step of the disk: files stay as they are or go, directories come, and *)
(* one new file.                                                           *)
DiskStep ==
    \E p : \A q \in DOMAIN disk' :
        \/ q \in DOMAIN disk /\ disk'[q] = disk[q]
        \/ disk'[q] = Dir
        \/ q = p /\ disk'[q] \notin Inode

(* ... which is what fopen(p, "wb") does, and the archive. *)
LEMMA OpenDiskStep ==
  ASSUME DiskTypeOK, NEW p \in Str, CanOpenForWriting(p), OpenForWriting(p) \/ SendArchive(p)
  PROVE  DiskStep
<1> DEFINE made == With(p, OpenedInode(p))
<1>1. DOMAIN disk' \subseteq DOMAIN made /\ \A q \in DOMAIN disk' : disk'[q] = made[q]
  BY DEF OpenForWriting, SendArchive
<1>2. \A q \in DOMAIN made : \/ q \in DOMAIN disk /\ made[q] = disk[q]
                             \/ q = p /\ made[q] \notin Inode
  <2>1. p \notin DOMAIN disk => OpenedInode(p) \notin Inode
    BY OpenForWritingType
  <2>2. p \in DOMAIN disk => OpenedInode(p) = disk[p]
    BY DEF OpenedInode
  <2> QED BY <2>1, <2>2 DEF With
<1> HIDE DEF made
<1> QED BY <1>1, <1>2 DEF DiskStep

(* A step that starts no reading keeps what is on the disk apart. *)
LEMMA DiskStepApart ==
  ASSUME TypeOK, Apart, DiskStep, OneSession', ReadersRead', Receiving',
         \A c \in Client : Reading(c)' =>
             Reading(c) /\ handle'[c] = handle[c] /\ request'[c] = request[c]
  PROVE  Apart'
<1> PICK p : \A q \in DOMAIN disk' :
                \/ q \in DOMAIN disk /\ disk'[q] = disk[q]
                \/ disk'[q] = Dir
                \/ q = p /\ disk'[q] \notin Inode
  BY DEF DiskStep
<1>0. \A q \in DOMAIN disk : disk[q] \in Inode \cup {Dir}
  BY DEF TypeOK, DiskTypeOK
<1>1. OwnInode'
  <2> SUFFICES ASSUME NEW q \in DOMAIN disk', NEW r \in DOMAIN disk',
                      disk'[q] = disk'[r], disk'[q] # Dir
               PROVE  q = r
    BY DEF OwnInode, Dir
  <2> QED BY <1>0 DEF Apart, OwnInode
<1>2. AtPath'
  <2> SUFFICES ASSUME NEW c \in Client, Reading(c)', handle'[c] # Dir,
                      NEW q \in DOMAIN disk', disk'[q] = handle'[c]
               PROVE  q = request'[c].path
    BY DEF AtPath, Dir
  <2>1. Reading(c) /\ handle'[c] = handle[c] /\ request'[c] = request[c]
    OBVIOUS
  <2>2. handle[c] \in Inode
    BY <2>1 DEF TypeOK, SessionTypeOK
  <2>3. q \in DOMAIN disk /\ disk[q] = handle[c]
    BY <2>1, <2>2
  <2> QED BY <2>1, <2>3 DEF Apart, AtPath
<1> QED BY <1>1, <1>2 DEF Apart

LEMMA SameData ==
  ASSUME TypeOK,
         \A c \in Client : Reading(c) =>
             handle'[c] = handle[c] /\ (handle[c] \in Inode => data'[handle[c]] = data[handle[c]])
  PROVE  Undisturbed
<1> SUFFICES ASSUME NEW c \in Client, Reading(c)
             PROVE  Readable(handle[c])' = Readable(handle[c])
  BY DEF Undisturbed
<1>1. handle[c] \in Inode \cup {Dir}
  BY DEF TypeOK, SessionTypeOK
<1>2. handle'[c] = handle[c]
  OBVIOUS
<1>3. CASE handle[c] = Dir
  BY <1>2, <1>3 DEF Readable, Dir
<1>4. CASE handle[c] \in Inode
  BY <1>2, <1>4 DEF Readable, Dir
<1> QED BY <1>1, <1>3, <1>4

LEMMA ClientApart ==
  ASSUME TypeOK, Apart, NEW c \in Client,
         \/ \E r \in Request : ClientRequest(c, r)
         \/ ClientChoose(c) \/ ClientQuit(c) \/ Accept(c)
  PROVE  Apart' /\ Undisturbed
<1>1. UNCHANGED <<diskVars, namingVars, handle>>
  BY DEF ClientRequest, ClientChoose, ClientQuit, Accept, Serve, sessionVars
<1>2. \/ pc' = pc /\ request' = request
      \/ pc' = pc /\ pc[c] = "none" /\ \E r \in Request : request' = [request EXCEPT ![c] = r]
      \/ /\ pc' = [pc EXCEPT ![c] = "start"] /\ request' = request
         /\ \A d \in Client : ~InService(d)
  BY DEF ClientRequest, ClientChoose, ClientQuit, Accept, Serve, sessionVars
<1>3. pc \in [Client -> Session] /\ request \in [Client -> Request \cup {NoRequest}]
  BY DEF TypeOK, SessionTypeOK
<1>4. OneSession'
  BY <1>2, <1>3 DEF Apart, OneSession, InService
<1>5. \A d \in Client : pc'[d] # "start" /\ pc'[d] # "none" =>
         pc'[d] = pc[d] /\ request'[d] = request[d]
  BY <1>2, <1>3
<1>6. ReadersRead'
  BY <1>5 DEF Apart, ReadersRead
<1>7. Receiving'
  BY <1>1 DEF Apart, Receiving, CreatedPath, diskVars, namingVars, Dir
<1>8. DiskStep
  BY <1>1 DEF DiskStep, diskVars
<1>9. \A d \in Client : Reading(d)' =>
         Reading(d) /\ handle'[d] = handle[d] /\ request'[d] = request[d]
  BY <1>1, <1>5 DEF Reading
<1>10. Apart'
  BY <1>4, <1>6, <1>7, <1>8, <1>9, DiskStepApart
<1>11. Undisturbed
  BY <1>1, SameData DEF diskVars
<1> QED BY <1>10, <1>11

(* A step of a transfer that leaves the disk as it is and opens nothing. *)
QuietStep(c) ==
    /\ UNCHANGED <<diskVars, namingVars, request, handle>>
    /\ InService(c)
    /\ \E label \in Session :
          /\ pc' = [pc EXCEPT ![c] = label]
          /\ label \in {"read", "ack"} => Reading(c)
          /\ label \in {"enter", "take", "open", "read", "ack"} =>
                \/ pc[c] \in {"enter", "take", "open", "read", "ack"}
                \/ request[c].op = "READ"

LEMMA QuietApart ==
  ASSUME TypeOK, Apart, NEW c \in Client, QuietStep(c)
  PROVE  Apart' /\ Undisturbed
<1> PICK label \in Session :
          /\ pc' = [pc EXCEPT ![c] = label]
          /\ label \in {"read", "ack"} => Reading(c)
          /\ label \in {"enter", "take", "open", "read", "ack"} =>
                \/ pc[c] \in {"enter", "take", "open", "read", "ack"}
                \/ request[c].op = "READ"
  BY DEF QuietStep
<1>1. UNCHANGED <<diskVars, namingVars, request, handle>> /\ InService(c)
  BY DEF QuietStep
<1>2. pc \in [Client -> Session]
  BY DEF TypeOK, SessionTypeOK
<1>3. OneSession'
  BY <1>1, <1>2 DEF Apart, OneSession, InService
<1>4. ReadersRead'
  BY <1>1, <1>2 DEF Apart, ReadersRead
<1>5. Receiving'
  BY <1>1 DEF Apart, Receiving, CreatedPath, diskVars, namingVars, Dir
<1>6. DiskStep
  BY <1>1 DEF DiskStep, diskVars
<1>7. \A d \in Client : Reading(d)' =>
         Reading(d) /\ handle'[d] = handle[d] /\ request'[d] = request[d]
  BY <1>1, <1>2 DEF Reading
<1>8. Apart'
  BY <1>3, <1>4, <1>5, <1>6, <1>7, DiskStepApart
<1>9. Undisturbed
  BY <1>1, SameData DEF diskVars
<1> QED BY <1>8, <1>9

LEMMA UnchangedApart ==
  ASSUME TypeOK, Apart, Dies \/ UNCHANGED vars
  PROVE  Apart' /\ Undisturbed
<1>1. UNCHANGED <<diskVars, namingVars, sessionVars>>
  BY DEF Dies, vars
<1>2. Apart'
  BY <1>1 DEF diskVars, namingVars, sessionVars, Apart, OneSession, InService, OwnInode, AtPath,
              Reading, ReadersRead, Receiving, CreatedPath, Dir
<1>3. Undisturbed
  BY <1>1, SameData DEF diskVars, sessionVars
<1> QED BY <1>2, <1>3

(* Most steps of a transfer are quiet. *)
LEMMA Quiet ==
  ASSUME TypeOK, NEW c \in Client, Transfer(c),
         ~Dies, ~ReadOpen(c), ~WriteOpen(c), ~WriteBlock(c), ~WriteClose(c)
  PROVE  QuietStep(c)
<1>1. CASE Lookup(c) \/ DetailsSend(c) \/ DetailsEnd(c)
  <2>1. CASE Refuse(c)
    BY <1>1, <2>1 DEF Lookup, DetailsSend, DetailsEnd, QuietStep, Refuse, InService, Session
  <2>2. CASE ~Refuse(c) /\ Lookup(c)
    BY <2>2 DEF Lookup, QuietStep, InService, Session
  <2>3. CASE ~Refuse(c) /\ (DetailsSend(c) \/ DetailsEnd(c))
    BY <2>3 DEF DetailsSend, DetailsEnd, QuietStep, InService, Session, Goto
  <2> QED BY <1>1, <2>1, <2>2, <2>3
<1>2. CASE ReadEnter(c) \/ ReadTake(c) \/ ReadLeave(c)
  BY <1>2 DEF ReadEnter, ReadTake, ReadLeave, QuietStep, InService, Session, Goto
<1>3. CASE ReadSend(c) \/ ReadAck(c) \/ ReadStop(c)
  BY <1>3 DEF ReadSend, ReadAck, ReadStop, QuietStep, InService, Session, Goto, Reading
<1>4. CASE WriteTake(c) \/ WriteStop(c) \/ WriteCut(c)
  BY <1>4 DEF WriteTake, WriteStop, WriteCut, QuietStep, InService, Session, Goto
<1> QED BY <1>1, <1>2, <1>3, <1>4 DEF Transfer

LEMMA ReadOpenApart ==
  ASSUME TypeOK, Apart, NEW c \in Client, ReadOpen(c), ~Dies
  PROVE  Apart' /\ Undisturbed
<1>1. /\ UNCHANGED <<diskVars, namingVars, request>>
      /\ pc[c] = "open" /\ pc' = [pc EXCEPT ![c] = "read"]
      /\ Exists(request[c].path)
      /\ handle' = [handle EXCEPT ![c] =
                       IF IsDir(request[c].path) THEN Dir ELSE disk[request[c].path]]
  BY DEF ReadOpen, Goto
<1>2. pc \in [Client -> Session] /\ handle \in [Client -> Inode \cup {Dir}]
  BY DEF TypeOK, SessionTypeOK
<1>3. OneSession' /\ ReadersRead'
  BY <1>1, <1>2 DEF Apart, OneSession, InService, ReadersRead
<1>4. OwnInode' /\ Receiving'
  BY <1>1 DEF Apart, OwnInode, Receiving, CreatedPath, diskVars, namingVars, Dir
<1>5. AtPath'
  <2> SUFFICES ASSUME NEW d \in Client, Reading(d)', handle'[d] # Dir,
                      NEW q \in DOMAIN disk', disk'[q] = handle'[d]
               PROVE  q = request'[d].path
    BY DEF AtPath, Dir
  <2>1. disk' = disk /\ request' = request
    BY <1>1 DEF diskVars
  <2>2. CASE d = c
    <3>1. request[c].path \in DOMAIN disk /\ handle'[c] = disk[request[c].path]
      BY <1>1, <1>2, <2>2 DEF Exists, IsDir
    <3> QED BY <2>1, <2>2, <3>1 DEF Apart, OwnInode
  <2>3. CASE d # c
    <3>1. Reading(d) /\ handle'[d] = handle[d]
      BY <1>1, <1>2, <2>3 DEF Reading
    <3> QED BY <2>1, <3>1 DEF Apart, AtPath
  <2> QED BY <2>2, <2>3
<1>6. Undisturbed
  <2>1. \A d \in Client : Reading(d) => handle'[d] = handle[d]
    BY <1>1, <1>2 DEF Reading
  <2> QED BY <1>1, <2>1, SameData DEF diskVars
<1> QED BY <1>3, <1>4, <1>5, <1>6 DEF Apart

LEMMA WriteOpenApart ==
  ASSUME TypeOK, Apart, NEW c \in Client, WriteOpen(c), ~Dies
  PROVE  Apart' /\ Undisturbed
<1> DEFINE p == request[c].path
<1>1. /\ UNCHANGED <<namingVars, request>> /\ pc[c] = "create" /\ pc' = [pc EXCEPT ![c] = "wait"]
      /\ handle' = [handle EXCEPT ![c] = OpenedInode(p)]
      /\ CanOpenForWriting(p) /\ OpenForWriting(p)
  BY DEF WriteOpen, Goto
<1>2. pc \in [Client -> Session] /\ handle \in [Client -> Inode \cup {Dir}] /\ p \in Str
  BY PathsInStr DEF TypeOK, SessionTypeOK
<1> HIDE DEF p
<1>3. OneSession' /\ ReadersRead'
  BY <1>1, <1>2 DEF Apart, OneSession, InService, ReadersRead
<1>4. \A d \in Client : ~Reading(d) /\ ~Reading(d)'
  BY <1>1, <1>2 DEF Apart, OneSession, InService, Reading
<1>5. Receiving'
  <2>1. \A q \in DOMAIN disk : q \in DOMAIN disk' /\ disk'[q] = disk[q]
    BY <1>1 DEF OpenForWriting, With, OpenedInode
  <2> QED BY <1>1, <2>1 DEF Apart, Receiving, CreatedPath, namingVars, Dir
<1>6. DiskStep
  BY <1>1, <1>2, OpenDiskStep DEF TypeOK
<1>7. Apart'
  BY <1>3, <1>4, <1>5, <1>6, DiskStepApart
<1>8. Undisturbed
  BY <1>4 DEF Undisturbed
<1> QED BY <1>7, <1>8

LEMMA WriteApart ==
  ASSUME TypeOK, Apart, NEW c \in Client, WriteBlock(c) \/ WriteClose(c)
  PROVE  Apart' /\ Undisturbed
<1>1. /\ UNCHANGED <<disk, namingVars, request, handle>>
      /\ pc[c] \in {"write", "flush"} /\ pc' \in {pc, [pc EXCEPT ![c] = "none"]}
  BY DEF WriteBlock, WriteClose, Goto
<1>2. pc \in [Client -> Session]
  BY DEF TypeOK, SessionTypeOK
<1>3. OneSession' /\ ReadersRead'
  BY <1>1, <1>2 DEF Apart, OneSession, InService, ReadersRead
<1>4. \A d \in Client : ~Reading(d) /\ ~Reading(d)'
  BY <1>1, <1>2 DEF Apart, OneSession, InService, Reading
<1>5. Receiving' /\ DiskStep
  BY <1>1 DEF Apart, Receiving, CreatedPath, namingVars, Dir, DiskStep
<1>6. Apart'
  BY <1>3, <1>4, <1>5, DiskStepApart
<1>7. Undisturbed
  BY <1>4 DEF Undisturbed
<1> QED BY <1>6, <1>7

(* The naming port leaves the sessions alone. *)
LEMMA NamingApart ==
  ASSUME TypeOK, Apart, UNCHANGED sessionVars, DiskStep, Receiving'
  PROVE  Apart'
<1>1. UNCHANGED <<pc, request, handle>>
  BY DEF sessionVars
<1>2. OneSession' /\ ReadersRead'
  BY <1>1 DEF Apart, OneSession, InService, ReadersRead
<1>3. \A c \in Client : Reading(c)' =>
         Reading(c) /\ handle'[c] = handle[c] /\ request'[c] = request[c]
  BY <1>1 DEF Reading
<1> QED BY <1>2, <1>3, DiskStepApart

LEMMA ExecCreateApart ==
  ASSUME TypeOK, Apart, ExecCreate
  PROVE  Apart' /\ DiskStep /\ \A j \in Inode : data'[j] = data[j]
<1> DEFINE p == CreatedPath
           touch == Dotted(ncmd.name)
           ok == IF touch THEN Exists(p) \/ IsDir(Parent(p)) ELSE ~Exists(p) /\ IsDir(Parent(p))
           new == ok /\ ~Exists(p)
<1>1. /\ disk' = IF new THEN With(p, IF touch THEN NewInode ELSE Dir) ELSE disk
      /\ data' = IF new /\ touch THEN Append(data, << >>) ELSE data
      /\ npc' # "receive" /\ UNCHANGED sessionVars
  BY DEF ExecCreate, NamingStep
<1> HIDE DEF p, touch, new
<1>2. data \in Seq(Seq(Block)) /\ Len(data) \in Nat /\ NewInode \notin Inode
  BY DEF TypeOK, DiskTypeOK, NewInode, Inode
<1>3. DiskStep
  <2>1. \A q \in DOMAIN disk' : \/ q \in DOMAIN disk /\ disk'[q] = disk[q]
                                \/ disk'[q] = Dir
                                \/ q = p /\ disk'[q] \notin Inode
    BY <1>1, <1>2 DEF With
  <2> QED BY <2>1 DEF DiskStep
<1>4. \A j \in Inode : data'[j] = data[j]
  BY <1>1, <1>2, AppendProperties DEF Inode
<1>5. Receiving'
  BY <1>1 DEF Receiving
<1> QED BY <1>1, <1>3, <1>4, <1>5, NamingApart

(* SEND and RECEIVE write the file at one path and no other. *)
LEMMA ExecSendApart ==
  ASSUME TypeOK, Apart, ExecSend, ~Dies
  PROVE  /\ Apart' /\ DiskStep
         /\ \E p \in NamingWrites(ncmd) :
               \A j \in Inode : (p \in DOMAIN disk => j # disk[p]) => data'[j] = data[j]
<1> DEFINE p == ncmd.path \o <<TarGz>>
<1>1. /\ npc' # "receive" /\ UNCHANGED sessionVars /\ ncmd.op = "SEND"
      /\ UNCHANGED diskVars \/ (CanOpenForWriting(p) /\ SendArchive(p))
  BY DEF ExecSend, NamingStep
<1>2. p \in Str /\ p \in NamingWrites(ncmd)
  BY <1>1, CreatedPathType, ConcatType, LetterType, LetterAssumption, DiskAssumption
     DEF NamingWrites
<1> HIDE DEF p
<1>3. Receiving'
  BY <1>1 DEF Receiving
<1>4. CASE UNCHANGED diskVars
  <2>1. DiskStep /\ data' = data
    BY <1>4 DEF DiskStep, diskVars
  <2> QED BY <1>1, <1>2, <1>3, <2>1, NamingApart
<1>5. CASE CanOpenForWriting(p) /\ SendArchive(p)
  <2>1. DiskStep
    BY <1>2, <1>5, OpenDiskStep DEF TypeOK
  <2>2. ASSUME NEW j \in Inode, p \in DOMAIN disk => j # disk[p] PROVE data'[j] = data[j]
    BY <1>2, <1>5, <2>2, OpenForWritingType DEF TypeOK, OpenedInode
  <2> QED BY <1>1, <1>2, <1>3, <2>1, <2>2, NamingApart
<1> QED BY <1>1, <1>4, <1>5

LEMMA ExecReceiveApart ==
  ASSUME TypeOK, Apart, ExecReceive, ~Dies
  PROVE  /\ Apart' /\ DiskStep
         /\ \E p \in NamingWrites(ncmd) :
               \A j \in Inode : (p \in DOMAIN disk => j # disk[p]) => data'[j] = data[j]
<1> DEFINE p == CreatedPath
<1>1. /\ UNCHANGED sessionVars /\ ncmd.op = "RECEIVE" /\ ncmd' = ncmd
      /\ nhandle' = OpenedInode(p) /\ CanOpenForWriting(p) /\ OpenForWriting(p)
  BY DEF ExecReceive, NamingStep
<1>2. p \in Str /\ p \in NamingWrites(ncmd)
  BY <1>1, CreatedPathType DEF NamingWrites, CreatedPath
<1>3. Receiving'
  <2>1. CreatedPath' = p /\ p \in DOMAIN disk' /\ disk'[p] = OpenedInode(p)
    BY <1>1 DEF CreatedPath, OpenForWriting, With
  <2>2. OpenedInode(p) # Dir
    BY <1>1, <1>2, OpenForWritingType DEF TypeOK, Inode, Dir
  <2>3. ncmd \in NamingCommand
    BY <1>1 DEF TypeOK, NamingTypeOK, NoCommand
  <2> QED BY <1>1, <2>1, <2>2, <2>3 DEF Receiving, Dir
<1> HIDE DEF p
<1>4. DiskStep
  BY <1>1, <1>2, OpenDiskStep DEF TypeOK
<1>5. ASSUME NEW j \in Inode, p \in DOMAIN disk => j # disk[p] PROVE data'[j] = data[j]
  BY <1>1, <1>2, <1>5, OpenForWritingType DEF TypeOK, OpenedInode
<1> QED BY <1>1, <1>2, <1>3, <1>4, <1>5, NamingApart

LEMMA ReceiveApart ==
  ASSUME TypeOK, Apart, ReceiveBlock \/ ReceiveStop
  PROVE  /\ Apart' /\ DiskStep
         /\ \E p \in NamingWrites(ncmd) :
               \A j \in Inode : (p \in DOMAIN disk => j # disk[p]) => data'[j] = data[j]
<1> DEFINE copy == <<<<"copy", 0>>, npos>>
<1>1. /\ UNCHANGED <<sessionVars, disk, ncmd, nhandle>> /\ npc = "receive"
      /\ data' = Put(nhandle, copy) \/ data' = data
  BY DEF ReceiveBlock, ReceiveStop, NamingStep, CopyFlushed
<1>2. nhandle \in Inode \cup {Dir} /\ copy \in Source \X Nat
  BY BoundAssumption DEF TypeOK, NamingTypeOK, Source
<1> HIDE DEF copy
<1>3. Receiving' /\ DiskStep
  BY <1>1 DEF Apart, Receiving, CreatedPath, Dir, DiskStep
<1>4. /\ CreatedPath \in DOMAIN disk /\ disk[CreatedPath] = nhandle
      /\ CreatedPath \in NamingWrites(ncmd)
  BY <1>1 DEF Apart, Receiving, NamingWrites, CreatedPath
<1>5. \A j \in Inode : j # nhandle => data'[j] = data[j]
  BY <1>1, <1>2, PutType DEF TypeOK
<1> QED BY <1>1, <1>3, <1>4, <1>5, NamingApart

(* The other commands write nothing into a file. *)
LEMMA NamingRestApart ==
  ASSUME TypeOK, Apart,
         \/ \E n \in NamingCommand : NamingReceive(n)
         \/ MapCreate \/ MapDelete \/ ExecDelete
  PROVE  Apart' /\ DiskStep /\ data' = data
<1>1. UNCHANGED <<sessionVars, data>> /\ npc' # "receive"
  BY DEF NamingReceive, MapCreate, MapDelete, ExecDelete, NamingStep, diskVars
<1>2. DiskStep
  <2>1. disk' = disk \/ ExecDelete
    BY DEF NamingReceive, MapCreate, MapDelete, diskVars
  <2> QED BY <2>1 DEF DiskStep, ExecDelete
<1>3. Receiving'
  BY <1>1 DEF Receiving
<1> QED BY <1>1, <1>2, <1>3, NamingApart

LEMMA NamingDiskStep ==
  ASSUME TypeOK, Apart, ~Dies, NamingPort \/ \E n \in NamingCommand : NamingReceive(n)
  PROVE  DiskStep
  BY ExecCreateApart, ExecSendApart, ExecReceiveApart, ReceiveApart, NamingRestApart
     DEF NamingPort

(* A file at no path but r, which the command does not write to, stays as  *)
(* it is.                                                                  *)
LEMMA NamingElsewhere ==
  ASSUME TypeOK, Apart, ~Dies, NamingPort \/ \E n \in NamingCommand : NamingReceive(n),
         NEW j \in Inode, NEW r, \A q \in DOMAIN disk : disk[q] = j => q = r,
         ncmd \in NamingCommand => r \notin NamingWrites(ncmd)
  PROVE  data'[j] = data[j]
<1>1. CASE ExecCreate
  BY <1>1, ExecCreateApart
<1>2. CASE (\E n \in NamingCommand : NamingReceive(n)) \/ MapCreate \/ MapDelete \/ ExecDelete
  BY <1>2, NamingRestApart
<1>3. CASE ExecSend \/ ExecReceive \/ ReceiveBlock \/ ReceiveStop
  <2>1. ncmd.op \in {"SEND", "RECEIVE"}
    BY <1>3 DEF ExecSend, ExecReceive, ReceiveBlock, ReceiveStop, Apart, Receiving
  <2>2. ncmd \in NamingCommand
    BY <2>1 DEF TypeOK, NamingTypeOK, NoCommand
  <2>3. PICK p \in NamingWrites(ncmd) :
           \A i \in Inode : (p \in DOMAIN disk => i # disk[p]) => data'[i] = data[i]
    BY <1>3, ExecSendApart, ExecReceiveApart, ReceiveApart
  <2>4. p \in DOMAIN disk => j # disk[p]
    BY <2>2
  <2> QED BY <2>3, <2>4
<1> QED BY <1>1, <1>2, <1>3 DEF NamingPort

LEMMA NamingUndisturbed ==
  ASSUME TypeOK, Apart, CopiesApart, ~Dies,
         NamingPort \/ \E n \in NamingCommand : NamingReceive(n)
  PROVE  Undisturbed
<1>1. ASSUME NEW c \in Client, Reading(c), handle[c] \in Inode
      PROVE  data'[handle[c]] = data[handle[c]]
  <2>1. request[c].op = "READ" /\ request[c] \in Request
    BY <1>1 DEF TypeOK, SessionTypeOK, NoRequest, Apart, ReadersRead, Reading
  <2>2. ncmd \in NamingCommand => request[c].path \notin NamingWrites(ncmd)
    BY <2>1 DEF CopiesApart
  <2>3. \A q \in DOMAIN disk : disk[q] = handle[c] => q = request[c].path
    BY <1>1 DEF Apart, AtPath, Inode, Dir
  <2> QED BY <1>1, <2>2, <2>3, NamingElsewhere
<1>2. handle' = handle
  <2>1. UNCHANGED sessionVars
    BY DEF NamingPort, NamingReceive, ExecCreate, MapCreate, ExecDelete, MapDelete, ExecSend,
           ExecReceive, ReceiveBlock, ReceiveStop, NamingStep
  <2> QED BY <2>1 DEF sessionVars
<1> QED BY <1>1, <1>2, SameData

LEMMA NextApart ==
  ASSUME TypeOK, Apart, [Next]_vars
  PROVE  Apart' /\ (CopiesApart => Undisturbed)
<1>1. CASE Dies \/ UNCHANGED vars
  BY <1>1, UnchangedApart
<1>2. ASSUME NEW c \in Client,
             \/ \E r \in Request : ClientRequest(c, r)
             \/ ClientChoose(c) \/ ClientQuit(c) \/ Accept(c)
      PROVE  Apart' /\ Undisturbed
  BY <1>2, ClientApart
<1>3. ASSUME NEW c \in Client, Transfer(c), ~Dies PROVE Apart' /\ Undisturbed
  BY <1>3, Quiet, QuietApart, ReadOpenApart, WriteOpenApart, WriteApart
<1>4. CASE ~Dies /\ (NamingPort \/ \E n \in NamingCommand : NamingReceive(n))
  <2>1. Apart'
    BY <1>4, ExecCreateApart, NamingRestApart, ExecSendApart, ExecReceiveApart, ReceiveApart
       DEF NamingPort
  <2> QED BY <1>4, <2>1, NamingUndisturbed
<1> QED BY <1>1, <1>2, <1>3, <1>4 DEF Next

(* Provided the naming server never copies onto a path that clients read,  *)
(* what is read never changes under its reader, whatever the other clients *)
(* write and the naming server creates, deletes and copies meanwhile.  The *)
(* semaphores have no part in it: portThread joins one transfer before it  *)
(* accepts the next.                                                       *)
THEOREM ReadersNeverDisturbed ==
  ASSUME CopiesApart
  PROVE  Spec => ReadersUndisturbed
<1>1. Init => TypeOK /\ IndicesDistinct /\ Apart
  BY InitType, InitApart
<1>2. TypeOK /\ IndicesDistinct /\ Apart /\ [Next]_vars
         => (TypeOK /\ IndicesDistinct /\ Apart)'
  BY NextType, NextApart
<1>3. TypeOK /\ Apart /\ [Next]_vars => Undisturbed
  BY NextApart
<1>4. Undisturbed =>
         [\A c \in Client : Reading(c) => Readable(handle[c])' = Readable(handle[c])]_vars
  BY DEF Undisturbed
<1> QED BY <1>1, <1>2, <1>3, <1>4, PTL DEF Spec, ReadersUndisturbed

-----------------------------------------------------------------------------
(* The semaphores.  With one session at a time the accounts of a file are  *)
(* those of the client in service.                                         *)

Main == 0..(Len(Export) - 1)

AccountOf(c) ==
    \A i \in Main :
        /\ semaphores[i] = IF Holding(c) /\ index[c] = i THEN 0 ELSE 1
        /\ semlocks[i] = IF pc[c] = "take" /\ index[c] = i THEN 0 ELSE 1
        /\ reader_count[i] = IF Inside(c) /\ index[c] = i THEN 1 ELSE 0

Account ==
    \A i \in Main :
        /\ semaphores[i] = IF \E c \in Client : Holding(c) /\ index[c] = i THEN 0 ELSE 1
        /\ semlocks[i] = IF \E c \in Client : pc[c] = "take" /\ index[c] = i THEN 0 ELSE 1
        /\ reader_count[i] = IF \E c \in Client : Inside(c) /\ index[c] = i THEN 1 ELSE 0

Alone(c) == \A d \in Client \ {c} : pc[d] = "none"

LEMMA AloneAccount ==
  ASSUME NEW c \in Client
  PROVE  /\ Alone(c) => (Account <=> AccountOf(c)) /\ OneSession
         /\ Alone(c)' => (Account' <=> AccountOf(c)') /\ OneSession'
<1>1. ASSUME Alone(c) PROVE (Account <=> AccountOf(c)) /\ OneSession
  <2>1. \A d \in Client : Holding(d) \/ pc[d] = "take" \/ Inside(d) \/ InService(d) => d = c
    BY <1>1 DEF Alone, Holding, Inside, InService
  <2>2. \A i : (\E d \in Client : Holding(d) /\ index[d] = i) <=> Holding(c) /\ index[c] = i
    BY <2>1
  <2>3. \A i : (\E d \in Client : pc[d] = "take" /\ index[d] = i) <=> pc[c] = "take" /\ index[c] = i
    BY <2>1
  <2>4. \A i : (\E d \in Client : Inside(d) /\ index[d] = i) <=> Inside(c) /\ index[c] = i
    BY <2>1
  <2> QED BY <2>1, <2>2, <2>3, <2>4 DEF Account, AccountOf, OneSession
<1>2. ASSUME Alone(c)' PROVE (Account' <=> AccountOf(c)') /\ OneSession'
  <2>1. \A d \in Client : Holding(d)' \/ pc'[d] = "take" \/ Inside(d)' \/ InService(d)' => d = c
    BY <1>2 DEF Alone, Holding, Inside, InService
  <2>2. \A i : (\E d \in Client : Holding(d)' /\ index'[d] = i) <=> Holding(c)' /\ index'[c] = i
    BY <2>1
  <2>3. \A i : (\E d \in Client : pc'[d] = "take" /\ index'[d] = i) <=> pc'[c] = "take" /\ index'[c] = i
    BY <2>1
  <2>4. \A i : (\E d \in Client : Inside(d)' /\ index'[d] = i) <=> Inside(c)' /\ index'[c] = i
    BY <2>1
  <2> QED BY <2>1, <2>2, <2>3, <2>4 DEF Account, AccountOf, OneSession
<1> QED BY <1>1, <1>2

(* The semaphores the server made are some of those there is room for. *)
LEMMA MainInIndex == Main \subseteq Index
<1>1. /\ Len(Export) \in Nat /\ MaxNaming \in Nat /\ MAX_ASSOCIATED_FILES \in Nat
      /\ Len(Export) + MaxNaming <= MAX_ASSOCIATED_FILES
  BY BoundAssumption, DiskAssumption, LenProperties
<1> QED BY <1>1 DEF Main, Index

LEMMA InitAccount == Init => OneSession /\ Account
<1> SUFFICES ASSUME Init PROVE OneSession /\ Account
  OBVIOUS
<1>1. Main \subseteq Index
  BY MainInIndex
<1>2. \A c \in Client : ~InService(c) /\ ~Holding(c) /\ ~Inside(c) /\ pc[c] # "take"
  BY DEF Init, InService, Holding, Inside
<1>3. \A i \in Main : semaphores[i] = 1 /\ semlocks[i] = 1 /\ reader_count[i] = 0
  <2> TAKE i \in Main
  <2>1. i \in Index /\ i < Len(Export)
    BY <1>1, DiskAssumption DEF Main
  <2> QED BY <2>1 DEF Init
<1> QED BY <1>2, <1>3 DEF OneSession, Account

(* A step that no semaphore and no session notices. *)
LEMMA SameAccount ==
  ASSUME OneSession, Account, UNCHANGED <<semVars, pc, index>>
  PROVE  OneSession' /\ Account'
<1>1. /\ semaphores' = semaphores /\ semlocks' = semlocks /\ reader_count' = reader_count
      /\ pc' = pc /\ index' = index
  BY DEF semVars
<1>2. \A c : /\ Holding(c)' <=> Holding(c)
             /\ Inside(c)' <=> Inside(c)
             /\ InService(c)' <=> InService(c)
  BY <1>1 DEF Holding, Inside, InService
<1>3. OneSession'
  BY <1>2 DEF OneSession
<1>4. Account'
  BY <1>1, <1>2 DEF Account
<1> QED BY <1>3, <1>4

(* The steps that use a semaphore. *)
LEMMA SemaphoreAccount ==
  ASSUME TypeOK, NEW c \in Client, AccountOf(c),
         ReadEnter(c) \/ ReadTake(c) \/ ReadLeave(c) \/ WriteTake(c) \/ WriteStop(c)
  PROVE  AccountOf(c)'
<1>1. /\ pc \in [Client -> Session] /\ index' = index
      /\ semaphores \in [Index -> Nat] /\ semlocks \in [Index -> Nat]
      /\ reader_count \in [Index -> Int] /\ Main \subseteq Index
  <2>1. pc \in [Client -> Session]
    BY DEF TypeOK, SessionTypeOK
  <2>2. index' = index
    BY Zenon DEF ReadEnter, ReadTake, ReadLeave, WriteTake, WriteStop
  <2>3. /\ semaphores \in [Index -> Nat] /\ semlocks \in [Index -> Nat]
        /\ reader_count \in [Index -> Int]
    BY DEF TypeOK, SemTypeOK
  <2>4. Main \subseteq Index
    BY MainInIndex
  <2> QED BY <2>1, <2>2, <2>3, <2>4
<1>2. CASE ReadEnter(c)
  BY <1>1, <1>2 DEF AccountOf, Holding, Inside, ReadEnter, Goto
<1>3. CASE ReadTake(c)
  BY <1>1, <1>3 DEF AccountOf, Holding, Inside, ReadTake, Goto
<1>4. CASE ReadLeave(c)
  BY <1>1, <1>4 DEF AccountOf, Holding, Inside, ReadLeave, Goto
<1>5. CASE WriteTake(c)
  BY <1>1, <1>5 DEF AccountOf, Holding, Inside, WriteTake, Goto
<1>6. CASE WriteStop(c)
  BY <1>1, <1>6 DEF AccountOf, Holding, Inside, WriteStop, Goto
<1> QED BY <1>2, <1>3, <1>4, <1>5, <1>6

(* The other steps of a transfer. *)
LEMMA OtherAccount ==
  ASSUME TypeOK, NEW c \in Client, AccountOf(c), Transfer(c), ~Dies,
         ~ReadEnter(c), ~ReadTake(c), ~ReadLeave(c), ~WriteTake(c), ~WriteStop(c)
  PROVE  AccountOf(c)'
<1>1. pc \in [Client -> Session] /\ index \in [Client -> Nat]
  BY DEF TypeOK, SessionTypeOK
<1>2. ASSUME UNCHANGED semVars, index'[c] = index[c],
             Holding(c)' <=> Holding(c), Inside(c)' <=> Inside(c), (pc'[c] = "take") <=> (pc[c] = "take")
      PROVE  AccountOf(c)'
  BY <1>2 DEF AccountOf, semVars
<1>3. ASSUME UNCHANGED semVars, pc[c] \in {"start", "flush", "details", "create"},
             pc'[c] \in {"none", "enter", "create", "details", "wait"}
      PROVE  AccountOf(c)'
  BY <1>3 DEF AccountOf, Holding, Inside, semVars
<1>4. CASE Lookup(c) \/ DetailsSend(c)
  <2>1. UNCHANGED semVars /\ pc[c] = "start" /\ pc'[c] \in {"none", "enter", "create", "details"}
    BY <1>1, <1>4 DEF Lookup, DetailsSend, Refuse, Goto, semVars
  <2> QED BY <1>3, <2>1
<1>5. CASE WriteOpen(c) \/ WriteClose(c) \/ DetailsEnd(c)
  <2>1. /\ UNCHANGED semVars /\ pc[c] \in {"create", "flush", "details"}
        /\ pc'[c] \in {"wait", "none"}
    BY <1>1, <1>5 DEF WriteOpen, WriteClose, DetailsEnd, Goto
  <2> QED BY <1>3, <2>1
<1>6. CASE ReadOpen(c) \/ ReadSend(c) \/ ReadAck(c) \/ ReadStop(c)
  <2>1. /\ UNCHANGED semVars /\ index' = index /\ pc[c] \in {"open", "read", "ack"}
        /\ pc'[c] \in {"read", "ack", "leave"}
    BY <1>1, <1>6 DEF ReadOpen, ReadSend, ReadAck, ReadStop, Goto
  <2> QED BY <1>2, <2>1 DEF Holding, Inside
<1>7. CASE WriteBlock(c)
  <2>1. UNCHANGED semVars /\ index' = index /\ pc' = pc
    BY <1>7 DEF WriteBlock
  <2> QED BY <1>2, <2>1 DEF Holding, Inside
<1> QED BY <1>4, <1>5, <1>6, <1>7 DEF Transfer, WriteCut

LEMMA NextAccount ==
  ASSUME TypeOK, OneSession, Account, [Next]_vars
  PROVE  OneSession' /\ Account'
<1>1. pc \in [Client -> Session]
  BY DEF TypeOK, SessionTypeOK
<1>2. ASSUME NEW c \in Client, Transfer(c), ~Dies PROVE OneSession' /\ Account'
  <2>1. pc[c] # "none"
    BY <1>2 DEF Transfer, Lookup, ReadEnter, ReadTake, ReadOpen, ReadSend, ReadAck, ReadStop,
                ReadLeave, WriteOpen, WriteTake, WriteBlock, WriteStop, WriteClose, WriteCut,
                DetailsSend, DetailsEnd
  <2>2. Alone(c)
    BY <2>1 DEF OneSession, InService, Alone
  <2>3. \A d \in Client \ {c} : pc'[d] = pc[d]
    BY <1>1, <1>2 DEF Transfer, Lookup, ReadEnter, ReadTake, ReadOpen, ReadSend, ReadAck, ReadStop,
                ReadLeave, WriteOpen, WriteTake, WriteBlock, WriteStop, WriteClose, WriteCut,
                DetailsSend, DetailsEnd, Refuse, Goto
  <2>4. Alone(c)'
    BY <2>2, <2>3 DEF Alone
  <2>5. AccountOf(c)
    BY <2>2, AloneAccount
  <2>6. AccountOf(c)'
    BY <1>2, <2>5, SemaphoreAccount, OtherAccount
  <2> QED BY <2>4, <2>6, AloneAccount
<1>3. ASSUME NEW c \in Client, Accept(c) PROVE OneSession' /\ Account'
  <2>1. /\ UNCHANGED semVars /\ index' = index /\ pc[c] = "none" /\ pc'[c] = "start"
        /\ \A d \in Client \ {c} : pc[d] = "none" /\ pc'[d] = "none"
    BY <1>1, <1>3 DEF Accept, Serve, InService
  <2>2. Alone(c) /\ Alone(c)'
    BY <2>1 DEF Alone
  <2>3. AccountOf(c)
    BY <2>2, AloneAccount
  <2>4. AccountOf(c)'
    BY <2>1, <2>3 DEF AccountOf, Holding, Inside, semVars
  <2> QED BY <2>2, <2>4, AloneAccount
<1>4. ASSUME NEW c \in Client,
             \/ \E r \in Request : ClientRequest(c, r)
             \/ ClientChoose(c) \/ ClientQuit(c)
      PROVE  OneSession' /\ Account'
  BY <1>4, SameAccount DEF ClientRequest, ClientChoose, ClientQuit, sessionVars
<1>5. CASE (\E n \in NamingCommand : NamingReceive(n)) \/ NamingPort \/ Dies \/ UNCHANGED vars
  <2>1. UNCHANGED <<semVars, pc, index>>
    BY <1>5 DEF NamingReceive, NamingPort, ExecCreate, MapCreate, ExecDelete, MapDelete, ExecSend,
                ExecReceive, ReceiveBlock, ReceiveStop, NamingStep, Dies, vars, sessionVars
  <2> QED BY <2>1, SameAccount
<1> QED BY <1>2, <1>3, <1>4, <1>5 DEF Next

(* A set with at most one member. *)
LEMMA AtMostOne ==
  ASSUME NEW S, \A x, y \in S : x = y
  PROVE  Cardinality(S) = IF S = {} THEN 0 ELSE 1
<1>1. CASE S = {}
  BY <1>1, FS_EmptySet
<1>2. CASE S # {}
  <2>1. PICK x \in S : TRUE
    BY <1>2
  <2>2. S = {x}
    BY <2>1
  <2> QED BY <1>2, <2>2, FS_Singleton
<1> QED BY <1>1, <1>2

(* Every way through and out of read_file and write_to_file gives back     *)
(* exactly the semaphores it took, for any clients, requests and files,    *)
(* whatever the naming port does meanwhile.                                *)
THEOREM SemaphoresBalance == Spec => []SemaphoresAccounted
<1>1. Init => TypeOK /\ IndicesDistinct /\ OneSession /\ Account
  BY InitType, InitAccount
<1>2. TypeOK /\ IndicesDistinct /\ OneSession /\ Account /\ [Next]_vars
         => (TypeOK /\ IndicesDistinct /\ OneSession /\ Account)'
  BY NextType, NextAccount
<1>3. OneSession /\ Account => SemaphoresAccounted
  <2> SUFFICES ASSUME OneSession, Account, NEW i \in Main
               PROVE  /\ semaphores[i] + Cardinality({c \in Client : Holding(c) /\ index[c] = i}) = 1
                      /\ semlocks[i] + Cardinality({c \in Client : pc[c] = "take" /\ index[c] = i}) = 1
                      /\ reader_count[i] = Cardinality({c \in Client : Inside(c) /\ index[c] = i})
    BY DEF SemaphoresAccounted, Main
  <2> DEFINE H == {c \in Client : Holding(c) /\ index[c] = i}
             T == {c \in Client : pc[c] = "take" /\ index[c] = i}
             R == {c \in Client : Inside(c) /\ index[c] = i}
  <2>1. \A c, d \in Client : pc[c] # "none" /\ pc[d] # "none" => c = d
    BY DEF OneSession, InService
  <2>2. /\ \A x, y \in H : x = y
        /\ \A x, y \in T : x = y
        /\ \A x, y \in R : x = y
    BY <2>1 DEF Holding, Inside
  <2>3. /\ semaphores[i] = IF H = {} THEN 1 ELSE 0
        /\ semlocks[i] = IF T = {} THEN 1 ELSE 0
        /\ reader_count[i] = IF R = {} THEN 0 ELSE 1
    BY DEF Account
  <2> HIDE DEF H, T, R
  <2>4. /\ Cardinality(H) = IF H = {} THEN 0 ELSE 1
        /\ Cardinality(T) = IF T = {} THEN 0 ELSE 1
        /\ Cardinality(R) = IF R = {} THEN 0 ELSE 1
    BY <2>2, AtMostOne
  <2>5. /\ semaphores[i] + Cardinality(H) = 1
        /\ semlocks[i] + Cardinality(T) = 1
        /\ reader_count[i] = Cardinality(R)
    BY <2>3, <2>4
  <2> QED BY <2>5 DEF H, T, R
<1> QED BY <1>1, <1>2, <1>3, PTL DEF Spec

-----------------------------------------------------------------------------
(* What a client writes arrives.                                           *)

(* The naming server copies onto no path that clients write. *)
WritesApart ==
    \A r \in Request, n \in NamingCommand : r.op = "WRITE" => r.path \notin NamingWrites(n)

Writing(c) == pc[c] \in {"wait", "write", "flush"}

(* The blocks that are in the file: all but the one stdio still holds.     *)
Sent(c) == [k \in 1..(IF pos[c] = 0 THEN 0 ELSE pos[c] - 1) |-> Piece(c, k)]

(* The file a client writes has what it sent up to there, and is at the    *)
(* path it asked for or nowhere; nothing is sent of a file not yet chosen. *)
WriterOK(c) ==
    /\ pc[c] \in {"create", "wait", "write", "flush"} => request[c].op = "WRITE"
    /\ pc[c] \in {"create", "wait"} => pos[c] = 0
    /\ pc[c] = "flush" => ~More(c)
    /\ Writing(c) =>
          /\ client[c] = "typing" => pos[c] = 0 /\ pc[c] # "flush"
          /\ pos[c] <= Len(upload[c]) /\ \A k \in 1..pos[c] : upload[c][k] # "STOP"
          /\ handle[c] # Dir /\ data[handle[c]] = Sent(c)
          /\ \A q \in DOMAIN disk : disk[q] = handle[c] => q = request[c].path

Whole == \A c \in Client : WriterOK(c)

(* The next block of a file that has those before it. *)
LEMMA PutNext ==
  ASSUME DiskTypeOK, NEW inode \in Inode, NEW f, NEW k \in Nat \ {0}, f[k][2] = k,
         data[inode] = [j \in 1..(k - 1) |-> f[j]]
  PROVE  Put(inode, f[k])[inode] = [j \in 1..k |-> f[j]]
<1>1. inode \in DOMAIN data
  BY DEF DiskTypeOK, Inode
<1>2. PICK old : old = data[inode]
  OBVIOUS
<1>3. Put(inode, f[k])[inode]
        = [j \in 1..(IF Len(old) < k THEN k ELSE Len(old)) |->
              IF j = k THEN f[k] ELSE IF j <= Len(old) THEN old[j] ELSE <<Hole, 0>>]
  BY <1>1, <1>2 DEF Put
<1>4. Len(old) = k - 1
  <2>0. data \in Seq(Seq(Block)) /\ inode \in 1..Len(data)
    BY DEF DiskTypeOK, Inode
  <2>1. old \in Seq(Block)
    BY <1>2, <2>0, ElementOfSeq
  <2>2. DOMAIN old = 1..(k - 1) /\ k - 1 \in Nat
    BY <1>2
  <2> QED BY <2>1, <2>2, LenProperties
<1>5. (IF Len(old) < k THEN k ELSE Len(old)) = k
  BY <1>4
<1>6. ASSUME NEW j \in 1..k
      PROVE  (IF j = k THEN f[k] ELSE IF j <= Len(old) THEN old[j] ELSE <<Hole, 0>>) = f[j]
  <2>1. CASE j = k
    BY <2>1
  <2>2. CASE j # k
    <3>1. j \in 1..(k - 1) /\ j <= Len(old)
      BY <1>4, <2>2
    <3> QED BY <1>2, <2>2, <3>1
  <2> QED BY <2>1, <2>2
<1> QED BY <1>3, <1>5, <1>6

(* What stdio holds reaches the file of a writer. *)
LEMMA FlushNext ==
  ASSUME TypeOK, NEW c \in Client, handle[c] \in Inode, data[handle[c]] = Sent(c),
         data' = Flushed(c)
  PROVE  data'[handle[c]] = [k \in 1..pos[c] |-> Piece(c, k)]
<1>1. pos[c] \in Nat
  BY DEF TypeOK, SessionTypeOK
<1>2. CASE pos[c] = 0
  <2>1. data'[handle[c]] = Sent(c)
    BY <1>2 DEF Flushed
  <2> QED BY <1>2, <2>1 DEF Sent
<1>3. CASE pos[c] # 0
  <2>1. PICK h, m, f : h = handle[c] /\ m = pos[c] /\ f = [k \in Nat |-> Piece(c, k)]
    OBVIOUS
  <2>2. DiskTypeOK /\ h \in Inode /\ m \in Nat \ {0}
    BY <1>1, <1>3, <2>1 DEF TypeOK
  <2>3. f[m] = Piece(c, m) /\ f[m][2] = m
    BY <2>1, <2>2 DEF Piece
  <2>4. data[h] = [k \in 1..(m - 1) |-> f[k]]
    <3>1. Sent(c) = [k \in 1..(m - 1) |-> Piece(c, k)]
      BY <1>3, <2>1 DEF Sent
    <3>2. \A k \in 1..(m - 1) : f[k] = Piece(c, k)
      BY <2>1, <2>2
    <3> QED BY <2>1, <3>1, <3>2
  <2>5. Put(h, f[m])[h] = [k \in 1..m |-> f[k]]
    BY <2>2, <2>3, <2>4, PutNext
  <2>6. data' = Put(h, f[m])
    BY <1>3, <2>1, <2>3 DEF Flushed
  <2>7. [k \in 1..m |-> f[k]] = [k \in 1..m |-> Piece(c, k)]
    <3>1. \A k \in 1..m : f[k] = Piece(c, k)
      BY <2>1, <2>2
    <3> QED BY <3>1
  <2>8. data'[h] = [k \in 1..m |-> Piece(c, k)]
    BY <2>5, <2>6, <2>7
  <2> QED BY <2>1, <2>8
<1> QED BY <1>2, <1>3

(* A step that has nothing to do with the file. *)
LEMMA WriterKept ==
  ASSUME TypeOK, DiskStep, NEW c \in Client, WriterOK(c),
         pc'[c] = pc[c], pos'[c] = pos[c], handle'[c] = handle[c],
         InService(c) => /\ request'[c] = request[c] /\ upload'[c] = upload[c]
                         /\ client'[c] = "typing" => client[c] = "typing",
         Writing(c) /\ handle[c] \in Inode => data'[handle[c]] = data[handle[c]]
  PROVE  WriterOK(c)'
<1>1. CASE ~InService(c)
  BY <1>1 DEF InService, WriterOK, Writing
<1>2. CASE InService(c) /\ ~Writing(c)
  BY <1>2 DEF WriterOK, Writing
<1>3. CASE Writing(c)
  <2>1. /\ handle[c] \in Inode /\ request'[c] = request[c] /\ upload'[c] = upload[c]
        /\ client'[c] = "typing" => client[c] = "typing"
    BY <1>3 DEF WriterOK, TypeOK, SessionTypeOK, Writing, InService
  <2>2. Sent(c)' = Sent(c) /\ More(c)' = More(c)
    BY <2>1 DEF Sent, Piece, More, Mine, Cut
  <2>3. \A q \in DOMAIN disk' : disk'[q] = handle[c] => q = request[c].path
    <3>1. \A q \in DOMAIN disk' : \/ q \in DOMAIN disk /\ disk'[q] = disk[q]
                                  \/ disk'[q] = Dir \/ disk'[q] \notin Inode
      BY DEF DiskStep
    <3> QED BY <1>3, <2>1, <3>1 DEF WriterOK
  <2>4. data'[handle[c]] = data[handle[c]]
    BY <1>3, <2>1
  <2> QED BY <1>3, <2>1, <2>2, <2>3, <2>4 DEF WriterOK, Writing, Dir
<1> QED BY <1>1, <1>2, <1>3 DEF Writing, InService

(* The user names the file. *)
LEMMA ChooseWhole ==
  ASSUME TypeOK, NEW c \in Client, WriterOK(c), ClientChoose(c)
  PROVE  WriterOK(c)'
<1>1. UNCHANGED <<sessionVars, diskVars>> /\ client[c] = "typing" /\ client'[c] # "typing"
  BY DEF ClientChoose, TypeOK, ClientTypeOK
<1>2. pos[c] \in Nat /\ upload' \in [Client -> Seq(Chunk)]
  <2>1. TypeOK'
    BY ClientType
  <2> QED BY <2>1 DEF TypeOK, SessionTypeOK, ClientTypeOK
<1>3. CASE ~Writing(c)
  BY <1>1, <1>3 DEF WriterOK, Writing, sessionVars
<1>4. CASE Writing(c)
  <2>1. pos[c] = 0 /\ pc[c] # "flush"
    BY <1>1, <1>4 DEF WriterOK
  <2>2. Sent(c) = << >> /\ Sent(c)' = << >>
    BY <1>1, <2>1 DEF Sent, sessionVars
  <2>3. pos'[c] <= Len(upload'[c])
    BY <1>1, <1>2, <2>1, LenProperties DEF sessionVars
  <2>4. 1..pos'[c] = {}
    BY <1>1, <2>1 DEF sessionVars
  <2> QED BY <1>1, <1>4, <2>1, <2>2, <2>3, <2>4 DEF WriterOK, Writing, sessionVars, diskVars, Dir
<1> QED BY <1>3, <1>4

LEMMA InitWhole == Init => Whole
  BY DEF Init, Whole, WriterOK, Writing

(* A client that is not in service is not writing. *)
LEMMA NotWriting ==
  ASSUME NEW c, pc[c] \notin {"create", "wait", "write", "flush"}
  PROVE  WriterOK(c)
  BY DEF WriterOK, Writing

LEMMA NotWritingNext ==
  ASSUME NEW c, pc'[c] \notin {"create", "wait", "write", "flush"}
  PROVE  WriterOK(c)'
  BY DEF WriterOK, Writing

(* The steps of the others while a transfer is under way. *)
LEMMA OthersWhole ==
  ASSUME TypeOK, Apart, NEW c \in Client, WriterOK(c), NEW d \in Client, d # c, Transfer(d), ~Dies
  PROVE  WriterOK(c)'
<1>1. InService(d)
  BY DEF Transfer, Lookup, ReadEnter, ReadTake, ReadOpen, ReadSend, ReadAck, ReadStop, ReadLeave,
         WriteOpen, WriteTake, WriteBlock, WriteStop, WriteClose, WriteCut, DetailsSend,
         DetailsEnd, InService
<1>2. pc[c] = "none"
  BY <1>1 DEF Apart, OneSession, InService
<1>3. \E label : pc' = [pc EXCEPT ![d] = label] \/ pc' = pc
  <2>1. CASE ReadOpen(d) \/ WriteOpen(d) \/ WriteBlock(d) \/ WriteClose(d)
    BY <2>1 DEF ReadOpen, WriteOpen, WriteBlock, WriteClose, Goto
  <2>2. CASE ~(ReadOpen(d) \/ WriteOpen(d) \/ WriteBlock(d) \/ WriteClose(d))
    BY <2>2, Quiet DEF QuietStep
  <2> QED BY <2>1, <2>2
<1>4. pc'[c] = "none"
  BY <1>2, <1>3 DEF TypeOK, SessionTypeOK
<1> QED BY <1>4, NotWritingNext

LEMMA LookupWhole ==
  ASSUME TypeOK, NEW c \in Client, Lookup(c), ~Dies
  PROVE  WriterOK(c)'
<1>0. pc \in [Client -> Session] /\ pos \in [Client -> Nat]
  BY DEF TypeOK, SessionTypeOK
<1>1. CASE Refuse(c)
  BY <1>0, <1>1, NotWritingNext DEF Refuse
<1>2. CASE ~Refuse(c)
  <2>1. /\ pc' = [pc EXCEPT ![c] = IF request[c].op = "READ" THEN "enter" ELSE "create"]
        /\ pos' = [pos EXCEPT ![c] = 0] /\ request' = request
        /\ request[c].op \in {"READ", "WRITE"}
    BY <1>2 DEF Lookup
  <2>2. CASE request[c].op = "READ"
    BY <1>0, <2>1, <2>2, NotWritingNext
  <2>3. CASE request[c].op = "WRITE"
    <3>1. pc'[c] = "create" /\ pos'[c] = 0 /\ request'[c].op = "WRITE"
      BY <1>0, <2>1, <2>3
    <3> QED BY <3>1 DEF WriterOK, Writing
  <2> QED BY <2>1, <2>2, <2>3
<1> QED BY <1>1, <1>2

LEMMA WriteOpenWhole ==
  ASSUME TypeOK, Apart, NEW c \in Client, WriterOK(c), WriteOpen(c), ~Dies
  PROVE  WriterOK(c)'
<1> DEFINE p == request[c].path
<1>1. /\ request' = request /\ pos' = pos /\ pc[c] = "create" /\ pc' = [pc EXCEPT ![c] = "wait"]
      /\ handle' = [handle EXCEPT ![c] = OpenedInode(p)]
      /\ CanOpenForWriting(p) /\ OpenForWriting(p)
  BY DEF WriteOpen, Goto
<1>2. /\ pc \in [Client -> Session] /\ handle \in [Client -> Inode \cup {Dir}] /\ p \in Str
      /\ data \in Seq(Seq(Block)) /\ Len(data) \in Nat /\ DiskTypeOK
  BY PathsInStr DEF TypeOK, SessionTypeOK, DiskTypeOK
<1> HIDE DEF p
<1>3. pc'[c] = "wait" /\ handle'[c] = OpenedInode(p) /\ pos'[c] = 0 /\ request'[c].op = "WRITE"
  BY <1>1, <1>2 DEF WriterOK
<1>4. OpenedInode(p) # Dir
  BY <1>1, <1>2, OpenForWritingType DEF Inode, Dir
<1>5. data'[OpenedInode(p)] = << >>
  <2>1. CASE p \in DOMAIN disk
    <3>1. OpenedInode(p) = disk[p] /\ data' = [data EXCEPT ![disk[p]] = << >>]
      BY <1>1, <2>1 DEF OpenForWriting, OpenedData, OpenedInode
    <3>2. disk[p] \in DOMAIN data
      BY <1>2, <1>4, <2>1, <3>1 DEF DiskTypeOK, Inode
    <3> QED BY <3>1, <3>2
  <2>2. CASE p \notin DOMAIN disk
    <3>1. OpenedInode(p) = Len(data) + 1 /\ data' = Append(data, << >>)
      BY <1>1, <2>2 DEF OpenForWriting, OpenedData, OpenedInode, NewInode
    <3> QED BY <1>2, <3>1, AppendProperties
  <2> QED BY <2>1, <2>2
<1>6. Sent(c)' = << >> /\ 1..pos'[c] = {} /\ pos'[c] <= Len(upload'[c])
  <2>1. upload' = upload /\ Len(upload[c]) \in Nat
    BY LenProperties DEF WriteOpen, Dies, clientVars, TypeOK, ClientTypeOK
  <2> QED BY <1>3, <2>1 DEF Sent
<1>7. \A q \in DOMAIN disk' : disk'[q] = OpenedInode(p) => q = p
  <2>1. disk' = With(p, OpenedInode(p)) /\ (p \notin DOMAIN disk => OpenedInode(p) \notin Inode)
    BY <1>1, <1>2, OpenForWritingType DEF OpenForWriting
  <2>2. p \in DOMAIN disk => OpenedInode(p) = disk[p]
    BY DEF OpenedInode
  <2> SUFFICES ASSUME NEW q \in DOMAIN disk', disk'[q] = OpenedInode(p), q # p PROVE FALSE
    OBVIOUS
  <2>3. q \in DOMAIN disk /\ disk[q] = OpenedInode(p)
    BY <2>1 DEF With
  <2>4. disk[q] \in Inode
    BY <1>2, <1>4, <2>3 DEF DiskTypeOK
  <2> QED BY <1>4, <2>1, <2>2, <2>3, <2>4 DEF Apart, OwnInode
<1>8. request'[c].path = p
  BY <1>1 DEF p
<1> QED BY <1>3, <1>4, <1>5, <1>6, <1>7, <1>8 DEF WriterOK, Dir

LEMMA WriteBlockWhole ==
  ASSUME TypeOK, NEW c \in Client, WriterOK(c), WriteBlock(c)
  PROVE  WriterOK(c)'
<1>1. /\ UNCHANGED <<pc, request, handle, disk, client, upload>>
      /\ pc[c] = "write" /\ client[c] = "sending" /\ More(c)
      /\ pos' = [pos EXCEPT ![c] = @ + 1] /\ data' = Flushed(c)
  BY DEF WriteBlock, clientVars
<1>2. /\ handle[c] \in Inode /\ data[handle[c]] = Sent(c) /\ pos[c] \in Nat
      /\ \A q \in DOMAIN disk : disk[q] = handle[c] => q = request[c].path
      /\ \A k \in 1..pos[c] : upload[c][k] # "STOP"
      /\ pos'[c] = pos[c] + 1 /\ request[c].op = "WRITE" /\ Len(upload[c]) \in Nat
  BY <1>1, LenProperties DEF TypeOK, SessionTypeOK, ClientTypeOK, WriterOK, Writing
<1>3. Sent(c)' = [k \in 1..pos[c] |-> Piece(c, k)]
  <2>1. (IF pos'[c] = 0 THEN 0 ELSE pos'[c] - 1) = pos[c]
    BY <1>2
  <2> QED BY <1>1, <2>1 DEF Sent, Piece, Mine, Cut
<1>4. data'[handle[c]] = [k \in 1..pos[c] |-> Piece(c, k)]
  BY <1>1, <1>2, FlushNext
<1>5. pos'[c] <= Len(upload'[c]) /\ \A k \in 1..pos'[c] : upload'[c][k] # "STOP"
  BY <1>1, <1>2 DEF More
<1> QED BY <1>1, <1>2, <1>3, <1>4, <1>5 DEF WriterOK, Writing, Inode, Dir

(* The chunks before the first that reads STOP are those that were sent.   *)
LEMMA SentBeforeStop ==
  ASSUME NEW file \in Seq(Chunk), NEW n \in Nat, n <= Len(file),
         \A k \in 1..n : file[k] # "STOP",
         ~(n < Len(file) /\ file[n + 1] # "STOP")
  PROVE  BeforeStop(file) = n
<1> DEFINE Before(m) == /\ \A k \in 1..m : file[k] # "STOP"
                        /\ m < Len(file) => file[m + 1] = "STOP"
<1>0. Len(file) \in Nat
  BY LenProperties
<1>1. n \in 0..Len(file) /\ Before(n)
  BY <1>0
<1>2. ASSUME NEW m \in 0..Len(file), Before(m) PROVE m = n
  <2>1. ~(m < n)
    <3> SUFFICES ASSUME m < n PROVE FALSE
      OBVIOUS
    <3>1. m + 1 \in 1..n /\ m < Len(file)
      BY <1>0
    <3> QED BY <1>2, <3>1
  <2>2. ~(n < m)
    <3> SUFFICES ASSUME n < m PROVE FALSE
      OBVIOUS
    <3>1. n + 1 \in 1..m /\ n < Len(file)
      BY <1>0
    <3> QED BY <1>2, <3>1
  <2> QED BY <1>0, <2>1, <2>2
<1>3. BeforeStop(file) = CHOOSE m \in 0..Len(file) : Before(m)
  BY DEF BeforeStop
<1> HIDE DEF Before
<1> QED BY <1>1, <1>2, <1>3

LEMMA WriteCloseWhole ==
  ASSUME TypeOK, NEW c \in Client, WriterOK(c), WriteClose(c)
  PROVE  data'[handle[c]] = Delivered(c) /\ WriterOK(c)'
<1>1. pc[c] = "flush" /\ pc' = [pc EXCEPT ![c] = "none"] /\ data' = Flushed(c)
  BY DEF WriteClose, Goto
<1>2. /\ handle[c] \in Inode /\ data[handle[c]] = Sent(c) /\ ~More(c)
      /\ pos[c] \in Nat /\ upload[c] \in Seq(Chunk)
      /\ pos[c] <= Len(upload[c]) /\ \A k \in 1..pos[c] : upload[c][k] # "STOP"
  BY <1>1 DEF TypeOK, SessionTypeOK, ClientTypeOK, WriterOK, Writing
<1>3. BeforeStop(upload[c]) = pos[c]
  BY <1>2, SentBeforeStop DEF More
<1>4. data'[handle[c]] = Delivered(c)
  <2>1. data'[handle[c]] = [k \in 1..pos[c] |-> Piece(c, k)]
    BY <1>1, <1>2, FlushNext
  <2> QED BY <1>3, <2>1 DEF Delivered, Piece
<1>5. WriterOK(c)'
  <2>1. pc'[c] = "none"
    BY <1>1 DEF TypeOK, SessionTypeOK
  <2> QED BY <2>1, NotWritingNext
<1> QED BY <1>4, <1>5

(* The steps of the transfer itself. *)
LEMMA TransferWhole ==
  ASSUME TypeOK, Apart, NEW c \in Client, WriterOK(c), Transfer(c), ~Dies
  PROVE  WriterOK(c)'
<1>0. pc \in [Client -> Session]
  BY DEF TypeOK, SessionTypeOK
<1>1. CASE Lookup(c)
  BY <1>1, LookupWhole
<1>2. CASE \/ ReadEnter(c) \/ ReadTake(c) \/ ReadOpen(c) \/ ReadSend(c) \/ ReadAck(c)
           \/ ReadStop(c) \/ ReadLeave(c) \/ DetailsSend(c) \/ DetailsEnd(c)
  <2>1. pc'[c] \notin {"create", "wait", "write", "flush"}
    BY <1>0, <1>2 DEF ReadEnter, ReadTake, ReadOpen, ReadSend, ReadAck, ReadStop, ReadLeave,
                      DetailsSend, DetailsEnd, Goto, Refuse
  <2> QED BY <2>1, NotWritingNext
<1>3. CASE WriteOpen(c)
  BY <1>3, WriteOpenWhole
<1>4. CASE WriteTake(c) \/ WriteStop(c)
  <2>1. /\ UNCHANGED <<diskVars, request, handle, pos, upload>>
        /\ \/ pc[c] = "wait" /\ pc'[c] = "write" /\ client' = client
           \/ pc[c] = "write" /\ pc'[c] = "flush" /\ ~More(c) /\ client'[c] = "idle"
    BY <1>0, <1>4 DEF WriteTake, WriteStop, Goto, clientVars, TypeOK, ClientTypeOK
  <2>2. Sent(c)' = Sent(c) /\ More(c)' = More(c)
    BY <2>1 DEF Sent, Piece, More, Mine, Cut
  <2> QED BY <2>1, <2>2 DEF WriterOK, Writing, diskVars, Dir
<1>5. CASE WriteBlock(c)
  BY <1>5, WriteBlockWhole
<1>6. CASE WriteClose(c)
  BY <1>6, WriteCloseWhole
<1>7. ~WriteCut(c)
  BY DEF WriteCut
<1> QED BY <1>1, <1>2, <1>3, <1>4, <1>5, <1>6, <1>7 DEF Transfer

LEMMA NamingWhole ==
  ASSUME TypeOK, Apart, WritesApart, ~Dies, NEW c \in Client, WriterOK(c),
         NamingPort \/ \E n \in NamingCommand : NamingReceive(n)
  PROVE  WriterOK(c)'
<1>1. UNCHANGED <<sessionVars, clientVars>>
  BY DEF NamingPort, NamingReceive, ExecCreate, MapCreate, ExecDelete, MapDelete, ExecSend,
         ExecReceive, ReceiveBlock, ReceiveStop, NamingStep
<1>2. ASSUME Writing(c), handle[c] \in Inode PROVE data'[handle[c]] = data[handle[c]]
  <2>1. /\ request[c].op = "WRITE" /\ request[c] \in Request
        /\ \A q \in DOMAIN disk : disk[q] = handle[c] => q = request[c].path
    BY <1>2 DEF TypeOK, SessionTypeOK, NoRequest, WriterOK, Writing
  <2>2. ncmd \in NamingCommand => request[c].path \notin NamingWrites(ncmd)
    BY <2>1 DEF WritesApart
  <2> QED BY <1>2, <2>1, <2>2, NamingElsewhere
<1>3. DiskStep
  BY NamingDiskStep
<1> QED BY <1>1, <1>2, <1>3, WriterKept DEF sessionVars, clientVars

LEMMA NextWhole ==
  ASSUME TypeOK, Apart, WritesApart, Whole, [Next]_vars
  PROVE  Whole'
<1> SUFFICES ASSUME NEW c \in Client PROVE WriterOK(c)'
  BY DEF Whole
<1>0. WriterOK(c) /\ pc \in [Client -> Session] /\ request \in [Client -> Request \cup {NoRequest}]
  BY DEF Whole, TypeOK, SessionTypeOK
<1>1. CASE Dies \/ UNCHANGED vars
  <2>1. UNCHANGED <<diskVars, sessionVars, clientVars>>
    BY <1>1 DEF Dies, vars
  <2>2. DiskStep
    BY <2>1 DEF DiskStep, diskVars
  <2> QED BY <1>0, <2>1, <2>2, WriterKept DEF diskVars, sessionVars, clientVars
<1>2. ASSUME NEW d \in Client, ClientChoose(d) \/ ClientQuit(d)
             \/ (\E r \in Request : ClientRequest(d, r))
      PROVE  WriterOK(c)'
  <2>1. CASE ClientChoose(d) /\ d = c
    BY <1>0, <2>1, ChooseWhole
  <2>2. CASE ~(ClientChoose(d) /\ d = c)
    <3>1. UNCHANGED <<diskVars, pc, handle, pos>>
      BY <1>2 DEF ClientRequest, ClientChoose, ClientQuit, sessionVars
    <3>2. DiskStep
      BY <3>1 DEF DiskStep, diskVars
    <3>3. client \in [Client -> {"idle", "queued", "typing", "sending", "receiving", "gone"}]
      BY DEF TypeOK, ClientTypeOK
    <3>4. client'[c] = "typing" => client[c] = "typing"
      BY <1>2, <3>3 DEF ClientRequest, ClientChoose, ClientQuit
    <3>5. InService(c) => request'[c] = request[c]
      BY <1>0, <1>2 DEF ClientRequest, ClientChoose, ClientQuit, sessionVars, InService
    <3>6. upload'[c] = upload[c]
      BY <1>2, <2>2 DEF ClientRequest, ClientChoose, ClientQuit, TypeOK, ClientTypeOK
    <3> QED BY <1>0, <3>1, <3>2, <3>4, <3>5, <3>6, WriterKept DEF diskVars
  <2> QED BY <2>1, <2>2
<1>3. ASSUME NEW d \in Client, Accept(d) PROVE WriterOK(c)'
  <2>1. pc[c] = "none" /\ pc' = [pc EXCEPT ![d] = "start"]
    BY <1>3 DEF Accept, Serve, InService
  <2>2. pc'[c] \in {"none", "start"}
    BY <1>0, <2>1
  <2> QED BY <2>2, NotWritingNext
<1>4. ASSUME NEW d \in Client, Transfer(d), ~Dies PROVE WriterOK(c)'
  BY <1>0, <1>4, TransferWhole, OthersWhole
<1>5. CASE ~Dies /\ (NamingPort \/ \E n \in NamingCommand : NamingReceive(n))
  BY <1>0, <1>5, NamingWhole
<1> QED BY <1>1, <1>2, <1>3, <1>4, <1>5 DEF Next

(* Provided the naming server never copies onto a path that clients write, *)
(* the file a WRITE closes has what its client sent before a chunk that    *)
(* reads STOP, each chunk up to its first zero byte, and nothing else,     *)
(* whatever was deleted and created at its path meanwhile.  Of a text that *)
(* is all of it.                                                           *)
THEOREM WritesAlwaysArrive ==
  ASSUME WritesApart
  PROVE  Spec => WritesArrive
<1>1. Init => TypeOK /\ IndicesDistinct /\ Apart /\ Whole
  BY InitType, InitApart, InitWhole
<1>2. TypeOK /\ IndicesDistinct /\ Apart /\ Whole /\ [Next]_vars
         => (TypeOK /\ IndicesDistinct /\ Apart /\ Whole)'
  BY NextType, NextApart, NextWhole
<1>3. TypeOK /\ Whole
         => [\A c \in Client : WriteClose(c) => data'[handle[c]] = Delivered(c)]_vars
  BY WriteCloseWhole DEF Whole
<1> QED BY <1>1, <1>2, <1>3, PTL DEF Spec, WritesArrive

-----------------------------------------------------------------------------
(* The files of path_to_sem.                                               *)

Given == Members(Export)
            \cup {Join(n.path, n.name) : n \in {m \in NamingCommand : m.op = "CREATE"}}

(* No archive a SEND leaves in the root, and removes there, has the name   *)
(* of a file with a semaphore.                                             *)
ArchivesApart ==
    \A n \in NamingCommand :
        n.op = "SEND" => <<"/">> \o Basename(n.path \o <<TarGz>>) \notin Given

(* While a path is deleted from the table, what is gone from the disk is   *)
(* below it; one that is added is on the disk before.                      *)
Indexed ==
    /\ npc = "map" => ncmd \in NamingCommand /\ ncmd.op = "CREATE" /\ CreatedPath \in DOMAIN disk
    /\ DOMAIN path_to_sem \subseteq Given
    /\ \A p \in DOMAIN path_to_sem : p \in DOMAIN disk \/ (npc = "unmap" /\ Under(p, ncmd.path))

LEMMA InitIndexed == Init => Indexed
<1> SUFFICES ASSUME Init PROVE Indexed
  OBVIOUS
<1>1. /\ npc = "accept" /\ DOMAIN path_to_sem = Members(Export)
      /\ DOMAIN disk = InitialDir \cup Members(InitialFile)
  BY DEF Init
<1>2. Members(Export) \subseteq InitialDir \cup Members(InitialFile)
  BY DiskAssumption DEF Members
<1> QED BY <1>1, <1>2 DEF Indexed, Given

(* What the client port does takes no path away. *)
LEMMA SessionIndexed ==
  ASSUME Indexed, UNCHANGED <<namingVars, tableVars>>, DOMAIN disk \subseteq DOMAIN disk'
  PROVE  Indexed'
  BY DEF Indexed, namingVars, tableVars, CreatedPath

LEMMA TransferIndexed ==
  ASSUME TypeOK, NEW c \in Client, Transfer(c), ~Dies
  PROVE  UNCHANGED namingVars /\ DOMAIN disk \subseteq DOMAIN disk'
<1>1. CASE ReadOpen(c) \/ WriteBlock(c) \/ WriteClose(c)
  BY <1>1 DEF ReadOpen, WriteBlock, WriteClose, diskVars
<1>2. CASE WriteOpen(c)
  BY <1>2 DEF WriteOpen, OpenForWriting, With
<1>3. CASE ~(ReadOpen(c) \/ WriteOpen(c) \/ WriteBlock(c) \/ WriteClose(c))
  BY <1>3, Quiet DEF QuietStep, diskVars
<1> QED BY <1>1, <1>2, <1>3

LEMMA ExecCreateIndexed ==
  ASSUME TypeOK, Indexed, ExecCreate
  PROVE  Indexed'
<1> DEFINE p == CreatedPath
           touch == Dotted(ncmd.name)
           ok == IF touch THEN Exists(p) \/ IsDir(Parent(p)) ELSE ~Exists(p) /\ IsDir(Parent(p))
           new == ok /\ ~Exists(p)
<1>1. /\ disk' = IF new THEN With(p, IF touch THEN NewInode ELSE Dir) ELSE disk
      /\ npc' = (IF ok THEN "map" ELSE "accept") /\ npc = "exec" /\ ncmd.op = "CREATE"
      /\ UNCHANGED <<ncmd, path_to_sem>>
  BY DEF ExecCreate, NamingStep, tableVars
<1>2. p \in Str /\ p # Empty
  BY CreatedPathType, JoinNotEmpty DEF CreatedPath
<1>3. ncmd \in NamingCommand
  BY <1>1 DEF TypeOK, NamingTypeOK, NoCommand
<1>4. DOMAIN disk \subseteq DOMAIN disk'
  BY <1>1 DEF With
<1>5. ok => p \in DOMAIN disk'
  <2>1. CASE new
    BY <1>1, <2>1 DEF With
  <2>2. CASE ok /\ ~new
    BY <1>1, <1>2, <2>2 DEF Exists
  <2> QED BY <2>1, <2>2
<1> HIDE DEF ok, new
<1>6. npc' = "map" => ncmd' \in NamingCommand /\ ncmd'.op = "CREATE" /\ CreatedPath' \in DOMAIN disk'
  <2>1. CreatedPath' = p
    BY <1>1 DEF CreatedPath
  <2> QED BY <1>1, <1>3, <1>5, <2>1
<1>7. \A q \in DOMAIN path_to_sem : q \in DOMAIN disk
  BY <1>1 DEF Indexed
<1> QED BY <1>1, <1>4, <1>6, <1>7 DEF Indexed

LEMMA MapIndexed ==
  ASSUME TypeOK, Indexed, MapCreate \/ MapDelete
  PROVE  Indexed'
<1>1. npc' = "accept" /\ disk' = disk
  BY DEF MapCreate, MapDelete, NamingStep, diskVars
<1>2. CASE MapCreate
  <2>1. /\ DOMAIN path_to_sem' = DOMAIN path_to_sem \cup {CreatedPath}
        /\ CreatedPath \in DOMAIN disk /\ CreatedPath \in Given
    BY <1>2 DEF MapCreate, set_value, Indexed, CreatedPath, Given
  <2>2. \A q \in DOMAIN path_to_sem : q \in DOMAIN disk
    BY <1>2 DEF Indexed, MapCreate
  <2> QED BY <1>1, <2>1, <2>2 DEF Indexed
<1>3. CASE MapDelete
  <2>1. \A q \in DOMAIN path_to_sem' : q \in DOMAIN path_to_sem /\ ~Under(q, ncmd.path)
    BY <1>3 DEF MapDelete, remove_entry
  <2> QED BY <1>1, <2>1 DEF Indexed
<1> QED BY <1>2, <1>3

LEMMA ExecIndexed ==
  ASSUME TypeOK, Indexed, ArchivesApart, ~Dies,
         ExecDelete \/ ExecSend \/ ExecReceive \/ ReceiveBlock \/ ReceiveStop
  PROVE  Indexed'
<1>1. /\ path_to_sem' = path_to_sem /\ ncmd' = ncmd /\ npc \in {"exec", "receive"}
      /\ npc' \in {"accept", "receive", "unmap"}
  BY DEF ExecDelete, ExecSend, ExecReceive, ReceiveBlock, ReceiveStop, NamingStep, tableVars
<1>2. \A q \in DOMAIN path_to_sem : q \in DOMAIN disk /\ q \in Given
  BY <1>1 DEF Indexed
<1>3. ASSUME NEW q \in DOMAIN path_to_sem
      PROVE  q \in DOMAIN disk' \/ (npc' = "unmap" /\ Under(q, ncmd.path))
  <2>1. CASE ExecDelete
    BY <1>2, <2>1 DEF ExecDelete, NamingStep
  <2>2. CASE ExecSend
    <3> DEFINE archive == ncmd.path \o <<TarGz>>
               stray == <<"/">> \o Basename(archive)
    <3>1. UNCHANGED diskVars \/ SendArchive(archive)
      BY <2>2 DEF ExecSend
    <3>2. q # stray
      <4>1. ncmd \in NamingCommand /\ ncmd.op = "SEND"
        BY <2>2 DEF ExecSend, TypeOK, NamingTypeOK, NoCommand
      <4> QED BY <1>2, <4>1 DEF ArchivesApart
    <3> HIDE DEF archive
    <3>3. CASE SendArchive(archive)
      <4>1. q \in DOMAIN With(archive, OpenedInode(archive))
        BY <1>2 DEF With
      <4> QED BY <3>2, <3>3, <4>1 DEF SendArchive
    <3> QED BY <1>2, <3>1, <3>3 DEF diskVars
  <2>3. CASE ExecReceive
    BY <1>2, <2>3 DEF ExecReceive, OpenForWriting, With
  <2>4. CASE ReceiveBlock \/ ReceiveStop
    BY <1>2, <2>4 DEF ReceiveBlock, ReceiveStop
  <2> QED BY <2>1, <2>2, <2>3, <2>4
<1> QED BY <1>1, <1>2, <1>3 DEF Indexed

LEMMA NextIndexed ==
  ASSUME TypeOK, Indexed, ArchivesApart, [Next]_vars
  PROVE  Indexed'
<1>1. CASE Dies \/ UNCHANGED vars
  <2>1. UNCHANGED <<namingVars, tableVars, diskVars>>
    BY <1>1 DEF Dies, vars
  <2> QED BY <2>1, SessionIndexed DEF diskVars
<1>2. ASSUME NEW c \in Client,
             \/ \E r \in Request : ClientRequest(c, r)
             \/ ClientChoose(c) \/ ClientQuit(c) \/ Accept(c)
      PROVE  Indexed'
  <2>1. UNCHANGED <<namingVars, tableVars, diskVars>>
    BY <1>2 DEF ClientRequest, ClientChoose, ClientQuit, Accept, Serve
  <2> QED BY <2>1, SessionIndexed DEF diskVars
<1>3. ASSUME NEW c \in Client, Transfer(c), ~Dies PROVE Indexed'
  <2>1. ~MapCreate /\ ~MapDelete
    <3>1. UNCHANGED namingVars
      BY <1>3, TransferIndexed
    <3> QED BY <3>1 DEF namingVars, MapCreate, MapDelete, NamingStep
  <2>2. UNCHANGED tableVars
    BY <1>3, <2>1, TableKept
  <2> QED BY <1>3, <2>2, TransferIndexed, SessionIndexed
<1>4. ASSUME NEW n \in NamingCommand, NamingReceive(n) PROVE Indexed'
  <2>1. npc = "accept" /\ npc' = "exec" /\ UNCHANGED <<disk, path_to_sem>>
    BY <1>4 DEF NamingReceive, NamingStep, diskVars, tableVars
  <2> QED BY <2>1 DEF Indexed
<1>5. CASE NamingPort /\ ~Dies
  BY <1>5, ExecCreateIndexed, MapIndexed, ExecIndexed DEF NamingPort
<1> QED BY <1>1, <1>2, <1>3, <1>4, <1>5 DEF Next

(* A path with a semaphore is on the disk unless it is just being deleted, *)
(* if no archive has its name: CREATE and DELETE change disk and table in  *)
(* the right order, and a transfer takes no path away.                     *)
THEOREM IndexedFilesAlwaysExist ==
  ASSUME ArchivesApart
  PROVE  Spec => []IndexedFilesExist
<1>1. TypeOK /\ IndicesDistinct /\ Indexed /\ [Next]_vars
         => (TypeOK /\ IndicesDistinct /\ Indexed)'
  BY NextType, NextIndexed
<1>2. Indexed => IndexedFilesExist
  BY DEF Indexed, IndexedFilesExist
<1> QED BY <1>1, <1>2, InitType, InitIndexed, PTL DEF Spec

=============================================================================
