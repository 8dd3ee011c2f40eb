---------------------------- MODULE GatesProofs ----------------------------
(***************************************************************************)
(* Proofs about Gates, for any clients, any number of ids, any sizes and   *)
(* any number of packets under way.  A message finds its stream because an *)
(* id never leaves the client it was given out for: not in the streams of  *)
(* the dispatcher, not at the server, and not in a packet under way.       *)
(***************************************************************************)
EXTENDS Gates, FiniteSetTheorems, TLAPS

(* The id was given out for u, by one end or by the other. *)
GivenTo(made, opened, u, id) ==
  \/ \E k \in 1 .. Len(made) : id = ClientId(k) /\ made[k] = u
  \/ \E k \in 1 .. Len(opened) : id = ServerId(k) /\ opened[k] = u

Owned(u, id) == GivenTo(gt_made, gt_opened, u, id)

(* Wherever an id stands for a client, it was given out for that client. *)
IdsOwned ==
  /\ \A u \in GtUids : gt_streams[u] # 0 => Owned(u, gt_streams[u])
  /\ \A u \in GtUids : gt_server[u] # 0 => Owned(u, gt_server[u])
  /\ \A i \in DOMAIN gt_up : Owned(gt_up[i].uid, gt_up[i].id)
  /\ \A i \in DOMAIN gt_down : Owned(gt_down[i].message.uid, gt_down[i].id)

(* A client with a SplitterGate has a message stream. *)
SplitterHasStream == \A u \in GtUids : gt_splitters[u] # {} => gt_streams[u] # 0

(* What was received and what is under way is what was sent. *)
Messages == [uid : GtUids, inner : GtInner, data : Nat]
InOrder ==
  /\ gt_got \in Seq([message : Messages, reached : SUBSET GtUids, times : SUBSET Nat])
  /\ Len(gt_got) + Len(gt_down) = Len(gt_sent)
  /\ \A i \in DOMAIN gt_down : gt_down[i].message = gt_sent[Len(gt_got) + i]

(* The inductive invariant. *)
GtIInv == GatesRight /\ IdsOwned /\ SplitterHasStream /\ InOrder

-----------------------------------------------------------------------------
(* Ids *)

(* An id of the client's is a value of StreamId and odd, wrapped or not:   *)
(* never 0.                                                                *)
LEMMA ClientIdType == \A k \in Nat \ {0} : ClientId(k) \in 1 .. GtIds - 1
<1> SUFFICES ASSUME NEW k \in Nat \ {0} PROVE ClientId(k) \in 1 .. GtIds - 1
  OBVIOUS
<1> DEFINE a == 2 * k - 1
           q == a \div GtIds
           h == GtIds \div 2
<1>1. a \in Nat /\ GtIds \in Nat \ {0} /\ GtIds = 2 * h /\ h \in Nat
  BY GatesAssumption
<1>2. q \in Int /\ a = GtIds * q + (a % GtIds) /\ a % GtIds \in 0 .. GtIds - 1
  BY <1>1
<1>3. ASSUME a % GtIds = 0 PROVE FALSE
  <2> HIDE DEF q, h
  <2> DEFINE m == h * q
  <2>1. m \in Int /\ GtIds * q = 2 * m
    <3>1. \A x, y \in Int : x * y \in Int /\ (2 * x) * y = 2 * (x * y)
      OBVIOUS
    <3> QED
      BY <1>1, <1>2, <3>1
  <2> HIDE DEF m
  <2> QED
    BY <1>2, <1>3, <2>1
<1> QED
  BY <1>2, <1>3 DEF ClientId

(* An id of the server's is even, and never 0. *)
LEMMA ServerIdType == \A k \in Nat \ {0} : ServerId(k) \in 1 .. GtIds - 1
<1> SUFFICES ASSUME NEW k \in Nat \ {0} PROVE ServerId(k) \in 1 .. GtIds - 1
  OBVIOUS
<1> DEFINE n == GtIds \div 2 - 1
<1>1. n \in Nat \ {0} /\ GtIds = 2 * (n + 1)
  BY GatesAssumption
<1>2. (k - 1) % n \in 0 .. n - 1
  BY <1>1
<1> HIDE DEF n
<1>3. ServerId(k) = 2 + 2 * ((k - 1) % n)
  BY DEF ServerId, n
<1> QED
  BY <1>1, <1>2, <1>3

(* Until the ids wrap no two are the same: the counters have not, and one  *)
(* end's are odd, the other's even.                                        *)
LEMMA IdsDiffer ==
  /\ \A k \in 1 .. GtIds \div 2 : ClientId(k) = 2 * k - 1
  /\ \A k \in 1 .. GtIds \div 2 - 1 : ServerId(k) = 2 * k
<1> DEFINE n == GtIds \div 2 - 1
<1>1. n \in Nat \ {0} /\ GtIds = 2 * (n + 1)
  BY GatesAssumption
<1>2. ASSUME NEW k \in 1 .. GtIds \div 2 PROVE ClientId(k) = 2 * k - 1
  <2>1. 2 * k - 1 \in 0 .. GtIds - 1 /\ GtIds \in Nat \ {0}
    BY GatesAssumption
  <2> QED
    BY <2>1 DEF ClientId
<1>3. ASSUME NEW k \in 1 .. n PROVE ServerId(k) = 2 * k
  <2>1. k - 1 \in 0 .. n - 1
    BY <1>1
  <2>2. (k - 1) % n = k - 1
    BY <1>1, <2>1
  <2> QED
    BY <2>1, <2>2 DEF ServerId
<1> QED
  BY <1>2, <1>3

(* An id that is owned is not 0, and until the ids wrap it has one owner.  *)
LEMMA OwnedIds ==
  ASSUME GtTypeOK, NEW u \in GtUids, NEW id, Owned(u, id)
  PROVE  /\ id \in 1 .. GtIds - 1
         /\ \A v \in GtUids : ~ Wrapped /\ Owned(v, id) => v = u
<1>1. id \in 1 .. GtIds - 1
  <2>1. Len(gt_made) \in Nat /\ Len(gt_opened) \in Nat
    BY DEF GtTypeOK
  <2>2. CASE \E k \in 1 .. Len(gt_made) : id = ClientId(k)
    BY <2>1, <2>2, ClientIdType
  <2>3. CASE \E k \in 1 .. Len(gt_opened) : id = ServerId(k)
    BY <2>1, <2>3, ServerIdType
  <2> QED
    BY <2>2, <2>3 DEF Owned, GivenTo
<1>2. ASSUME NEW v \in GtUids, ~ Wrapped, Owned(v, id) PROVE v = u
  <2>1. Len(gt_made) \in Nat /\ Len(gt_opened) \in Nat
    BY DEF GtTypeOK
  <2>2. GtIds \div 2 \in Nat
    BY GatesAssumption
  <2>3. \A k \in 1 .. Len(gt_made) : ClientId(k) = 2 * k - 1
    BY <1>2, <2>1, <2>2, IdsDiffer DEF Wrapped
  <2>4. \A k \in 1 .. Len(gt_opened) : ServerId(k) = 2 * k
    BY <1>2, <2>1, <2>2, IdsDiffer DEF Wrapped
  <2>5. \/ \E k \in 1 .. Len(gt_made) : id = 2 * k - 1 /\ gt_made[k] = u
        \/ \E k \in 1 .. Len(gt_opened) : id = 2 * k /\ gt_opened[k] = u
    BY <2>3, <2>4 DEF Owned, GivenTo
  <2>6. \/ \E k \in 1 .. Len(gt_made) : id = 2 * k - 1 /\ gt_made[k] = v
        \/ \E k \in 1 .. Len(gt_opened) : id = 2 * k /\ gt_opened[k] = v
    BY <1>2, <2>3, <2>4 DEF Owned, GivenTo
  <2> QED
    BY <2>1, <2>5, <2>6
<1> QED
  BY <1>1, <1>2
(* t begins with s. *)
Grown(s, t) == \A k \in 1 .. Len(s) : k \in 1 .. Len(t) /\ t[k] = s[k]

(* A sequence begins with itself, and so does what is appended to it. *)
LEMMA AppendGrows ==
  ASSUME NEW S, NEW s \in Seq(S), NEW e \in S
  PROVE  /\ Grown(s, s) /\ Grown(s, Append(s, e))
         /\ Len(s) + 1 = Len(Append(s, e)) /\ Append(s, e)[Len(s) + 1] = e
  BY DEF Grown

(* Where the elements are after an Append. *)
LEMMA AppendAt ==
  ASSUME NEW S, NEW q \in Seq(S), NEW e \in S, NEW a, a = Append(q, e)
  PROVE  /\ a \in Seq(S) /\ Len(a) = Len(q) + 1 /\ DOMAIN a = 1 .. Len(q) + 1
         /\ \A i \in DOMAIN a :
              \/ i \in DOMAIN q /\ a[i] = q[i]
              \/ i = Len(q) + 1 /\ a[i] = e
<1>1. Len(q) \in Nat /\ DOMAIN q = 1 .. Len(q)
  OBVIOUS
<1>2. a \in Seq(S) /\ Len(a) = Len(q) + 1
  OBVIOUS
<1>3. DOMAIN a = 1 .. Len(q) + 1
  BY <1>2
<1>4. (\A i \in 1 .. Len(q) : a[i] = q[i]) /\ a[Len(q) + 1] = e
  OBVIOUS
<1>5. ASSUME NEW i \in DOMAIN a
      PROVE  \/ i \in DOMAIN q /\ a[i] = q[i]
             \/ i = Len(q) + 1 /\ a[i] = e
  <2>1. i \in 1 .. Len(q) \/ i = Len(q) + 1
    BY <1>1, <1>3
  <2> QED
    BY <1>1, <1>4, <2>1
<1> QED
  BY <1>2, <1>3, <1>5

(* Where the elements are after the first is taken. *)
LEMMA TailAt ==
  ASSUME NEW S, NEW q \in Seq(S), q # <<>>
  PROVE  /\ 1 \in DOMAIN q /\ Head(q) = q[1] /\ Head(q) \in S
         /\ Tail(q) \in Seq(S) /\ Len(Tail(q)) = Len(q) - 1
         /\ DOMAIN Tail(q) = 1 .. Len(q) - 1
         /\ \A i \in DOMAIN Tail(q) : i + 1 \in DOMAIN q /\ Tail(q)[i] = q[i + 1]
  OBVIOUS

(* Giving out more ids takes none away from its owner. *)
LEMMA OwnedStays ==
  ASSUME Grown(gt_made, gt_made'), Grown(gt_opened, gt_opened'), NEW u, NEW id, Owned(u, id)
  PROVE  Owned(u, id)'
<1>1. CASE \E k \in 1 .. Len(gt_made) : id = ClientId(k) /\ gt_made[k] = u
  BY <1>1 DEF Grown, Owned, GivenTo, ClientId
<1>2. CASE \E k \in 1 .. Len(gt_opened) : id = ServerId(k) /\ gt_opened[k] = u
  BY <1>2 DEF Grown, Owned, GivenTo, ServerId
<1> QED
  BY <1>1, <1>2 DEF Owned, GivenTo

(* A new id belongs to the one it was made for. *)
LEMMA OwnedNew ==
  ASSUME GtTypeOK, NEW u \in GtUids
  PROVE  /\ gt_made' = Append(gt_made, u) => Owned(u, ClientId(Len(gt_made)))'
         /\ gt_opened' = Append(gt_opened, u) => Owned(u, ServerId(Len(gt_opened)))'
<1> USE DEF GtTypeOK
<1>1. ASSUME gt_made' = Append(gt_made, u) PROVE Owned(u, ClientId(Len(gt_made)))'
  <2>1. Len(gt_made') \in 1 .. Len(gt_made') /\ gt_made'[Len(gt_made')] = u
    BY <1>1, AppendGrows
  <2> QED
    BY <2>1 DEF Owned, GivenTo, ClientId
<1>2. ASSUME gt_opened' = Append(gt_opened, u) PROVE Owned(u, ServerId(Len(gt_opened)))'
  <2>1. Len(gt_opened') \in 1 .. Len(gt_opened') /\ gt_opened'[Len(gt_opened')] = u
    BY <1>2, AppendGrows
  <2> QED
    BY <2>1 DEF Owned, GivenTo, ServerId
<1> QED
  BY <1>1, <1>2

-----------------------------------------------------------------------------
(* Sizes *)

(* What a gate announces is a size. *)
LEMMA UserInfoType == \A max \in Nat : UserInfo(max) \in Nat
  BY GatesAssumption
  DEF UserInfo, MessageStreamInfo, ServerStreamInfo, CryptoInfo, AddHeaderInfo, StreamApiInfo,
      Without, kStreamMessageOverhead

(* Any write of at most the announced size is no larger than a packet once *)
(* the stream, message stream, cipher and login gates have added theirs:   *)
(* every overhead a gate subtracts covers what it adds, the length of the  *)
(* PackedSize included (stream_info and WriteOut of each gate).            *)
THEOREM SizesFit ==
  \A max, size \in Nat : size # 0 /\ size <= UserInfo(max) => UserSize(size) <= max
<1> SUFFICES ASSUME NEW max \in Nat, NEW size \in Nat, size # 0, size <= UserInfo(max)
             PROVE  UserSize(size) <= max
  OBVIOUS
<1>1. {CryptoOverhead, LoginHeader, OpenHeader} \subseteq Nat
  BY GatesAssumption
<1>2. \A n \in Nat : StreamApiSize(n) \in Nat /\ StreamApiSize(n) <= n + 10
  BY DEF StreamApiSize, PackedLength
<1>3. \A n \in Nat : MessageStreamSize(n) \in Nat /\ MessageStreamSize(n) <= n + 10 + OpenHeader
  BY <1>1, <1>2 DEF MessageStreamSize, AddHeaderSize
<1>4. \A n \in Nat : ServerStreamSize(n) \in Nat
                     /\ ServerStreamSize(n) <= n + CryptoOverhead + 10 + LoginHeader
  BY <1>1, <1>2 DEF ServerStreamSize, AddHeaderSize, Encrypted
<1>5. UserSize(size) <= size + 30 + OpenHeader + CryptoOverhead + LoginHeader
  <2> DEFINE s1 == StreamApiSize(size)
             s2 == MessageStreamSize(s1)
  <2>1. s1 \in Nat /\ s1 <= size + 10
    BY <1>2
  <2> HIDE DEF s1
  <2>2. s2 \in Nat /\ s2 <= s1 + 10 + OpenHeader
    BY <1>3, <2>1
  <2> HIDE DEF s2
  <2>3. ServerStreamSize(s2) \in Nat /\ ServerStreamSize(s2) <= s2 + CryptoOverhead + 10 + LoginHeader
    BY <1>4, <2>2
  <2>4. UserSize(size) = ServerStreamSize(s2)
    BY DEF UserSize, s1, s2
  <2> QED
    BY <1>1, <2>1, <2>2, <2>3, <2>4
<1>6. UserInfo(max) <= max - 30 - OpenHeader - CryptoOverhead - LoginHeader
  BY <1>1
  DEF UserInfo, MessageStreamInfo, ServerStreamInfo, CryptoInfo, AddHeaderInfo, StreamApiInfo,
      Without, kStreamMessageOverhead
<1>7. UserSize(size) \in Int /\ UserInfo(max) \in Nat
  <2>1. UserInfo(max) \in Nat
    BY UserInfoType
  <2>2. UserSize(size) \in Int
    BY <1>2, <1>3, <1>4 DEF UserSize
  <2> QED
    BY <2>1, <2>2
<1> QED
  BY <1>1, <1>5, <1>6, <1>7

(* The users of a client's streams know the size there is. *)
Told == \A u \in GtUids : gt_splitters[u] # {} => gt_told[u] = UserInfo(gt_max)

(* What users know fits exactly when it is the size there is. *)
LEMMA ToldFits == GtTypeOK => (AnnouncedFits <=> Told)
<1> SUFFICES ASSUME GtTypeOK, Told PROVE AnnouncedFits
  BY DEF AnnouncedFits, Told
<1> SUFFICES ASSUME NEW u \in GtUids, gt_splitters[u] # {},
                    NEW size \in {1, gt_told[u] \div 2, gt_told[u]}, size <= gt_told[u], size # 0
             PROVE  UserSize(size) <= gt_max
  BY DEF AnnouncedFits, Told
<1>1. gt_told[u] \in Nat /\ gt_max \in Nat /\ gt_told[u] = UserInfo(gt_max)
  BY DEF Told, GtTypeOK
<1>2. size \in Nat
  BY <1>1
<1> QED
  BY <1>1, <1>2, SizesFit

(* The same in the next state. *)
LEMMA ToldFitsNext == (GtTypeOK => (AnnouncedFits <=> Told))'
  BY ToldFits, PTL
-----------------------------------------------------------------------------
(* Steps *)

(* The initial state satisfies the invariant. *)
LEMMA GtInitInv == GtInit => GtIInv
<1> SUFFICES ASSUME GtInit PROVE GtIInv
  OBVIOUS
<1>1. GtTypeOK
  BY GatesAssumption DEF GtInit, GtTypeOK, NoIds
<1>2. EachReachesItsOwn
  BY DEF GtInit, EachReachesItsOwn
<1>3. AnnouncedFits
  BY <1>1, ToldFits DEF GtInit, Told
<1>4. IdsOwned /\ SplitterHasStream /\ InOrder
  BY DEF GtInit, NoIds, IdsOwned, SplitterHasStream, InOrder
<1> QED
  BY <1>1, <1>2, <1>3, <1>4 DEF GtIInv, GatesRight

(* Ids in their places stay with their owners while a step leaves those    *)
(* places alone and gives none out, or some more.                          *)
LEMMA IdsStay ==
  ASSUME IdsOwned, Grown(gt_made, gt_made'), Grown(gt_opened, gt_opened')
  PROVE  /\ gt_streams' = gt_streams => \A u \in GtUids : gt_streams'[u] # 0 => Owned(u, gt_streams[u])'
         /\ gt_server' = gt_server => \A u \in GtUids : gt_server'[u] # 0 => Owned(u, gt_server[u])'
         /\ gt_up' = gt_up => \A i \in DOMAIN gt_up' : Owned(gt_up[i].uid, gt_up[i].id)'
         /\ gt_down' = gt_down =>
              \A i \in DOMAIN gt_down' : Owned(gt_down[i].message.uid, gt_down[i].id)'
<1>1. \A u, id : Owned(u, id) => Owned(u, id)'
  BY OwnedStays
<1> QED
  BY <1>1 DEF IdsOwned

(* The sequences have lengths. *)
LEMMA Lengths ==
  ASSUME GtTypeOK, InOrder
  PROVE  /\ Len(gt_got) \in Nat /\ DOMAIN gt_got = 1 .. Len(gt_got)
         /\ Len(gt_down) \in Nat /\ DOMAIN gt_down = 1 .. Len(gt_down)
         /\ Len(gt_up) \in Nat /\ DOMAIN gt_up = 1 .. Len(gt_up)
         /\ Len(gt_sent) \in Nat /\ DOMAIN gt_sent = 1 .. Len(gt_sent)
<1>1. ASSUME NEW S, NEW q \in Seq(S) PROVE Len(q) \in Nat /\ DOMAIN q = 1 .. Len(q)
  OBVIOUS
<1>2. \A S : \A q \in Seq(S) : Len(q) \in Nat /\ DOMAIN q = 1 .. Len(q)
  BY <1>1
<1> QED
  BY <1>2, Zenon DEF GtTypeOK, InOrder

(* What was received stays so, while more ids are given out and more is    *)
(* sent.                                                                   *)
LEMMA ReceivedStays ==
  ASSUME GtTypeOK, InOrder, EachReachesItsOwn, gt_got' = gt_got, Grown(gt_sent, gt_sent'),
         Len(gt_made) <= Len(gt_made'), Len(gt_opened) <= Len(gt_opened'),
         gt_made' \in Seq(GtUids \cup {Elsewhere}), gt_opened' \in Seq(GtUids)
  PROVE  EachReachesItsOwn'
<1> SUFFICES ASSUME ~ Wrapped', NEW i \in DOMAIN gt_got
             PROVE  /\ gt_got[i].message = gt_sent'[i] /\ gt_got[i].times = {1}
                    /\ gt_got[i].reached = {gt_sent'[i].uid}
  BY DEF EachReachesItsOwn
<1>1. ~ Wrapped
  <2>1. GtIds \div 2 \in Nat
    BY GatesAssumption
  <2> QED
    BY <2>1 DEF Wrapped, GtTypeOK
<1>2. i \in 1 .. Len(gt_sent)
  <2>1. Len(gt_got) \in Nat /\ Len(gt_down) \in Nat /\ DOMAIN gt_got = 1 .. Len(gt_got)
    BY Lengths
  <2> QED
    BY <2>1 DEF InOrder
<1>3. gt_sent'[i] = gt_sent[i]
  BY <1>2 DEF Grown
<1> QED
  BY <1>1, <1>3 DEF EachReachesItsOwn

(* The transport connects. *)
LEMMA ConnectedStep == GtIInv /\ GtConnected => GtIInv'
<1> SUFFICES ASSUME GtIInv, GtConnected PROVE GtIInv'
  OBVIOUS
<1> USE DEF GtIInv, GatesRight
<1>1. GtTypeOK'
  BY GatesAssumption, UserInfoType DEF GtConnected, GtTypeOK, ToldAll
<1>2. Grown(gt_made, gt_made') /\ Grown(gt_opened, gt_opened') /\ Grown(gt_sent, gt_sent')
  BY DEF GtConnected, Grown
<1>3. EachReachesItsOwn'
  BY <1>2, ReceivedStays DEF GtConnected, GtTypeOK
<1>4. IdsOwned'
  BY <1>2, IdsStay DEF GtConnected, IdsOwned
<1>5. SplitterHasStream' /\ InOrder'
  BY DEF GtConnected, SplitterHasStream, InOrder
<1>6. Told'
  BY DEF GtConnected, Told, ToldAll
<1> QED
  BY <1>1, <1>3, <1>4, <1>5, <1>6, ToldFitsNext

(* A user opens a stream. *)
LEMMA CreateStep ==
  ASSUME GtIInv, NEW u \in GtUids, NEW s \in GtInner, GtCreate(u, s)
  PROVE  GtIInv'
<1> USE DEF GtIInv, GatesRight
<1>1. \/ gt_made' = gt_made /\ gt_streams' = gt_streams /\ gt_streams[u] # 0
      \/ gt_made' = Append(gt_made, u) /\ gt_streams' = [gt_streams EXCEPT ![u] = ClientId(Len(gt_made'))]
  BY DEF GtCreate
<1>2. gt_made' \in Seq(GtUids \cup {Elsewhere}) /\ Grown(gt_made, gt_made') /\ Len(gt_made) <= Len(gt_made')
  <2>1. CASE gt_made' = gt_made
    BY <2>1 DEF GtTypeOK, Grown
  <2>2. CASE gt_made' = Append(gt_made, u)
    BY <2>2, AppendGrows DEF GtTypeOK
  <2> QED
    BY <1>1, <2>1, <2>2
<1>3. gt_made' = Append(gt_made, u) => ClientId(Len(gt_made')) \in 1 .. GtIds - 1
  BY AppendGrows, ClientIdType DEF GtTypeOK
<1>4. GtTypeOK'
  <2>1. gt_streams' \in [GtUids -> 0 .. GtIds - 1]
    <3>1. CASE gt_streams' = gt_streams
      BY <3>1 DEF GtTypeOK
    <3>2. CASE gt_streams' = [gt_streams EXCEPT ![u] = ClientId(Len(gt_made'))] /\ gt_made' = Append(gt_made, u)
      BY <1>3, <3>2 DEF GtTypeOK
    <3> QED
      BY <1>1, <3>1, <3>2
  <2>2. gt_splitters' \in [GtUids -> SUBSET GtInner] /\ gt_told' \in [GtUids -> Nat]
    BY UserInfoType DEF GtCreate, GtTypeOK
  <2> QED
    BY <1>2, <2>1, <2>2 DEF GtCreate, GtTypeOK
<1>5. Grown(gt_opened, gt_opened') /\ Grown(gt_sent, gt_sent')
  BY DEF GtCreate, Grown
<1>6. EachReachesItsOwn'
  BY <1>2, <1>5, ReceivedStays DEF GtCreate, GtTypeOK
<1>7. IdsOwned'
  <2>1. \A v \in GtUids : gt_streams'[v] # 0 => Owned(v, gt_streams[v])'
    <3>1. CASE gt_streams' = gt_streams
      BY <1>2, <1>5, <3>1, IdsStay
    <3>2. CASE /\ gt_made' = Append(gt_made, u)
               /\ gt_streams' = [gt_streams EXCEPT ![u] = ClientId(Len(gt_made'))]
      <4>1. Owned(u, gt_streams[u])'
        <5>1. gt_streams'[u] = ClientId(Len(gt_made'))
          BY <3>2 DEF GtTypeOK
        <5>2. Owned(u, ClientId(Len(gt_made)))'
          BY <3>2, OwnedNew
        <5> QED
          BY <5>1, <5>2 DEF Owned, ClientId
      <4>2. \A v, id : Owned(v, id) => Owned(v, id)'
        BY <1>2, <1>5, OwnedStays
      <4>3. ASSUME NEW v \in GtUids, v # u, gt_streams'[v] # 0 PROVE Owned(v, gt_streams[v])'
        <5>1. gt_streams'[v] = gt_streams[v]
          BY <3>2, <4>3 DEF GtTypeOK
        <5>2. Owned(v, gt_streams[v])
          BY <4>3, <5>1 DEF IdsOwned
        <5> QED
          BY <4>2, <4>3, <5>1, <5>2 DEF Owned
      <4> QED
        BY <4>1, <4>3
    <3> QED
      BY <1>1, <3>1, <3>2
  <2> QED
    BY <1>2, <1>5, <2>1, IdsStay DEF GtCreate, IdsOwned
<1>8. SplitterHasStream'
  <2> SUFFICES ASSUME NEW v \in GtUids, gt_splitters'[v] # {} PROVE gt_streams'[v] # 0
    BY DEF SplitterHasStream
  <2>1. CASE v = u
    <3>1. \/ gt_streams' = gt_streams /\ gt_streams[u] # 0
          \/ /\ gt_made' = Append(gt_made, u)
             /\ gt_streams' = [gt_streams EXCEPT ![u] = ClientId(Len(gt_made'))]
      BY DEF GtCreate
    <3> QED
      BY <1>3, <2>1, <3>1 DEF GtTypeOK
  <2>2. CASE v # u
    <3>1. gt_streams'[v] = gt_streams[v]
      BY <1>1, <2>2 DEF GtTypeOK
    <3>2. gt_splitters'[v] = gt_splitters[v]
      BY <2>2 DEF GtCreate, GtTypeOK
    <3> QED
      BY <3>1, <3>2 DEF SplitterHasStream
  <2> QED
    BY <2>1, <2>2
<1>9. InOrder' /\ Told'
  BY <1>4, ToldFits DEF GtCreate, InOrder, Told, GtTypeOK
<1> QED
  BY <1>4, <1>6, <1>7, <1>8, <1>9, ToldFitsNext

(* An id is taken for another stream. *)
LEMMA TakeIdStep == GtIInv /\ GtTakeId => GtIInv'
<1> SUFFICES ASSUME GtIInv, GtTakeId PROVE GtIInv'
  OBVIOUS
<1> USE DEF GtIInv, GatesRight
<1>1. /\ gt_made' = Append(gt_made, Elsewhere) /\ Elsewhere \in GtUids \cup {Elsewhere}
      /\ gt_made \in Seq(GtUids \cup {Elsewhere})
  BY DEF GtTakeId, GtTypeOK
<1>2. gt_made' \in Seq(GtUids \cup {Elsewhere}) /\ Grown(gt_made, gt_made') /\ Len(gt_made) <= Len(gt_made')
  BY <1>1, AppendGrows
<1>3. GtTypeOK'
  BY <1>2 DEF GtTakeId, GtTypeOK
<1>4. Grown(gt_opened, gt_opened') /\ Grown(gt_sent, gt_sent')
  BY DEF GtTakeId, Grown
<1>5. EachReachesItsOwn'
  BY <1>2, <1>4, ReceivedStays DEF GtTakeId, GtTypeOK
<1>6. IdsOwned'
  BY <1>2, <1>4, IdsStay DEF GtTakeId, IdsOwned
<1>7. SplitterHasStream' /\ Told'
  BY ToldFits DEF GtTakeId, SplitterHasStream, Told, GtTypeOK
<1>8. InOrder'
  BY DEF GtTakeId, InOrder
<1> QED
  BY <1>3, <1>5, <1>6, <1>7, <1>8, ToldFitsNext

(* A user closes a stream. *)
LEMMA CloseStep ==
  ASSUME GtIInv, NEW u \in GtUids, NEW s \in GtInner, GtClose(u, s)
  PROVE  GtIInv'
<1> USE DEF GtIInv, GatesRight
<1>1. GtTypeOK'
  <2>1. gt_streams' \in [GtUids -> 0 .. GtIds - 1]
    BY GatesAssumption, SMTT(30) DEF GtClose, GtTypeOK
  <2>2. gt_splitters' \in [GtUids -> SUBSET GtInner] /\ gt_told' \in [GtUids -> Nat]
    BY DEF GtClose, GtTypeOK
  <2> QED
    BY <2>1, <2>2 DEF GtClose, GtTypeOK
<1>2. Grown(gt_made, gt_made') /\ Grown(gt_opened, gt_opened') /\ Grown(gt_sent, gt_sent')
  BY DEF GtClose, Grown
<1>3. EachReachesItsOwn'
  BY <1>2, ReceivedStays DEF GtClose, GtTypeOK
<1>4. IdsOwned'
  <2>1. \A v, id : Owned(v, id) => Owned(v, id)'
    BY <1>2, OwnedStays
  <2>2. ASSUME NEW v \in GtUids, gt_streams'[v] # 0 PROVE Owned(v, gt_streams[v])'
    <3>1. gt_streams'[v] = gt_streams[v]
      BY <2>2 DEF GtClose, GtTypeOK
    <3>2. Owned(v, gt_streams'[v])
      BY <2>2, <3>1 DEF IdsOwned
    <3> QED
      BY <2>1, <3>2 DEF Owned
  <2> QED
    BY <1>2, <2>2, IdsStay DEF GtClose, IdsOwned
<1>5. SplitterHasStream' /\ Told'
  BY ToldFits DEF GtClose, SplitterHasStream, Told, GtTypeOK
<1>6. InOrder'
  BY DEF GtClose, InOrder
<1> QED
  BY <1>1, <1>3, <1>4, <1>5, <1>6, ToldFitsNext

(* A user writes. *)
LEMMA WriteStep ==
  ASSUME GtIInv, NEW u \in GtUids, GtWrite(u)
  PROVE  GtIInv'
<1> USE DEF GtIInv, GatesRight
<1> DEFINE packet == [uid |-> u, id |-> gt_streams[u]]
<1>1. packet \in [uid : GtUids, id : 0 .. GtIds - 1]
  BY DEF GtTypeOK
<1>2. GtTypeOK'
  BY <1>1 DEF GtWrite, GtTypeOK
<1>3. Grown(gt_made, gt_made') /\ Grown(gt_opened, gt_opened') /\ Grown(gt_sent, gt_sent')
  BY DEF GtWrite, Grown
<1>4. EachReachesItsOwn'
  BY <1>3, ReceivedStays DEF GtWrite, GtTypeOK
<1>5. IdsOwned'
  <2>1. \A v, id : Owned(v, id) => Owned(v, id)'
    BY <1>3, OwnedStays
  <2>2. Owned(u, gt_streams[u])
    BY DEF GtWrite, SplitterHasStream, IdsOwned
  <2>3. ASSUME NEW i \in DOMAIN gt_up' PROVE Owned(gt_up[i].uid, gt_up[i].id)'
    <3>2. gt_up \in Seq([uid : GtUids, id : 0 .. GtIds - 1]) /\ gt_up' = Append(gt_up, packet)
      BY DEF GtWrite, GtTypeOK
    <3> HIDE DEF packet
    <3>3. (i \in DOMAIN gt_up /\ gt_up'[i] = gt_up[i]) \/ gt_up'[i] = packet
      BY <1>1, <2>3, <3>2, AppendAt
    <3>4. Owned(gt_up'[i].uid, gt_up'[i].id)
      BY <2>2, <3>3 DEF IdsOwned, packet
    <3> QED
      BY <2>1, <3>4 DEF Owned
  <2> QED
    BY <1>3, <2>3, IdsStay DEF GtWrite, IdsOwned
<1>6. SplitterHasStream' /\ Told'
  BY ToldFits DEF GtWrite, SplitterHasStream, Told, GtTypeOK
<1>7. InOrder'
  BY DEF GtWrite, InOrder
<1> QED
  BY <1>2, <1>4, <1>5, <1>6, <1>7, ToldFitsNext

(* The server takes the id a write tells it. *)
LEMMA ServerReadsStep == GtIInv /\ GtServerReads => GtIInv'
<1> SUFFICES ASSUME GtIInv, GtServerReads PROVE GtIInv'
  OBVIOUS
<1> USE DEF GtIInv, GatesRight
<1> DEFINE packet == Head(gt_up)
<1>1. Len(gt_up) \in Nat /\ DOMAIN gt_up = 1 .. Len(gt_up) /\ gt_up # <<>>
  BY Lengths DEF GtServerReads
<1>2. /\ 1 \in DOMAIN gt_up /\ packet = gt_up[1]
      /\ packet \in [uid : GtUids, id : 0 .. GtIds - 1]
      /\ DOMAIN Tail(gt_up) = 1 .. Len(gt_up) - 1
      /\ \A i \in DOMAIN Tail(gt_up) : i + 1 \in DOMAIN gt_up /\ Tail(gt_up)[i] = gt_up[i + 1]
      /\ Tail(gt_up) \in Seq([uid : GtUids, id : 0 .. GtIds - 1])
  BY <1>1, TailAt DEF GtTypeOK
<1>3. GtTypeOK'
  <2>1. gt_server' \in [GtUids -> 0 .. GtIds - 1]
    BY <1>2 DEF GtServerReads, GtTypeOK
  <2> QED
    BY <1>2, <2>1 DEF GtServerReads, GtTypeOK
<1>4. Grown(gt_made, gt_made') /\ Grown(gt_opened, gt_opened') /\ Grown(gt_sent, gt_sent')
  BY DEF GtServerReads, Grown
<1>5. EachReachesItsOwn'
  <2>1. /\ gt_got' = gt_got /\ Len(gt_made) <= Len(gt_made')
        /\ gt_made' \in Seq(GtUids \cup {Elsewhere})
        /\ Len(gt_opened) <= Len(gt_opened') /\ gt_opened' \in Seq(GtUids)
    BY DEF GtServerReads, GtTypeOK
  <2> QED
    BY <1>4, <2>1, ReceivedStays
<1>6. IdsOwned'
  <2>1. \A v, id : Owned(v, id) => Owned(v, id)'
    BY <1>4, OwnedStays
  <2>2. ASSUME NEW v \in GtUids, gt_server'[v] # 0 PROVE Owned(v, gt_server[v])'
    <3>1. \/ gt_server'[v] = gt_server[v]
          \/ v = packet.uid /\ gt_server'[v] = packet.id
      BY <1>2 DEF GtServerReads, GtTypeOK
    <3>2. Owned(v, gt_server'[v])
      BY <1>2, <2>2, <3>1 DEF IdsOwned
    <3> QED
      BY <2>1, <3>2 DEF Owned
  <2>3. ASSUME NEW i \in DOMAIN gt_up' PROVE Owned(gt_up[i].uid, gt_up[i].id)'
    <3>1. Owned(gt_up'[i].uid, gt_up'[i].id)
      BY <1>2, <2>3 DEF GtServerReads, IdsOwned
    <3> QED
      BY <2>1, <3>1 DEF Owned
  <2> QED
    BY <1>4, <2>2, <2>3, IdsStay DEF GtServerReads, IdsOwned
<1>7. SplitterHasStream' /\ Told'
  BY ToldFits DEF GtServerReads, SplitterHasStream, Told, GtTypeOK
<1>8. InOrder'
  BY DEF GtServerReads, InOrder
<1> QED
  BY <1>3, <1>5, <1>6, <1>7, <1>8, ToldFitsNext
(* The server sends a message over its id for the client, or a new one. *)
LEMMA ServerSendsStep ==
  ASSUME GtIInv, NEW u \in GtUids, NEW s \in GtInner, GtServerSends(u, s)
  PROVE  GtIInv'
<1> USE DEF GtIInv, GatesRight
<1> DEFINE message == [uid |-> u, inner |-> s, data |-> Len(gt_sent) + 1]
           packet == [message |-> message, id |-> gt_server'[u]]
           Packets == [message : [uid : GtUids, inner : GtInner, data : Nat], id : 0 .. GtIds - 1]
<1>1. \/ gt_opened' = gt_opened /\ gt_server' = gt_server /\ gt_server[u] # 0
      \/ gt_opened' = Append(gt_opened, u) /\ gt_server' = [gt_server EXCEPT ![u] = ServerId(Len(gt_opened'))]
  BY DEF GtServerSends
<1>2. gt_opened' \in Seq(GtUids) /\ Grown(gt_opened, gt_opened') /\ Len(gt_opened) <= Len(gt_opened')
  <2>1. CASE gt_opened' = gt_opened
    BY <2>1 DEF GtTypeOK, Grown
  <2>2. CASE gt_opened' = Append(gt_opened, u)
    BY <2>2, AppendGrows DEF GtTypeOK
  <2> QED
    BY <1>1, <2>1, <2>2
<1>3. gt_opened' = Append(gt_opened, u) => ServerId(Len(gt_opened')) \in 1 .. GtIds - 1
  BY AppendGrows, ServerIdType DEF GtTypeOK
<1>4. gt_server' \in [GtUids -> 0 .. GtIds - 1] /\ gt_server'[u] # 0
  <2>1. CASE gt_server' = gt_server /\ gt_server[u] # 0
    BY <2>1 DEF GtTypeOK
  <2>2. CASE /\ gt_server' = [gt_server EXCEPT ![u] = ServerId(Len(gt_opened'))]
             /\ gt_opened' = Append(gt_opened, u)
    BY <1>3, <2>2 DEF GtTypeOK
  <2> QED
    BY <1>1, <2>1, <2>2
<1>5. /\ Len(gt_sent) \in Nat /\ DOMAIN gt_sent = 1 .. Len(gt_sent)
      /\ Len(gt_down) \in Nat /\ DOMAIN gt_down = 1 .. Len(gt_down)
      /\ Len(gt_got) \in Nat
  BY Lengths
<1>6. message \in Messages /\ packet \in Packets /\ packet.message = message /\ packet.id = gt_server'[u]
      /\ message.uid = u
  BY <1>4, <1>5 DEF Messages
<1>7. /\ gt_sent \in Seq(Messages) /\ gt_sent' = Append(gt_sent, message)
      /\ gt_down \in Seq(Packets) /\ gt_down' = Append(gt_down, packet)
  BY DEF GtServerSends, GtTypeOK, Messages
<1> HIDE DEF message, packet
<1>8. /\ gt_sent' \in Seq(Messages) /\ Len(gt_sent') = Len(gt_sent) + 1 /\ Grown(gt_sent, gt_sent')
      /\ gt_sent'[Len(gt_sent) + 1] = message
      /\ gt_down' \in Seq(Packets) /\ Len(gt_down') = Len(gt_down) + 1
      /\ \A i \in DOMAIN gt_down' : \/ i \in DOMAIN gt_down /\ gt_down'[i] = gt_down[i]
                                    \/ i = Len(gt_down) + 1 /\ gt_down'[i] = packet
  BY <1>6, <1>7, AppendAt, AppendGrows, SMTT(30)
<1>9. GtTypeOK'
  BY <1>2, <1>4, <1>8 DEF GtServerSends, GtTypeOK, Messages
<1>10. Grown(gt_made, gt_made')
  BY DEF GtServerSends, Grown
<1>11. EachReachesItsOwn'
  <2>1. /\ gt_got' = gt_got /\ Len(gt_made) <= Len(gt_made')
        /\ gt_made' \in Seq(GtUids \cup {Elsewhere})
    BY DEF GtServerSends, GtTypeOK
  <2>2. Grown(gt_sent, gt_sent')
    BY <1>8
  <2> QED
    BY <1>2, <2>1, <2>2, ReceivedStays
<1>12. IdsOwned'
  <2>1. \A v, id : Owned(v, id) => Owned(v, id)'
    BY <1>2, <1>10, OwnedStays
  <2>2. Owned(u, gt_server[u])'
    <3>1. CASE gt_server' = gt_server /\ gt_server[u] # 0
      <4>1. Owned(u, gt_server[u])
        BY <3>1 DEF IdsOwned
      <4> QED
        BY <2>1, <3>1, <4>1 DEF Owned
    <3>2. CASE /\ gt_server' = [gt_server EXCEPT ![u] = ServerId(Len(gt_opened'))]
               /\ gt_opened' = Append(gt_opened, u)
      <4>1. Owned(u, ServerId(Len(gt_opened)))'
        BY <3>2, OwnedNew
      <4>2. gt_server'[u] = ServerId(Len(gt_opened'))
        BY <3>2 DEF GtTypeOK
      <4> QED
        BY <4>1, <4>2 DEF Owned, ServerId
    <3> QED
      BY <1>1, <3>1, <3>2
  <2>3. ASSUME NEW v \in GtUids, gt_server'[v] # 0 PROVE Owned(v, gt_server[v])'
    <3>1. CASE v = u
      BY <2>2, <3>1
    <3>2. CASE v # u
      <4>1. gt_server'[v] = gt_server[v]
        BY <1>1, <3>2 DEF GtTypeOK
      <4>2. Owned(v, gt_server'[v])
        BY <2>3, <4>1 DEF IdsOwned
      <4> QED
        BY <2>1, <4>2 DEF Owned
    <3> QED
      BY <3>1, <3>2
  <2>4. ASSUME NEW i \in DOMAIN gt_down' PROVE Owned(gt_down[i].message.uid, gt_down[i].id)'
    <3>1. CASE i \in DOMAIN gt_down /\ gt_down'[i] = gt_down[i]
      <4>1. PICK v, id : v = gt_down'[i].message.uid /\ id = gt_down'[i].id
        OBVIOUS
      <4>2. Owned(v, id)
        BY <3>1, <4>1 DEF IdsOwned
      <4>3. Owned(v, id)'
        BY <2>1, <4>2
      <4> QED
        BY <4>1, <4>3 DEF Owned
    <3>2. CASE gt_down'[i] = packet
      <4>1. gt_down'[i].message.uid = u /\ gt_down'[i].id = gt_server'[u]
        BY <1>6, <3>2
      <4> QED
        BY <2>2, <4>1 DEF Owned
    <3> QED
      BY <1>8, <3>1, <3>2
  <2> QED
    BY <1>2, <1>10, <2>3, <2>4, IdsStay DEF GtServerSends, IdsOwned
<1>13. SplitterHasStream' /\ Told'
  BY ToldFits DEF GtServerSends, SplitterHasStream, Told
<1>14. InOrder'
  <2>1. gt_got' = gt_got
    BY DEF GtServerSends
  <2>2. Len(gt_got') + Len(gt_down') = Len(gt_sent')
    BY <1>5, <1>8, <2>1 DEF InOrder
  <2>3. ASSUME NEW i \in DOMAIN gt_down' PROVE gt_down'[i].message = gt_sent'[Len(gt_got') + i]
    <3>1. CASE i \in DOMAIN gt_down /\ gt_down'[i] = gt_down[i]
      <4>1. Len(gt_got) + i \in 1 .. Len(gt_sent)
        BY <1>5, <3>1 DEF InOrder
      <4>2. gt_down'[i].message = gt_sent[Len(gt_got) + i]
        BY <3>1 DEF InOrder
      <4>3. Grown(gt_sent, gt_sent')
        BY <1>8
      <4>4. gt_sent'[Len(gt_got) + i] = gt_sent[Len(gt_got) + i]
        BY <4>1, <4>3 DEF Grown
      <4> QED
        BY <2>1, <4>2, <4>4
    <3>2. CASE i = Len(gt_down) + 1 /\ gt_down'[i] = packet
      <4>1. Len(gt_got') + i = Len(gt_sent) + 1
        <5>1. Len(gt_got) + Len(gt_down) = Len(gt_sent)
          BY DEF InOrder
        <5>2. Len(gt_got') = Len(gt_got) /\ i = Len(gt_down) + 1
          BY <2>1, <3>2
        <5>3. Len(gt_got) \in Nat /\ Len(gt_down) \in Nat /\ Len(gt_sent) \in Nat
          BY <1>5
        <5> QED
          BY <5>1, <5>2, <5>3
      <4> QED
        BY <1>6, <1>8, <3>2, <4>1
    <3> QED
      BY <1>8, <3>1, <3>2
  <2> QED
    BY <2>1, <2>2, <2>3 DEF InOrder
<1> QED
  BY <1>9, <1>11, <1>12, <1>13, <1>14, ToldFitsNext

(* A stream that is known gets a message from its gate, another one from   *)
(* OnStream, which comes too late for its gate: once either way.           *)
LEMMA TimesOnce == \A before, after, s : TimesEmitted(before, after, s) = 1
  BY DEF TimesEmitted, InvokeList

(* A packet is received: it finds the stream of its client and no other,   *)
(* because until the ids wrap no other client's stream has its id.         *)
LEMMA ReceiveStep == GtIInv /\ GtReceive => GtIInv'
<1> SUFFICES ASSUME GtIInv, GtReceive PROVE GtIInv'
  OBVIOUS
<1> USE DEF GtIInv, GatesRight
<1> DEFINE packet == Head(gt_down)
           w == packet.message.uid
           s == packet.message.inner
           reached == Addressed(gt_streams', packet.id)
           entry == [message |-> packet.message, reached |-> reached,
                     times |-> {TimesEmitted(gt_splitters[v], gt_splitters'[v], s) : v \in reached}]
           Entries == [message : Messages, reached : SUBSET GtUids, times : SUBSET Nat]
           Packets == [message : [uid : GtUids, inner : GtInner, data : Nat], id : 0 .. GtIds - 1]
<1>1. /\ gt_down \in Seq(Packets) /\ gt_down # <<>> /\ gt_down' = Tail(gt_down)
      /\ gt_streams' = [gt_streams EXCEPT ![w] = packet.id]
      /\ gt_splitters' = [v \in GtUids |-> gt_splitters[v] \cup (IF v \in reached THEN {s} ELSE {})]
      /\ gt_got' = Append(gt_got, entry)
      /\ gt_told' = ToldAll(gt_splitters', gt_max)
      /\ UNCHANGED <<gt_made, gt_max, gt_up, gt_server, gt_opened, gt_sent>>
  BY DEF GtReceive, GtTypeOK, IdsAfter
<1>2. /\ 1 \in DOMAIN gt_down /\ packet = gt_down[1] /\ packet \in Packets
      /\ gt_down' \in Seq(Packets) /\ Len(gt_down') = Len(gt_down) - 1
      /\ DOMAIN gt_down' = 1 .. Len(gt_down) - 1
      /\ \A i \in DOMAIN gt_down' : i + 1 \in DOMAIN gt_down /\ gt_down'[i] = gt_down[i + 1]
  BY <1>1, TailAt
<1>3. /\ w \in GtUids /\ s \in GtInner /\ packet.message \in Messages /\ packet.id \in 0 .. GtIds - 1
      /\ Owned(w, packet.id)
  BY <1>2 DEF IdsOwned, Messages
<1>4. packet.id \in 1 .. GtIds - 1 /\ \A v \in GtUids : ~ Wrapped /\ Owned(v, packet.id) => v = w
  BY <1>3, OwnedIds
<1>5. entry \in Entries /\ entry.message = packet.message /\ entry.reached = reached
      /\ entry.times = {TimesEmitted(gt_splitters[v], gt_splitters'[v], s) : v \in reached}
  <2>1. reached \in SUBSET GtUids
    BY DEF Addressed
  <2>2. {TimesEmitted(gt_splitters[v], gt_splitters'[v], s) : v \in reached} \in SUBSET Nat
    <3> HIDE DEF reached, s
    <3> QED
      BY TimesOnce
  <2> QED
    BY <1>3, <2>1, <2>2
<1>6. w \in reached /\ \A v \in GtUids : v \in reached <=> gt_streams'[v] = packet.id
  BY <1>1, <1>3 DEF Addressed, GtTypeOK
<1>7. \A v \in GtUids : v # w => gt_streams'[v] = gt_streams[v]
  BY <1>1, <1>3 DEF GtTypeOK
<1>8. entry.times = {1}
  <2> DEFINE Times(v) == TimesEmitted(gt_splitters[v], gt_splitters'[v], s)
  <2>1. \A v : Times(v) = 1
    BY TimesOnce
  <2>2. entry.times = {Times(v) : v \in reached}
    BY <1>5
  <2> HIDE DEF Times, reached, entry
  <2>3. {Times(v) : v \in reached} = {1}
    BY <1>6, <2>1
  <2> QED
    BY <2>2, <2>3
<1>9. ~ Wrapped => reached = {w}
  <2> SUFFICES ASSUME ~ Wrapped, NEW v \in reached PROVE v = w
    BY <1>6
  <2>1. v \in GtUids /\ gt_streams'[v] = packet.id
    BY DEF Addressed
  <2>2. CASE v # w
    BY <1>4, <1>7, <2>1, <2>2 DEF IdsOwned
  <2> QED
    BY <2>2
<1> HIDE DEF packet, reached, entry
<1>10. gt_streams' \in [GtUids -> 0 .. GtIds - 1] /\ gt_streams'[w] = packet.id
  BY <1>1, <1>3 DEF GtTypeOK
<1>11. /\ gt_got \in Seq(Entries) /\ gt_got' \in Seq(Entries) /\ Len(gt_got') = Len(gt_got) + 1
       /\ \A i \in DOMAIN gt_got' : \/ i \in DOMAIN gt_got /\ gt_got'[i] = gt_got[i]
                                    \/ i = Len(gt_got) + 1 /\ gt_got'[i] = entry
  <2>1. gt_got \in Seq(Entries)
    BY DEF InOrder
  <2>2. entry \in Entries /\ gt_got' = Append(gt_got, entry)
    BY <1>1, <1>5
  <2> HIDE DEF Entries
  <2> QED
    BY <2>1, <2>2, AppendAt
<1>12. /\ Len(gt_sent) \in Nat /\ DOMAIN gt_sent = 1 .. Len(gt_sent)
       /\ Len(gt_down) \in Nat /\ DOMAIN gt_down = 1 .. Len(gt_down)
       /\ Len(gt_got) \in Nat /\ DOMAIN gt_got = 1 .. Len(gt_got)
  BY Lengths
<1>13. packet.message = gt_sent[Len(gt_got) + 1]
  BY <1>2 DEF InOrder
<1>14. GtTypeOK'
  <2>1. gt_splitters' \in [GtUids -> SUBSET GtInner]
    BY <1>1, <1>3 DEF GtTypeOK
  <2>2. gt_told' \in [GtUids -> Nat]
    BY <1>1, UserInfoType DEF ToldAll, GtTypeOK
  <2> QED
    BY <1>1, <1>2, <1>10, <2>1, <2>2 DEF GtTypeOK
<1>15. EachReachesItsOwn'
  <2> SUFFICES ASSUME ~ Wrapped', NEW i \in DOMAIN gt_got'
               PROVE  /\ gt_got'[i].message = gt_sent[i] /\ gt_got'[i].times = {1}
                      /\ gt_got'[i].reached = {gt_sent[i].uid}
    BY <1>1 DEF EachReachesItsOwn
  <2>1. ~ Wrapped
    BY <1>1 DEF Wrapped
  <2>2. CASE i \in DOMAIN gt_got /\ gt_got'[i] = gt_got[i]
    BY <2>1, <2>2 DEF EachReachesItsOwn
  <2>3. CASE i = Len(gt_got) + 1 /\ gt_got'[i] = entry
    BY <1>5, <1>8, <1>9, <1>13, <2>1, <2>3
  <2> QED
    BY <1>11, <2>2, <2>3
<1>16. Grown(gt_made, gt_made') /\ Grown(gt_opened, gt_opened')
  BY <1>1 DEF Grown
<1>17. \A v, id : Owned(v, id) => Owned(v, id)'
  BY <1>16, OwnedStays
<1>18. IdsOwned'
  <2>1. ASSUME NEW v \in GtUids, gt_streams'[v] # 0 PROVE Owned(v, gt_streams[v])'
    <3>1. Owned(v, gt_streams'[v])
      BY <1>3, <1>7, <1>10, <2>1 DEF IdsOwned
    <3> QED
      BY <1>17, <3>1 DEF Owned
  <2>2. ASSUME NEW i \in DOMAIN gt_down' PROVE Owned(gt_down[i].message.uid, gt_down[i].id)'
    <3>1. PICK v, id : v = gt_down'[i].message.uid /\ id = gt_down'[i].id
      OBVIOUS
    <3>2. Owned(v, id)
      BY <1>2, <2>2, <3>1 DEF IdsOwned
    <3>3. Owned(v, id)'
      BY <1>17, <3>2
    <3> QED
      BY <3>1, <3>3 DEF Owned
  <2> QED
    BY <1>1, <1>16, <2>1, <2>2, IdsStay DEF IdsOwned
<1>19. SplitterHasStream'
  <2> SUFFICES ASSUME NEW v \in GtUids, gt_splitters'[v] # {} PROVE gt_streams'[v] # 0
    BY DEF SplitterHasStream
  <2>1. packet.id # 0
    BY <1>4
  <2>2. CASE v \in reached
    BY <1>6, <2>1, <2>2
  <2>3. CASE v \notin reached
    <3>1. gt_splitters'[v] = gt_splitters[v] /\ v # w
      BY <1>1, <1>6, <2>3
    <3> QED
      BY <1>7, <3>1 DEF SplitterHasStream
  <2> QED
    BY <2>2, <2>3
<1>20. Told'
  BY <1>1 DEF Told, ToldAll
<1>21. InOrder'
  <2>1. Len(gt_got') + Len(gt_down') = Len(gt_sent')
    BY <1>1, <1>2, <1>11, <1>12, SMTT(30) DEF InOrder
  <2>2. ASSUME NEW i \in DOMAIN gt_down' PROVE gt_down'[i].message = gt_sent'[Len(gt_got') + i]
    <3>1. Len(gt_got') + i = Len(gt_got) + (i + 1)
      BY <1>2, <1>11, <1>12, <2>2
    <3> QED
      BY <1>1, <1>2, <2>2, <3>1 DEF InOrder
  <2> QED
    BY <1>11, <2>1, <2>2 DEF InOrder
<1> QED
  BY <1>14, <1>15, <1>18, <1>19, <1>20, <1>21, ToldFitsNext
(* An order of a finite set is a sequence of it, and names every element.  *)
LEMMA OrderOfAll ==
  ASSUME NEW S, IsFiniteSet(S), NEW order \in Orders(S)
  PROVE  order \in Seq(S) /\ \A e \in S : \E i \in 1 .. Len(order) : order[i] = e
<1> DEFINE n == Cardinality(S)
<1>1. n \in Nat
  BY FS_CardinalityType
<1>2. order \in [1 .. n -> S] /\ \A i, j \in 1 .. n : i # j => order[i] # order[j]
  BY DEF Orders
<1>3. order \in Seq(S) /\ Len(order) = n
  BY <1>1, <1>2
<1>4. ASSUME NEW e \in S, \A i \in 1 .. n : order[i] # e PROVE FALSE
  <2>1. IsFiniteSet(S \ {e}) /\ Cardinality(S \ {e}) = n - 1
    BY FS_RemoveElement
  <2>2. IsFiniteSet(1 .. n) /\ Cardinality(1 .. n) = n
    <3>1. IsFiniteSet(1 .. n) /\ Cardinality(1 .. n) = IF 1 > n THEN 0 ELSE n - 1 + 1
      BY <1>1, FS_Interval
    <3> QED
      BY <1>1, <3>1
  <2>3. order \in [1 .. n -> S \ {e}]
    BY <1>2, <1>4
  <2>4. \E x, y \in 1 .. n : x # y /\ order[x] = order[y]
    BY <1>1, <2>1, <2>2, <2>3, FS_PigeonHole
  <2> QED
    BY <1>2, <2>4
<1> QED
  BY <1>3, <1>4

(* Another server: every message stream gets an id of its own again, and   *)
(* nothing of the old connection is left.                                  *)
LEMMA ReconnectStep == GtIInv /\ GtReconnect => GtIInv'
<1> SUFFICES ASSUME GtIInv, GtReconnect PROVE GtIInv'
  OBVIOUS
<1> USE DEF GtIInv, GatesRight
<1> DEFINE known == {u \in GtUids : gt_splitters[u] # {}}
           Index(u, order) == CHOOSE i \in DOMAIN order : order[i] = u
           taken == Append(gt_made, Elsewhere)
<1>1. PICK order \in Orders(known) :
        /\ gt_made' = taken \o order
        /\ gt_streams' = [u \in GtUids |-> IF u \in known THEN ClientId(Len(taken) + Index(u, order)) ELSE 0]
  BY DEF GtReconnect
<1>2. /\ gt_max' = 0 /\ gt_told' = ToldAll(gt_splitters, 0) /\ gt_splitters' = gt_splitters
      /\ gt_up' = <<>> /\ gt_down' = <<>> /\ gt_server' = NoIds
      /\ gt_opened' = <<>> /\ gt_sent' = <<>> /\ gt_got' = <<>>
  BY DEF GtReconnect
<1>3. order \in Seq(known) /\ \A u \in known : \E i \in 1 .. Len(order) : order[i] = u
  <2>1. IsFiniteSet(known)
    BY GatesAssumption, FS_Subset
  <2> HIDE DEF known
  <2> QED
    BY <2>1, OrderOfAll
<1> HIDE DEF known
<1>4. known \subseteq GtUids
  BY DEF known
<1>5. \A u \in known : Index(u, order) \in 1 .. Len(order) /\ order[Index(u, order)] = u
  BY <1>3
<1> HIDE DEF Index
<1>6. /\ Len(taken) \in Nat /\ Len(order) \in Nat /\ gt_made' \in Seq(GtUids \cup {Elsewhere})
      /\ Len(gt_made') = Len(taken) + Len(order)
      /\ \A i \in 1 .. Len(order) : gt_made'[Len(taken) + i] = order[i]
  <2>1. taken \in Seq(GtUids \cup {Elsewhere}) /\ order \in Seq(GtUids \cup {Elsewhere})
    BY <1>3, <1>4 DEF GtTypeOK
  <2> QED
    BY <1>1, <2>1
<1> HIDE DEF taken
<1>7. \A u \in known :
        /\ Len(taken) + Index(u, order) \in 1 .. Len(gt_made')
        /\ gt_made'[Len(taken) + Index(u, order)] = u
        /\ gt_streams'[u] = ClientId(Len(taken) + Index(u, order))
        /\ gt_streams'[u] \in 1 .. GtIds - 1
  <2> SUFFICES ASSUME NEW u \in known
               PROVE  /\ Len(taken) + Index(u, order) \in 1 .. Len(gt_made')
                      /\ gt_made'[Len(taken) + Index(u, order)] = u
                      /\ gt_streams'[u] = ClientId(Len(taken) + Index(u, order))
                      /\ gt_streams'[u] \in 1 .. GtIds - 1
    OBVIOUS
  <2>1. Len(taken) + Index(u, order) \in 1 .. Len(gt_made')
    BY <1>5, <1>6
  <2>2. gt_made'[Len(taken) + Index(u, order)] = u
    BY <1>5, <1>6
  <2>3. gt_streams'[u] = ClientId(Len(taken) + Index(u, order))
    BY <1>1, <1>4
  <2>4. ClientId(Len(taken) + Index(u, order)) \in 1 .. GtIds - 1
    BY <1>6, <2>1, ClientIdType
  <2> QED
    BY <2>1, <2>2, <2>3, <2>4
<1>8. \A u \in GtUids : u \notin known => gt_streams'[u] = 0
  BY <1>1
<1>9. GtTypeOK'
  <2>1. gt_streams' \in [GtUids -> 0 .. GtIds - 1]
    <3>1. \A u \in GtUids : gt_streams'[u] \in 0 .. GtIds - 1
      BY <1>7, <1>8, GatesAssumption
    <3> QED
      BY <1>1, <3>1
  <2>2. gt_told' \in [GtUids -> Nat]
    BY <1>2, UserInfoType DEF ToldAll
  <2>3. gt_server' \in [GtUids -> 0 .. GtIds - 1]
    BY <1>2, GatesAssumption DEF NoIds
  <2> QED
    BY <1>2, <1>6, <2>1, <2>2, <2>3, SMTT(30) DEF GtTypeOK
<1>10. EachReachesItsOwn' /\ InOrder'
  BY <1>2 DEF EachReachesItsOwn, InOrder
<1>11. IdsOwned'
  <2>1. ASSUME NEW u \in GtUids, gt_streams'[u] # 0 PROVE Owned(u, gt_streams[u])'
    <3>1. u \in known
      BY <1>8, <2>1
    <3>2. PICK k \in 1 .. Len(gt_made') : gt_made'[k] = u /\ gt_streams'[u] = ClientId(k)
      BY <1>7, <3>1
    <3>3. GivenTo(gt_made', gt_opened', u, gt_streams'[u])
      BY <3>2 DEF GivenTo
    <3> QED
      BY <3>3 DEF Owned
  <2>2. \A u \in GtUids : gt_server'[u] = 0
    BY <1>2 DEF NoIds
  <2>3. DOMAIN gt_up' = {} /\ DOMAIN gt_down' = {}
    BY <1>2
  <2>4. /\ \A u \in GtUids : gt_streams'[u] # 0 => Owned(u, gt_streams[u])'
        /\ \A u \in GtUids : gt_server'[u] # 0 => Owned(u, gt_server[u])'
        /\ \A i \in DOMAIN gt_up' : Owned(gt_up[i].uid, gt_up[i].id)'
        /\ \A i \in DOMAIN gt_down' : Owned(gt_down[i].message.uid, gt_down[i].id)'
    BY <2>1, <2>2, <2>3, Zenon
  <2> QED
    BY <2>4 DEF IdsOwned
<1>12. SplitterHasStream'
  <2> SUFFICES ASSUME NEW u \in GtUids, gt_splitters'[u] # {} PROVE gt_streams'[u] # 0
    BY DEF SplitterHasStream
  <2>1. u \in known
    BY <1>2 DEF known
  <2>2. gt_streams'[u] \in 1 .. GtIds - 1
    BY <1>7, <2>1
  <2> QED
    BY <2>2
<1>13. Told'
  BY <1>2 DEF Told, ToldAll
<1> QED
  BY <1>9, <1>10, <1>11, <1>12, <1>13, ToldFitsNext

(* A step that changes nothing. *)
LEMMA GtStutter == GtIInv /\ UNCHANGED gtVars => GtIInv'
<1> SUFFICES ASSUME GtIInv, UNCHANGED gtVars PROVE GtIInv'
  OBVIOUS
<1> USE DEF GtIInv, GatesRight, gtVars
<1>1. GtTypeOK' /\ InOrder' /\ SplitterHasStream'
  BY DEF GtTypeOK, InOrder, SplitterHasStream
<1>2. Grown(gt_made, gt_made') /\ Grown(gt_opened, gt_opened') /\ Grown(gt_sent, gt_sent')
  BY DEF Grown
<1>3. EachReachesItsOwn'
  BY <1>2, ReceivedStays DEF GtTypeOK
<1>4. IdsOwned'
  BY <1>2, IdsStay DEF IdsOwned
<1>5. Told'
  BY ToldFits DEF Told
<1> QED
  BY <1>1, <1>3, <1>4, <1>5, ToldFitsNext

(* However many clients, ids, streams and packets there are: a message of  *)
(* another client reaches that client's stream, once, in order and nobody  *)
(* else's, whichever end gave out the id and whenever it changed, until    *)
(* the ids wrap; and every user knows the size there is, which fits.       *)
THEOREM GatesCorrect == GtSpec => []GatesRight
<1>1. GtIInv /\ [GtNext]_gtVars => GtIInv'
  BY ConnectedStep, CreateStep, CloseStep, WriteStep, ServerReadsStep, ServerSendsStep,
     ReceiveStep, ReconnectStep, TakeIdStep, GtStutter
  DEF GtNext
<1>2. GtIInv => GatesRight
  BY DEF GtIInv
<1> QED
  BY GtInitInv, <1>1, <1>2, PTL DEF GtSpec
=============================================================================
