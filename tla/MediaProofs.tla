---------------------------- MODULE MediaProofs ----------------------------
(***************************************************************************)
(* Proofs about the files of the WeChat gateway (Media).  Whatever its     *)
(* length and its bytes, a file that was padded and encrypted with a key   *)
(* decrypts to itself with that key, and its ciphertext is of whole        *)
(* blocks.  For any messages, files and replies, the files an entry names  *)
(* are its own message's, and what the platform is sent opens.             *)
(***************************************************************************)
EXTENDS Media, SequenceTheorems, FiniteSetTheorems, WellFoundedInduction, TLAPS

\* A padding has one byte at least, and a block at most.
LEMMA PadLenBounds ==
    ASSUME NEW d, Len(d) \in Nat
    PROVE  PadLen(d) \in 1..Block /\ PadLen(d) \in Nat
  BY BlockAssumption, SMT DEF PadLen

\* What Pad appends: its length, and its bytes.
LEMMA PadShape ==
    ASSUME NEW S, 1..Block \subseteq S, NEW d \in Seq(S)
    PROVE  /\ Pad(d) \in Seq(S)
           /\ Len(Pad(d)) = Len(d) + PadLen(d)
           /\ \A i \in 1..Len(d) : Pad(d)[i] = d[i]
           /\ Pad(d)[Len(Pad(d))] = PadLen(d)
<1> DEFINE p == [i \in 1..PadLen(d) |-> PadLen(d)]
<1>1. PadLen(d) \in 1..Block /\ PadLen(d) \in Nat
  BY PadLenBounds, LenProperties
<1>2. p \in Seq(S)
  <2>1. p \in [1..PadLen(d) -> S]
    BY <1>1
  <2>2. QED
    BY <1>1, <2>1, SeqDef
<1>3. Len(p) = PadLen(d) /\ p[PadLen(d)] = PadLen(d)
  <2>1. DOMAIN p = 1..Len(p) /\ Len(p) \in Nat
    BY <1>2, LenProperties
  <2>2. DOMAIN p = 1..PadLen(d)
    OBVIOUS
  <2>3. QED
    BY <1>1, <2>1, <2>2
<1>4. Pad(d) = d \o p
  BY DEF Pad
<1>5. Len(d) \in Nat
  BY LenProperties
<1>6. /\ d \o p \in Seq(S)
      /\ Len(d \o p) = Len(d) + PadLen(d)
      /\ \A i \in 1..(Len(d) + PadLen(d)) : (d \o p)[i] = IF i <= Len(d) THEN d[i] ELSE p[i - Len(d)]
  <2> HIDE DEF p
  <2>1. /\ d \o p \in Seq(S)
        /\ Len(d \o p) = Len(d) + Len(p)
        /\ \A i \in 1..(Len(d) + Len(p)) : (d \o p)[i] = IF i <= Len(d) THEN d[i] ELSE p[i - Len(d)]
    BY <1>2, ConcatProperties
  <2>2. QED
    BY <2>1, <1>3
<1>7. (d \o p)[Len(d) + PadLen(d)] = p[PadLen(d)]
  <2>1. /\ Len(d) + PadLen(d) \in 1..(Len(d) + PadLen(d))
        /\ ~(Len(d) + PadLen(d) <= Len(d))
        /\ (Len(d) + PadLen(d)) - Len(d) = PadLen(d)
    BY <1>1, <1>5
  <2>2. QED
    BY <1>6, <2>1
<1>8. \A i \in 1..Len(d) : (d \o p)[i] = d[i]
  BY <1>1, <1>5, <1>6
<1> HIDE DEF p
<1>9. QED
  BY <1>3, <1>4, <1>6, <1>7, <1>8

\* PKCS7 of media.rs: what decrypt takes off is what encrypt appended.
THEOREM PadRoundTrip ==
    ASSUME NEW S, 1..Block \subseteq S, NEW d \in Seq(S)
    PROVE  Unpad(Pad(d)) = d
<1> DEFINE s == Pad(d)
           n == PadLen(d)
<1>1. n \in 1..Block /\ n \in Nat /\ Len(d) \in Nat
  BY PadLenBounds, LenProperties
<1>2. /\ s \in Seq(S) /\ Len(s) = Len(d) + n /\ s[Len(s)] = n
      /\ \A i \in 1..Len(d) : s[i] = d[i]
  BY PadShape
<1> HIDE DEF s, n
<1>3. s # << >>
  BY <1>1, <1>2, EmptySeq
<1>4. Unpad(s) = SubSeq(s, 1, Len(d))
  BY <1>1, <1>2, <1>3, Len(s) - n = Len(d) DEF Unpad
<1>5. \A i \in 1..Len(d) : s[i] \in S /\ d[i] \in S
  BY <1>2, ElementOfSeq
<1>6. /\ SubSeq(s, 1, Len(d)) \in Seq(S)
      /\ Len(SubSeq(s, 1, Len(d))) = Len(d)
      /\ \A i \in 1..Len(d) : SubSeq(s, 1, Len(d))[i] = s[i]
  BY <1>1, <1>5, SubSeqProperties
<1>7. SubSeq(s, 1, Len(d)) = d
  BY <1>1, <1>2, <1>6, SeqEqual
<1>8. QED
  BY <1>4, <1>7 DEF s

\* Its ciphertext is of whole blocks, and longer than the file by one block at
\* most: mid_size and filesize.
THEOREM CiphertextSize ==
    ASSUME NEW S, 1..Block \subseteq S, NEW d \in Seq(S), NEW k
    PROVE  /\ Len(Encrypt(k, d).data) % Block = 0
           /\ Len(Encrypt(k, d).data) \in (Len(d) + 1)..(Len(d) + Block)
<1> DEFINE q == Len(d) \div Block
           r == Len(d) % Block
<1>1. Len(d) \in Nat /\ Block \in Nat /\ Block > 0
  BY LenProperties, BlockAssumption
<1>2. Len(Pad(d)) = Len(d) + PadLen(d) /\ PadLen(d) = Block - r /\ PadLen(d) \in 1..Block
  BY PadShape, PadLenBounds, <1>1 DEF PadLen
<1>3. Len(d) = Block * q + r /\ q \in Nat /\ r \in Nat
  BY <1>1
<1>4. Len(Pad(d)) = Block * (q + 1)
  BY <1>1, <1>2, <1>3
<1>5. (Block * (q + 1)) % Block = 0
  BY <1>1, <1>3
<1>6. QED
  BY <1>1, <1>2, <1>4, <1>5 DEF Encrypt

\* A file encrypted with a key opens with it.
THEOREM Opens ==
    ASSUME NEW S, 1..Block \subseteq S, NEW d \in Seq(S), NEW k
    PROVE  Decrypt(k, Encrypt(k, d)) = d
<1>1. Len(Pad(d)) % Block = 0
  BY CiphertextSize DEF Encrypt
<1>2. Blocks(Pad(d)) = Pad(d)
  BY <1>1 DEF Blocks
<1>3. QED
  BY <1>2, PadRoundTrip DEF Decrypt, Encrypt

----------------------------------------------------------------------------
(* The downloads of a message, in the order of its items.                  *)

LEMMA LeastNatural ==
    ASSUME NEW T \in SUBSET Nat, T # {}
    PROVE  \E n \in T : \A m \in T : n <= m
<1>1. PICK n \in T : \A m \in T : <<m, n>> \notin OpToRel(<, Nat)
  BY NatLessThanWellFounded, WFMin
<1>2. ASSUME NEW m \in T PROVE n <= m
  <2>1. <<m, n>> \in Nat \X Nat
    OBVIOUS
  <2>2. ~(m < n)
    BY <1>1, <2>1 DEF OpToRel
  <2>3. QED
    BY <2>2
<1>3. QED
  BY <1>2

\* A set of n numbers has a first, a second, ..., an n-th one.
LEMMA NthElement ==
    ASSUME NEW l \in Nat, NEW S \in SUBSET (1..l), NEW n \in 1..Cardinality(S)
    PROVE  \E i \in S : Cardinality({j \in S : j <= i}) = n
<1> DEFINE Below(k) == {j \in S : j <= k}
           T == {k \in Nat : n <= Cardinality(Below(k))}
<1>1. IsFiniteSet(S) /\ Cardinality(S) \in Nat
  <2>1. l \in Int /\ 1 \in Int
    OBVIOUS
  <2>2. IsFiniteSet(1..l)
    BY <2>1, FS_Interval
  <2>3. IsFiniteSet(S)
    BY <2>2, FS_Subset
  <2>4. QED
    BY <2>3, FS_CardinalityType
<1>0. \A j \in S : j \in Nat /\ 1 <= j /\ j <= l
  OBVIOUS
<1>2. ASSUME NEW k \in Nat PROVE IsFiniteSet(Below(k)) /\ Cardinality(Below(k)) \in Nat
  <2>1. Below(k) \in SUBSET S
    OBVIOUS
  <2>2. QED
    BY <1>1, <2>1, FS_Subset, FS_CardinalityType
<1>3. l \in T
  <2>1. Below(l) = S
    BY <1>0
  <2>2. QED
    BY <1>1, <2>1
<1>4. PICK i \in T : \A k \in T : i <= k
  <2>1. T \in SUBSET Nat /\ T # {}
    BY <1>3
  <2> HIDE DEF T
  <2>2. QED
    BY <2>1, LeastNatural
<1>5. i # 0
  <2>1. Below(0) = {}
    <3>1. \A j \in S : ~(j <= 0)
      BY <1>0
    <3>2. QED
      BY <3>1, Zenon
  <2>2. Cardinality(Below(0)) = 0
    BY <2>1, FS_EmptySet
  <2>3. QED
    BY <2>2
<1>6. i - 1 \in Nat /\ ~(n <= Cardinality(Below(i - 1)))
  <2>1. i \in Nat /\ i - 1 \in Nat /\ ~(i <= i - 1)
    BY <1>4, <1>5
  <2>2. i - 1 \notin T
    BY <1>4, <2>1
  <2>3. QED
    BY <2>1, <2>2
<1>7. n <= Cardinality(Below(i)) /\ i \in Nat
  BY <1>4
<1>8. i \in S
  <2>1. SUFFICES ASSUME i \notin S PROVE FALSE
    OBVIOUS
  <2>2. Below(i) = Below(i - 1)
    <3>1. \A j \in S : j <= i <=> j <= i - 1
      BY <1>0, <1>7, <2>1
    <3>2. QED
      BY <3>1, Zenon
  <2> HIDE DEF Below
  <2>3. QED
    BY <1>6, <1>7, <2>2
<1>9. Below(i) = Below(i - 1) \cup {i} /\ i \notin Below(i - 1)
  <2>1. \A j \in S : j <= i <=> (j <= i - 1 \/ j = i)
    BY <1>0, <1>7
  <2>2. ~(i <= i - 1)
    BY <1>7
  <2>3. QED
    BY <1>8, <2>1, <2>2, Zenon
<1> HIDE DEF Below
<1>10. Cardinality(Below(i)) = Cardinality(Below(i - 1)) + 1
  BY <1>2, <1>6, <1>9, FS_AddElement
<1>11. Cardinality(Below(i)) = n
  BY <1>2, <1>6, <1>7, <1>10
<1>12. QED
  BY <1>8, <1>11 DEF Below

----------------------------------------------------------------------------
(* The invariant.                                                          *)

\* What a download of an item of the message m, of a kind, leaves in a file: the
\* objects of the users stay as they are.
Own(m, kind, d) ==
    \E i \in DOMAIN m.items :
      /\ m.items[i].kind = kind /\ Downloadable(m.items[i])
      /\ d \in {Unpad(Blocks(Uploaded[m.items[i].ref].data)), Garbage}

\* What the file of a path holds.
Rightful(p, d) ==
    /\ d \in Seq(Byte)
    /\ IF p \in DOMAIN OwnFiles THEN d = OwnFiles[p]
       ELSE \E m \in Inbound : m.id = p[1] /\ Own(m, p[2], d)

CdnInv ==
    /\ DOMAIN cdn = Refs \cup DOMAIN Uploaded
    /\ \A r \in DOMAIN Uploaded : cdn[r] = Uploaded[r]

FilesInv ==
    /\ DOMAIN files = Paths
    /\ \A p \in Paths : files[p] # None => Rightful(p, files[p])

\* An entry names files of its own message.
EntryOK(e) ==
    /\ e = Entry(e.msg, e.media) /\ e.msg \in Inbound
    /\ \A n \in DOMAIN e.media : e.media[n].path # None =>
          /\ e.media[n].path = <<e.msg.id, e.media[n].kind>>
          /\ Own(e.msg, e.media[n].kind, files[<<e.msg.id, e.media[n].kind>>])

NowOK ==
    /\ now = [msg |-> now.msg, left |-> now.left, got |-> now.got]
    /\ now.msg \in Inbound
    /\ now.left \subseteq DOMAIN now.msg.items /\ now.got \subseteq DOMAIN now.msg.items
    /\ \A i \in now.left : Downloadable(now.msg.items[i])
    /\ \A i \in now.got :
          Own(now.msg, now.msg.items[i].kind, files[<<now.msg.id, now.msg.items[i].kind>>])
    /\ last # None => last.msg = now.msg

InboundInv ==
    /\ last # None => EntryOK(last)
    /\ held # None => EntryOK(held)
    /\ now # None => NowOK

Job == [paths: Seq(Paths), stage: {"read", "ask", "upload", "send", "sorry", "notes"},
        data: Seq(Byte) \cup {None}, key: Keys \cup {None}, url: Seq({"c2c"}) \cup {None},
        ref: Refs \cup {None}]

JobOK ==
    /\ job \in Job
    /\ job.stage # "notes" => job.paths # << >>
    /\ job.stage \in {"ask", "upload", "send"} => job.key \in Keys /\ Rightful(job.paths[1], job.data)
    /\ job.stage = "send" => job.ref \in Refs /\ cdn[job.ref] = Object

\* A message names an object that is at the CDN for good, and opens to what the
\* file held when it was read.
SentOK(m) ==
    /\ m.ref \in Refs /\ cdn[m.ref] # None
    /\ m.aes_key = Base64(cdn[m.ref].aeskey) /\ cdn[m.ref].aeskey = Hex(cdn[m.ref].key)
    /\ Rightful(m.path, Unpad(cdn[m.ref].data))
    /\ m.mid_size = Len(cdn[m.ref].data) /\ cdn[m.ref].filesize = Len(cdn[m.ref].data)
    /\ Len(cdn[m.ref].data) % Block = 0
    /\ cdn[m.ref].rawsize = Len(Unpad(cdn[m.ref].data))
    /\ \E k \in MediaKinds : m.type = ItemType[k] /\ cdn[m.ref].type = UploadType[k]

MediaInv ==
    /\ CdnInv /\ FilesInv /\ InboundInv
    /\ job # None => JobOK
    /\ \A m \in sent : SentOK(m)

----------------------------------------------------------------------------

\* The bytes of a file are what the last one leaves of them.
LEMMA UnpadBytes ==
    ASSUME NEW s \in Seq(Byte)
    PROVE  Unpad(s) \in Seq(Byte)
<1>1. CASE s # << >> /\ s[Len(s)] \in 1..Block
  <2>1. Len(s) \in Nat /\ s[Len(s)] \in Nat /\ Len(s) - s[Len(s)] \in Int /\ 1 \in Int
        /\ Len(s) - s[Len(s)] <= Len(s)
    BY <1>1, BlockAssumption
  <2>2. \A i \in 1..(Len(s) - s[Len(s)]) : s[i] \in Byte
    BY <2>1, ElementOfSeq
  <2>3. SubSeq(s, 1, Len(s) - s[Len(s)]) \in Seq(Byte)
    BY <2>1, <2>2, SubSeqProperties
  <2>4. QED
    BY <1>1, <2>3 DEF Unpad
<1>2. CASE ~(s # << >> /\ s[Len(s)] \in 1..Block)
  BY <1>2, Zenon DEF Unpad
<1>3. QED
  BY <1>1, <1>2

\* So are those of a ciphertext whose last block is not whole.
LEMMA BlocksBytes ==
    ASSUME NEW s \in Seq(Byte)
    PROVE  Blocks(s) \in Seq(Byte)
<1> DEFINE rest == Len(s) % Block
<1>1. Len(s) \in Nat /\ rest \in Nat /\ Len(s) - rest \in Int /\ Len(s) - rest <= Len(s)
  BY BlockAssumption, LenProperties
<1> HIDE DEF rest
<1>2. \A i \in 1..(Len(s) - rest) : s[i] \in Byte
  BY <1>1, ElementOfSeq
<1>3. SubSeq(s, 1, Len(s) - rest) \in Seq(Byte)
  BY <1>1, <1>2, SubSeqProperties
<1>4. SubSeq(s, 1, Len(s) - rest) \o Garbage \in Seq(Byte)
  BY <1>3, ContentsAssumption, ConcatProperties
<1>5. QED
  BY <1>4, Zenon DEF Blocks, rest

LEMMA OwnBytes ==
    ASSUME NEW m \in Inbound, NEW kind, NEW d, Own(m, kind, d)
    PROVE  d \in Seq(Byte) /\ <<m.id, kind>> \in CachePaths /\ <<m.id, kind>> \in Paths
<1>1. PICK i \in DOMAIN m.items :
         /\ m.items[i].kind = kind /\ Downloadable(m.items[i])
         /\ d \in {Unpad(Blocks(Uploaded[m.items[i].ref].data)), Garbage}
  BY DEF Own
<1>2. m.items[i].ref \in DOMAIN Uploaded /\ kind \in {"image", "voice", "video"}
  BY <1>1, MessagesAssumption DEF Downloadable
<1>3. Unpad(Blocks(Uploaded[m.items[i].ref].data)) \in Seq(Byte)
  BY <1>2, UnpadBytes, BlocksBytes, ContentsAssumption
<1>4. <<m.id, kind>> \in CachePaths
  BY <1>2 DEF CachePaths
<1>5. QED
  BY <1>1, <1>3, <1>4, ContentsAssumption DEF Paths

\* What is the users' at the CDN stays, so FromItem says the same in each state.
LEMMA OwnIsFromItem ==
    ASSUME CdnInv, NEW m \in Inbound, NEW kind, NEW d, Own(m, kind, d)
    PROVE  FromItem(m, kind, d)
<1>1. PICK i \in DOMAIN m.items :
         /\ m.items[i].kind = kind /\ Downloadable(m.items[i])
         /\ d \in {Unpad(Blocks(Uploaded[m.items[i].ref].data)), Garbage}
  BY DEF Own
<1>2. cdn[m.items[i].ref] = Uploaded[m.items[i].ref]
  BY <1>1, MessagesAssumption DEF Downloadable, CdnInv
<1>3. d \in {Plain(m.items[i]), Garbage}
  BY <1>1, <1>2 DEF Plain, Decrypt
<1>4. QED
  BY <1>1, <1>3 DEF FromItem

\* A download writes what is rightful, and takes no entry what it had.
LEMMA DownloadWrites ==
    ASSUME CdnInv, FilesInv, now # None, NowOK, NEW i \in now.left, Download(i)
    PROVE  /\ FilesInv'
           /\ Own(now.msg, now.msg.items[i].kind, files'[<<now.msg.id, now.msg.items[i].kind>>])
           /\ \A m \in Inbound : \A kind :
                Own(m, kind, files[<<m.id, kind>>]) => Own(m, kind, files'[<<m.id, kind>>])
<1> DEFINE item == now.msg.items[i]
           p    == <<now.msg.id, item.kind>>
           d    == Decrypt(KeyOf(item), cdn[item.ref])
<1>1. now.msg \in Inbound /\ i \in DOMAIN now.msg.items /\ Downloadable(item)
  BY DEF NowOK
<1>2. cdn[item.ref] = Uploaded[item.ref] /\ item.ref \in DOMAIN Uploaded
  BY <1>1, MessagesAssumption DEF CdnInv, Downloadable
<1>3. d \in {Unpad(Blocks(Uploaded[item.ref].data)), Garbage}
  BY <1>2 DEF Decrypt
<1>4. Own(now.msg, item.kind, d)
  BY <1>1, <1>3 DEF Own
<1>5. d \in Seq(Byte) /\ p \in CachePaths /\ p \in Paths
  BY <1>1, <1>4, OwnBytes
<1>6. files' = [files EXCEPT ![p] = d]
  BY DEF Download, Cached
<1> HIDE DEF d
<1>7. DOMAIN files' = Paths /\ files'[p] = d /\ \A q \in Paths : q # p => files'[q] = files[q]
  BY <1>5, <1>6 DEF FilesInv
<1>8. Rightful(p, d)
  <2>1. p \notin DOMAIN OwnFiles /\ p[1] = now.msg.id /\ p[2] = item.kind
    BY <1>5, MessagesAssumption
  <2>2. QED
    BY <1>1, <1>4, <1>5, <2>1 DEF Rightful
<1>9. FilesInv'
  BY <1>7, <1>8 DEF FilesInv
<1>10. ASSUME NEW m \in Inbound, NEW kind, Own(m, kind, files[<<m.id, kind>>])
       PROVE  Own(m, kind, files'[<<m.id, kind>>])
  <2>1. <<m.id, kind>> \in Paths
    BY <1>10, OwnBytes
  <2>2. CASE <<m.id, kind>> = p
    <3>1. m.id = now.msg.id /\ kind = item.kind
      BY <2>2
    <3>2. m = now.msg
      BY <1>1, <3>1, MessagesAssumption
    <3>3. QED
      BY <1>4, <1>7, <2>2, <3>1, <3>2
  <2>3. CASE <<m.id, kind>> # p
    BY <1>7, <1>10, <2>1, <2>3
  <2>4. QED
    BY <2>2, <2>3
<1>11. QED
  BY <1>4, <1>7, <1>9, <1>10

\* The media of an entry are files of its message.
LEMMA DownloadedOK ==
    ASSUME now # None, NowOK
    PROVE  \A n \in DOMAIN Downloaded :
              /\ Downloaded[n].path = <<now.msg.id, Downloaded[n].kind>>
              /\ Own(now.msg, Downloaded[n].kind, files[<<now.msg.id, Downloaded[n].kind>>])
<1> DEFINE Nth(n)  == CHOOSE i \in now.got : Cardinality({j \in now.got : j <= i}) = n
           Item(i) == now.msg.items[i]
<1>1. Downloaded = [n \in 1..Cardinality(now.got) |-> [kind |-> Item(Nth(n)).kind, path |-> Cached(now.msg, Item(Nth(n)))]]
  BY DEF Downloaded
<1>2. ASSUME NEW n \in 1..Cardinality(now.got) PROVE Nth(n) \in now.got
  <2>1. Len(now.msg.items) \in Nat /\ now.got \in SUBSET (1..Len(now.msg.items))
    BY MessagesAssumption DEF NowOK
  <2>2. \E i \in now.got : Cardinality({j \in now.got : j <= i}) = n
    BY <2>1, NthElement
  <2>3. QED
    BY <2>2
<1> HIDE DEF Nth
<1>3. ASSUME NEW n \in 1..Cardinality(now.got)
      PROVE  /\ Downloaded[n].kind = Item(Nth(n)).kind
             /\ Downloaded[n].path = <<now.msg.id, Item(Nth(n)).kind>>
             /\ Own(now.msg, Item(Nth(n)).kind, files[<<now.msg.id, Item(Nth(n)).kind>>])
  BY <1>1, <1>2 DEF Cached, NowOK
<1>4. QED
  BY <1>1, <1>3

\* An entry keeps its files when no file of a message loses its content.
LEMMA EntryStays ==
    ASSUME NEW e, EntryOK(e),
           \A m \in Inbound : \A kind :
                Own(m, kind, files[<<m.id, kind>>]) => Own(m, kind, files'[<<m.id, kind>>])
    PROVE  EntryOK(e)'
  BY DEF EntryOK

LEMMA MediaInit == Init => MediaInv
<1> SUFFICES ASSUME Init PROVE MediaInv
  OBVIOUS
<1>1. CdnInv
  BY MediaAssumption DEF Init, CdnInv
<1>2. FilesInv
  BY ContentsAssumption DEF Init, FilesInv, Rightful, Paths
<1>3. QED
  BY <1>1, <1>2 DEF Init, MediaInv, InboundInv

\* What the loop of main and the agent do leaves replies, messages and the CDN.
LEMMA InboundFrame ==
    ASSUME MediaInv, UNCHANGED <<cdn, outVars>>, FilesInv', InboundInv'
    PROVE  MediaInv'
  BY DEF MediaInv, CdnInv, JobOK, Object, Ciphertext, SentOK, outVars

LEMMA ReceiveKeeps ==
    ASSUME MediaInv, NEW m \in Inbound, Receive(m)
    PROVE  MediaInv'
<1>0. FilesInv /\ InboundInv /\ UNCHANGED <<files, cdn, outVars>>
  BY DEF MediaInv, Receive
<1>1. FilesInv'
  BY <1>0 DEF FilesInv
<1> DEFINE e == Entry(m, Extract(m))
           d == {i \in DOMAIN m.items : Downloadable(m.items[i])}
<1>2. last' = e /\ now' = [msg |-> m, left |-> d, got |-> {}] /\ held' = held
  BY DEF Receive
<1>3. \A n \in DOMAIN Extract(m) : Extract(m)[n].path = None
  BY DEF Extract
<1>4. e = Entry(e.msg, e.media) /\ e.msg = m /\ e.media = Extract(m)
  BY DEF Entry
<1>5. EntryOK(last)'
  BY <1>2, <1>3, <1>4 DEF EntryOK
<1>6. NowOK'
  BY <1>2, <1>4 DEF NowOK
<1>7. held' # None => EntryOK(held)'
  BY <1>0, <1>2 DEF InboundInv, EntryOK
<1>8. InboundInv'
  BY <1>5, <1>6, <1>7 DEF InboundInv
<1>9. QED
  BY <1>0, <1>1, <1>8, InboundFrame

LEMMA DownloadKeeps ==
    ASSUME MediaInv, DownloadEnds
    PROVE  MediaInv'
<1>0. FilesInv /\ InboundInv /\ CdnInv /\ now # None /\ NowOK /\ UNCHANGED <<cdn, last, held, outVars>>
  BY DEF MediaInv, InboundInv, DownloadEnds
<1>1. PICK i \in now.left : Download(i) \/ DownloadFails(i)
  BY DEF DownloadEnds
<1> DEFINE own(m, kind) == Own(m, kind, files[<<m.id, kind>>])
<1>2. /\ FilesInv'
      /\ \A m \in Inbound : \A kind :
              Own(m, kind, files[<<m.id, kind>>]) => Own(m, kind, files'[<<m.id, kind>>])
      /\ Download(i) => Own(now.msg, now.msg.items[i].kind, files'[<<now.msg.id, now.msg.items[i].kind>>])
  <2>1. CASE Download(i)
    BY <1>0, <2>1, DownloadWrites
  <2>2. CASE ~Download(i)
    <3>1. UNCHANGED files
      BY <1>1, <2>2 DEF DownloadFails
    <3>2. QED
      BY <1>0, <2>2, <3>1 DEF FilesInv
  <2>3. QED
    BY <2>1, <2>2
<1>3. /\ last' # None => EntryOK(last)'
      /\ held' # None => EntryOK(held)'
  <2>1. last # None => EntryOK(last)'
    <3>1. PICK e : e = last
      OBVIOUS
    <3>2. SUFFICES ASSUME e # None PROVE EntryOK(e)'
      BY <1>0, <3>1 DEF EntryOK
    <3>3. EntryOK(e)
      BY <1>0, <3>1, <3>2 DEF InboundInv
    <3>4. QED
      BY <1>2, <3>3, EntryStays
  <2>2. held # None => EntryOK(held)'
    <3>1. PICK e : e = held
      OBVIOUS
    <3>2. SUFFICES ASSUME e # None PROVE EntryOK(e)'
      BY <1>0, <3>1 DEF EntryOK
    <3>3. EntryOK(e)
      BY <1>0, <3>1, <3>2 DEF InboundInv
    <3>4. QED
      BY <1>2, <3>3, EntryStays
  <2>3. QED
    BY <1>0, <2>1, <2>2
<1>4. now'.msg = now.msg /\ now'.left = now.left \ {i} /\ now' = [msg |-> now'.msg, left |-> now'.left, got |-> now'.got]
      /\ now'.got \in {now.got, now.got \cup {i}} /\ (now'.got # now.got => Download(i))
  <2>1. now = [msg |-> now.msg, left |-> now.left, got |-> now.got]
    BY <1>0 DEF NowOK
  <2>2. CASE Download(i)
    <3>1. now' = [now EXCEPT !.left = now.left \ {i}, !.got = now.got \cup {i}]
      BY <2>2 DEF Download
    <3>2. QED
      BY <2>1, <2>2, <3>1
  <2>3. CASE DownloadFails(i)
    BY <2>1, <2>3 DEF DownloadFails
  <2>4. QED
    BY <1>1, <2>2, <2>3
<1>5. NowOK'
  <2>1. ASSUME NEW j \in now'.got
        PROVE  Own(now.msg, now.msg.items[j].kind, files'[<<now.msg.id, now.msg.items[j].kind>>])
    <3>1. CASE j \in now.got
      <4>1. Own(now.msg, now.msg.items[j].kind, files[<<now.msg.id, now.msg.items[j].kind>>]) /\ now.msg \in Inbound
        BY <1>0, <3>1 DEF NowOK
      <4>2. QED
        BY <1>2, <4>1
    <3>2. CASE j \notin now.got
      BY <1>2, <1>4, <3>2
    <3>3. QED
      BY <3>1, <3>2
  <2>2. QED
    BY <1>0, <1>4, <2>1 DEF NowOK
<1>6. InboundInv'
  BY <1>3, <1>5 DEF InboundInv
<1>7. QED
  BY <1>0, <1>2, <1>6, InboundFrame

LEMMA AgentKeeps ==
    ASSUME MediaInv, Update \/ Poll
    PROVE  MediaInv'
<1>0. FilesInv /\ InboundInv /\ UNCHANGED <<files, cdn, outVars>>
  BY DEF MediaInv, Update, Poll
<1>1. FilesInv'
  BY <1>0 DEF FilesInv
<1>2. \A e : EntryOK(e) => EntryOK(e)'
  BY <1>0 DEF EntryOK
<1>3. CASE Poll
  BY <1>0, <1>1, <1>2, <1>3, InboundFrame DEF Poll, InboundInv, NowOK
<1>4. CASE Update
  <2>1. now # None /\ NowOK /\ now' = None /\ held' = held
    BY <1>0, <1>4 DEF Update, InboundInv
  <2>2. last' # None => EntryOK(last)'
    <3>1. CASE last' = last
      BY <1>0, <1>2, <3>1 DEF InboundInv, EntryOK
    <3>2. CASE last' # last
      <4>1. last # None /\ last' = [last EXCEPT !.media = Downloaded]
        BY <1>4, <3>2 DEF Update
      <4>2. last = Entry(last.msg, last.media) /\ last.msg = now.msg /\ now.msg \in Inbound
        BY <1>0, <2>1, <4>1 DEF InboundInv, EntryOK, NowOK
      <4>3. last' = Entry(now.msg, Downloaded) /\ last'.msg = now.msg /\ last'.media = Downloaded
        BY <4>1, <4>2 DEF Entry
      <4>4. \A n \in DOMAIN Downloaded :
              /\ Downloaded[n].path = <<now.msg.id, Downloaded[n].kind>>
              /\ Own(now.msg, Downloaded[n].kind, files[<<now.msg.id, Downloaded[n].kind>>])
        BY <2>1, DownloadedOK
      <4>5. QED
        BY <1>0, <4>2, <4>3, <4>4 DEF EntryOK
    <3>3. QED
      BY <3>1, <3>2
  <2>3. held' # None => EntryOK(held)'
    BY <1>0, <1>2, <2>1 DEF InboundInv, EntryOK
  <2>4. InboundInv'
    BY <2>1, <2>2, <2>3 DEF InboundInv
  <2>5. QED
    BY <1>0, <1>1, <2>4, InboundFrame
<1>5. QED
  BY <1>3, <1>4

----------------------------------------------------------------------------
(* Replies.                                                                *)

\* What the reply processor does leaves the files and the entries.
LEMMA OutboundFrame ==
    ASSUME MediaInv, UNCHANGED <<files, inVars>>
    PROVE  FilesInv' /\ InboundInv'
  BY DEF MediaInv, FilesInv, InboundInv, EntryOK, NowOK, inVars

\* So does what it does without an upload, with the CDN and what was sent.
LEMMA JobFrame ==
    ASSUME MediaInv, UNCHANGED <<files, inVars, cdn, sent>>, job' # None => JobOK'
    PROVE  MediaInv'
<1>1. FilesInv' /\ InboundInv'
  BY OutboundFrame
<1>2. QED
  BY <1>1 DEF MediaInv, CdnInv, SentOK

\* A reply of which nothing is uploaded.
LEMMA BareOK ==
    ASSUME NEW paths \in Seq(Paths), NEW stage \in {"read", "sorry", "notes"},
           stage # "notes" => paths # << >>, job' = Bare(paths, stage)
    PROVE  JobOK'
<1>1. job' \in Job /\ job'.stage = stage /\ job'.paths = paths
  BY DEF Bare, Job
<1>2. QED
  BY <1>1 DEF JobOK

LEMMA KindOfIsMedia == \A p : KindOf(p) \in MediaKinds
  BY ContentsAssumption DEF KindOf, MediaKinds, UploadType

\* What the platform has of a file opens, and is announced with its sizes.
LEMMA ObjectOpens ==
    ASSUME job \in Job, job.paths # << >>, job.key \in Keys, job.data \in Seq(Byte)
    PROVE  /\ Object # None /\ Object.aeskey = Hex(Object.key) /\ Object.key = job.key
           /\ Object.data = Ciphertext.data /\ Unpad(Object.data) = job.data
           /\ Object.filesize = Len(Object.data) /\ Len(Object.data) % Block = 0
           /\ Object.rawsize = Len(Unpad(Object.data))
           /\ Object.type = UploadType[KindOf(job.paths[1])]
<1>1. 1..Block \subseteq Byte
  BY BlockAssumption DEF Byte
<1>2. Ciphertext.data = Pad(job.data)
  BY DEF Ciphertext, Encrypt
<1>3. Pad(job.data) \in Seq(Byte) /\ Unpad(Pad(job.data)) = job.data
  BY <1>1, PadShape, PadRoundTrip
<1>4. Len(Pad(job.data)) % Block = 0
  BY <1>1, CiphertextSize DEF Encrypt
<1>5. Len(Pad(job.data)) \in Nat /\ Len(job.data) \in Nat
  BY <1>3, LenProperties
<1>6. UploadType[KindOf(job.paths[1])] \in 1..4
  BY KindOfIsMedia DEF MediaKinds, UploadType
<1>7. Object = [key |-> job.key, data |-> Pad(job.data), type |-> UploadType[KindOf(job.paths[1])],
                aeskey |-> Hex(job.key), filesize |-> Len(Pad(job.data)), rawsize |-> Len(job.data)]
  BY <1>2 DEF Object, Announced
<1>8. Object \in [key: Keys, data: Seq(Byte), type: 1..4, aeskey: {Hex(k) : k \in Keys},
                  filesize: Nat, rawsize: Nat]
  BY <1>3, <1>5, <1>6, <1>7
<1>9. Object # None
  BY <1>8, ContentsAssumption
<1>10. QED
  BY <1>2, <1>3, <1>4, <1>7, <1>9

LEMMA TakeReplyKeeps ==
    ASSUME MediaInv, TakeReply
    PROVE  MediaInv'
<1>1. PICK paths \in Replies : job' = Bare(paths, "read")
  BY DEF TakeReply
<1>2. paths \in Seq(Paths) /\ paths # << >>
  BY <1>1, MessagesAssumption
<1>3. JobOK'
  BY <1>1, <1>2, BareOK
<1>4. QED
  BY <1>3, JobFrame DEF TakeReply

LEMMA UploadKeeps ==
    ASSUME MediaInv, Upload
    PROVE  MediaInv'
<1>0. job # None /\ JobOK /\ job.stage = "upload" /\ UNCHANGED <<files, sent, inVars>> /\ CdnInv
  BY DEF MediaInv, Upload, At
<1>1. PICK r \in Refs : /\ cdn[r] = None /\ cdn' = [cdn EXCEPT ![r] = Object]
                        /\ job' = [job EXCEPT !.ref = r, !.stage = "send"] \/ Sorry
  BY DEF Upload
<1>2. /\ job \in Job /\ job.paths # << >> /\ job.paths \in Seq(Paths)
      /\ job.key \in Keys /\ Rightful(job.paths[1], job.data)
  BY <1>0 DEF JobOK, Job
<1>3. DOMAIN cdn' = DOMAIN cdn /\ cdn'[r] = Object /\ \A q \in DOMAIN cdn : q # r => cdn'[q] = cdn[q]
  BY <1>0, <1>1 DEF CdnInv
<1>4. r \notin DOMAIN Uploaded
  BY MediaAssumption
<1>5. CdnInv'
  BY <1>0, <1>3, <1>4 DEF CdnInv
<1>6. FilesInv' /\ InboundInv'
  BY <1>0, OutboundFrame
<1>7. \A m \in sent' : SentOK(m)'
  <2>1. ASSUME NEW m \in sent PROVE SentOK(m)'
    <3>1. SentOK(m)
      BY DEF MediaInv
    <3>2. m.ref # r /\ m.ref \in DOMAIN cdn
      BY <1>0, <1>1, <3>1 DEF SentOK, CdnInv
    <3>3. cdn'[m.ref] = cdn[m.ref]
      BY <1>3, <3>2
    <3>4. QED
      BY <3>1, <3>3 DEF SentOK
  <2>2. QED
    BY <1>0, <2>1
<1>8. JobOK'
  <2>1. CASE job' = [job EXCEPT !.ref = r, !.stage = "send"]
    <3>1. /\ job' \in Job /\ job'.stage = "send" /\ job'.ref = r /\ job'.paths = job.paths
          /\ job'.key = job.key /\ job'.data = job.data
      BY <1>2, <2>1 DEF Job
    <3>2. Object' = Object
      BY <3>1 DEF Object, Ciphertext
    <3>3. QED
      BY <1>2, <1>3, <3>1, <3>2 DEF JobOK
  <2>2. CASE Sorry
    <3>1. job' = Bare(job.paths, "sorry")
      BY <2>2 DEF Sorry
    <3>2. QED
      BY <1>2, <3>1, BareOK
  <2>3. QED
    BY <1>1, <2>1, <2>2
<1>9. QED
  BY <1>5, <1>6, <1>7, <1>8 DEF MediaInv

LEMMA SendKeeps ==
    ASSUME MediaInv, Send
    PROVE  MediaInv'
<1>0. job # None /\ JobOK /\ job \in Job /\ UNCHANGED <<files, cdn, inVars>> /\ job.stage \in {"send", "sorry"}
  BY DEF MediaInv, Send, JobOK
<1>1. job' = Bare(Tail(job.paths), "notes")
  BY DEF Send
<1>2. Tail(job.paths) \in Seq(Paths)
  BY <1>0 DEF JobOK, Job
<1>3. JobOK'
  BY <1>1, <1>2, BareOK
<1>4. FilesInv' /\ InboundInv'
  BY <1>0, OutboundFrame
<1>5. ASSUME NEW m \in sent' PROVE SentOK(m)
  <2>1. CASE m \in sent
    BY <2>1 DEF MediaInv
  <2>2. CASE m \notin sent
    <3>1. job.stage = "send" /\ m = MediaMessage
      BY <2>2 DEF Send
    <3>2. /\ job.paths # << >> /\ job.key \in Keys /\ Rightful(job.paths[1], job.data)
          /\ job.ref \in Refs /\ cdn[job.ref] = Object
      BY <1>0, <3>1 DEF JobOK
    <3>3. job.data \in Seq(Byte)
      BY <3>2 DEF Rightful
    <3>4. KindOf(job.paths[1]) \in MediaKinds
      BY KindOfIsMedia
    <3>5. /\ m.type = ItemType[KindOf(job.paths[1])] /\ m.ref = job.ref /\ m.aes_key = Base64(Hex(job.key))
          /\ m.mid_size = Len(Ciphertext.data) /\ m.path = job.paths[1]
      BY <3>1 DEF MediaMessage, ApiKey
    <3>6. QED
      BY <1>0, <3>2, <3>3, <3>4, <3>5, ObjectOpens DEF SentOK
  <2>3. QED
    BY <2>1, <2>2
<1>6. QED
  BY <1>0, <1>3, <1>4, <1>5 DEF MediaInv, CdnInv, SentOK

\* Reading a file, asking for an address, failing, and naming the other files.
LEMMA ReplyKeeps ==
    ASSUME MediaInv, Read \/ GetUploadUrl \/ UploadFails \/ Note
    PROVE  MediaInv'
<1>0. job # None /\ JobOK /\ job \in Job /\ UNCHANGED <<files, inVars, cdn, sent>> /\ FilesInv
  BY DEF MediaInv, Read, GetUploadUrl, UploadFails, Note, At, JobOK
<1>1. CASE UploadFails \/ (GetUploadUrl /\ Sorry)
  <2>1. job' = Bare(job.paths, "sorry") /\ job.stage \in {"read", "ask", "upload"}
    BY <1>1 DEF UploadFails, GetUploadUrl, Sorry, At
  <2>2. job.paths \in Seq(Paths) /\ job.paths # << >>
    BY <1>0, <2>1 DEF JobOK, Job
  <2>3. JobOK'
    BY <2>1, <2>2, BareOK
  <2>4. QED
    BY <1>0, <2>3, JobFrame
<1>2. CASE Read
  <2>1. PICK k \in Keys : job' = [job EXCEPT !.data = files[job.paths[1]], !.key = k, !.stage = "ask"]
    BY <1>2 DEF Read
  <2>2. job.stage = "read" /\ job.paths # << >> /\ job.paths \in Seq(Paths) /\ files[job.paths[1]] # None
    BY <1>0, <1>2 DEF Read, At, JobOK, Job
  <2>3. job.paths[1] \in Paths
    BY <2>2
  <2>4. Rightful(job.paths[1], files[job.paths[1]])
    BY <1>0, <2>2, <2>3 DEF FilesInv
  <2>5. files[job.paths[1]] \in Seq(Byte)
    BY <2>4 DEF Rightful
  <2>6. /\ job' \in Job /\ job'.stage = "ask" /\ job'.key = k /\ job'.paths = job.paths
        /\ job'.data = files[job.paths[1]]
    BY <1>0, <2>1, <2>5 DEF Job
  <2>7. JobOK'
    BY <2>2, <2>4, <2>6 DEF JobOK
  <2>8. QED
    BY <1>0, <2>7, JobFrame
<1>3. CASE GetUploadUrl /\ ~Sorry
  <2>1. PICK answer \in {"full", "param", "neither"} :
           job' = [job EXCEPT !.url = UploadPath(answer), !.stage = "upload"]
    BY <1>3 DEF GetUploadUrl
  <2>2. UploadPath(answer) \in Seq({"c2c"})
    <3>1. <<"c2c">> \in Seq({"c2c"}) /\ Append(<<"c2c">>, "c2c") \in Seq({"c2c"})
      OBVIOUS
    <3>2. QED
      BY <3>1, Zenon DEF UploadPath, CdnPath, BuiltInBase
  <2>3. /\ job' \in Job /\ job'.stage = "upload" /\ job'.key = job.key /\ job'.paths = job.paths
        /\ job'.data = job.data
    BY <1>0, <2>1, <2>2 DEF Job
  <2>4. job.stage = "ask"
    BY <1>3 DEF GetUploadUrl, At
  <2>5. JobOK'
    BY <1>0, <2>3, <2>4 DEF JobOK
  <2>6. QED
    BY <1>0, <2>5, JobFrame
<1>4. CASE Note
  <2>1. job.stage = "notes" /\ job' = IF job.paths = << >> THEN None ELSE [job EXCEPT !.paths = Tail(job.paths)]
    BY <1>4 DEF Note, At
  <2>2. CASE job.paths = << >>
    BY <1>0, <2>1, <2>2, JobFrame
  <2>3. CASE job.paths # << >>
    <3>1. Tail(job.paths) \in Seq(Paths)
      BY <1>0, <2>3 DEF Job
    <3>2. job' \in Job /\ job'.stage = "notes"
      BY <1>0, <2>1, <2>3, <3>1 DEF Job
    <3>3. JobOK'
      BY <3>2 DEF JobOK
    <3>4. QED
      BY <1>0, <3>3, JobFrame
  <2>4. QED
    BY <2>2, <2>3
<1>5. QED
  BY <1>1, <1>2, <1>3, <1>4

LEMMA MediaStep == MediaInv /\ [Next]_vars => MediaInv'
<1> SUFFICES ASSUME MediaInv, [Next]_vars PROVE MediaInv'
  OBVIOUS
<1>1. CASE Restart
  <2>1. FilesInv' /\ InboundInv'
    BY <1>1 DEF Restart, MediaInv, FilesInv, InboundInv, EntryOK
  <2>2. QED
    BY <1>1, <2>1 DEF Restart, MediaInv, CdnInv, SentOK
<1>2. CASE UNCHANGED vars
  BY <1>2, JobFrame DEF vars, outVars, MediaInv, JobOK, Object, Ciphertext
<1>3. QED
  BY <1>1, <1>2, ReceiveKeeps, DownloadKeeps, AgentKeeps, TakeReplyKeeps, UploadKeeps, SendKeeps,
     ReplyKeeps DEF Next, Processor

\* Objects at the CDN, cached files, queue entries, the reply at work and the
\* messages sent stay as MediaInv says in every reachable state.
THEOREM MediaInvariant == Spec => []MediaInv
<1>1. QED
  BY MediaInit, MediaStep, PTL DEF Spec

\* The paths an agent is given lead to what its message carried, however many
\* downloads end, fail or overwrite each other meanwhile (try_download_media,
\* update_last_media).
THEOREM PathsAreOwn == Spec => []PathLeadsToOwn
<1>1. MediaInv => PathLeadsToOwn
  <2> SUFFICES ASSUME MediaInv, NEW e \in Entries, NEW n \in DOMAIN e.media, e.media[n].path # None
               PROVE  FromItem(e.msg, e.media[n].kind, files[e.media[n].path])
    BY DEF PathLeadsToOwn
  <2>1. EntryOK(e)
    BY DEF Entries, MediaInv, InboundInv
  <2>2. QED
    BY <2>1, OwnIsFromItem DEF EntryOK, MediaInv
<1>2. QED
  BY MediaInvariant, <1>1, PTL

\* What the gateway uploads and sends opens to the file the agent named, of any
\* length and any bytes, and is announced with its sizes and its kind
\* (upload_media_to_cdn, build_media_reply).
THEOREM SentCanBeOpened == Spec => []SentOpens
<1>1. MediaInv => SentOpens
  <2> SUFFICES ASSUME MediaInv, NEW s \in sent
               PROVE  LET o == cdn[s.ref] IN
                      /\ s.aes_key = Base64(o.aeskey) /\ o.aeskey = Hex(o.key)
                      /\ IF s.path \in DOMAIN OwnFiles THEN Unpad(o.data) = OwnFiles[s.path]
                         ELSE \E m \in Inbound : m.id = s.path[1] /\ FromItem(m, s.path[2], Unpad(o.data))
                      /\ s.mid_size = Len(o.data) /\ o.filesize = Len(o.data) /\ Len(o.data) % Block = 0
                      /\ o.rawsize = Len(Unpad(o.data))
                      /\ \E k \in MediaKinds : s.type = ItemType[k] /\ o.type = UploadType[k]
    BY DEF SentOpens
  <2>1. SentOK(s)
    BY DEF MediaInv
  <2>2. IF s.path \in DOMAIN OwnFiles THEN Unpad(cdn[s.ref].data) = OwnFiles[s.path]
        ELSE \E m \in Inbound : m.id = s.path[1] /\ FromItem(m, s.path[2], Unpad(cdn[s.ref].data))
    BY <2>1, OwnIsFromItem DEF SentOK, Rightful, MediaInv
  <2>3. QED
    BY <2>1, <2>2 DEF SentOK
<1>2. QED
  BY MediaInvariant, <1>1, PTL
=============================================================================
