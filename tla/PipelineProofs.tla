--------------------------- MODULE PipelineProofs ---------------------------
(***************************************************************************)
(* Proofs about the signing pipeline, for every set of zones, every number *)
(* of serials, hooks and requests.                                         *)
(***************************************************************************)
EXTENDS Pipeline, SequenceTheorems, TLAPS

-----------------------------------------------------------------------------
(* Type correctness *)

LEMMA IdleSignerType ==
  /\ IdleSigner \in [phase : Phase, version : Version, source : Nat, target : Nat,
                     seen : Tree, body : Serial]
  /\ IdleSigner.source = 0 /\ IdleSigner.target = 0 /\ IdleSigner.seen = EmptyTree
  BY PipelineAssumption DEF IdleSigner, Phase, Version, Serial, Tree, EmptyTree

\* Updating one entry of a function of two arguments keeps its type.
LEMMA EntryType ==
  ASSUME NEW A, NEW B, NEW S, NEW f \in [A -> [B -> S]], NEW a \in A, NEW b \in B,
         NEW e \in S
  PROVE  [f EXCEPT ![a][b] = e] \in [A -> [B -> S]]
  OBVIOUS

LEMMA MsgType ==
  ASSUME NEW k \in UpdateKind, NEW z \in Zones, NEW s \in Serial
  PROVE  Msg(k, z, s) \in Update
  BY DEF Msg, Update, Version

\* Posting one message after the other, or both at once.
LEMMA TwoPosts ==
  ASSUME NEW a \in Seq(Update), NEW b \in Seq(Update), NEW c \in Seq(Update)
  PROVE  (a \o b) \o c = a \o (b \o c)
<1> DEFINE U == Update
<1>1. a \in Seq(U) /\ b \in Seq(U) /\ c \in Seq(U)
  OBVIOUS
<1> HIDE DEF U
<1> QED BY <1>1, ConcatAssociative

LEMMA PostType ==
  ASSUME updates \in Seq(Update), NEW k \in UpdateKind, NEW z \in Zones,
         NEW s \in Serial, Post(k, z, s)
  PROVE  updates' \in Seq(Update)
  BY MsgType, AppendProperties DEF Post

LEMMA BlankType == Blank \in Content /\ 0 \in Serial
  BY PipelineAssumption DEF Blank, Content, Serial

\* A number that named an object of a zone still does when the zone gets another.
LEMMA ObjectsOfMore ==
  ASSUME copies \in [Zones -> Seq(Content)], NEW z \in Zones,
         copies' = [copies EXCEPT ![z] = Append(@, Blank)]
  PROVE  /\ copies' \in [Zones -> Seq(Content)]
         /\ NextCopy(z) \in Object(z)'
         /\ \A y \in Zones : Object(y) \subseteq Object(y)'
  <1>1. /\ copies[z] \in Seq(Content)
        /\ Append(copies[z], Blank) \in Seq(Content)
        /\ Len(Append(copies[z], Blank)) = Len(copies[z]) + 1
    BY BlankType, AppendProperties
  <1>2. \A y \in Zones : Len(copies[y]) \in Nat
    BY LenProperties
  <1>3. \A y \in Zones : copies'[y] = IF y = z THEN Append(copies[z], Blank) ELSE copies[y]
    OBVIOUS
  <1>4. copies' \in [Zones -> Seq(Content)]
    BY <1>1
  <1>5. NextCopy(z) \in Object(z)'
    BY <1>1, <1>2, <1>3 DEF NextCopy, Object
  <1>6. ASSUME NEW y \in Zones PROVE Object(y) \subseteq Object(y)'
    BY <1>1, <1>2, <1>3 DEF Object
  <1> QED BY <1>4, <1>5, <1>6

LEMMA TypeInit == Init => TypeOK
  <1> SUFFICES ASSUME Init PROVE TypeOK
    OBVIOUS
  <1> USE PipelineAssumption, BlankType DEF Init
  <1>1. CenterType
    <2>1. spent \in [adds : 0 .. MaxAdds, removals : 0 .. MaxRemovals,
                     resigns : 0 .. MaxResigns, hangups : 0 .. MaxHangups]
      OBVIOUS
    <2> QED BY <2>1 DEF CenterType
  <1>2. LoaderType
    BY DEF LoaderType
  <1>3. ChannelType
    BY EmptySeq DEF ChannelType
  <1>4. ReviewType
    BY DEF ReviewType
  <1>5. TreeType
    BY EmptySeq DEF TreeType, Tree, EmptyTree
  <1>6. SignerType
    BY IdleSignerType DEF SignerType
  <1>7. ReferencesExist
    <2>1. \A z \in Zones : Object(z) = {0}
      <3>1. \A z \in Zones : copies[z] = <<>>
        OBVIOUS
      <3>2. Len(<<>>) = 0
        BY EmptySeq
      <3>3. \A z \in Zones : Len(copies[z]) = 0
        BY <3>1, <3>2
      <3>4. 0 .. 0 = {0}
        OBVIOUS
      <3> QED BY <3>3, <3>4 DEF Object
    <2>2. signer.version[1] \in Zones
      BY IdleSignerType DEF Version
    <2> QED BY <2>1, <2>2, IdleSignerType DEF ReferencesExist, EmptyTree
  <1> QED BY <1>1, <1>2, <1>3, <1>4, <1>5, <1>6, <1>7 DEF TypeOK

LEMMA ZoneAddType ==
  ASSUME TypeOK, NEW z \in Zones, NEW p \in {"bare", "ready"}, NEW s \in Serial,
         ZoneAdd(z, p, s)
  PROVE  TypeOK'
  <1>1. CenterType'
    <2>1. spent' \in [adds : 0 .. MaxAdds, removals : 0 .. MaxRemovals,
                      resigns : 0 .. MaxResigns, hangups : 0 .. MaxHangups]
      <3>1. spent.adds + 1 \in 0 .. MaxAdds
        BY PipelineAssumption DEF TypeOK, CenterType, ZoneAdd
      <3> QED BY <3>1 DEF TypeOK, CenterType, ZoneAdd
    <2>2. known' \in [Zones -> {"absent", "bare", "ready"}]
      BY DEF TypeOK, CenterType, ZoneAdd, KnownAfterAdd
    <2> QED BY <2>1, <2>2 DEF TypeOK, CenterType, ZoneAdd
  <1>2. LoaderType'
    <2>1. /\ registered' \subseteq Zones
          /\ incoming' = incoming
      BY DEF TypeOK, LoaderType, ZoneAdd
    <2>2. CASE UNCHANGED <<active, latest, unsigned>>
      BY <2>1, <2>2 DEF TypeOK, LoaderType
    <2>3. CASE ~UNCHANGED <<active, latest, unsigned>>
      <3>1. /\ active' = active \cup {z}
            /\ latest' = [latest EXCEPT ![z] = s]
            /\ unsigned' = [unsigned EXCEPT ![z] = [soa |-> s, body |-> s]]
        BY <2>3 DEF ZoneAdd
      <3> QED BY <2>1, <3>1 DEF TypeOK, LoaderType, Content
    <2> QED BY <2>2, <2>3
  <1>3. ChannelType'
    <2> DEFINE news == ChangesOfAdd(z, p) \o
                (IF s = 0 THEN <<>> ELSE <<Msg("UnsignedZoneUpdated", z, s)>>)
    <2>1. Msg("Changed", z, 0) \in Update /\ Msg("UnsignedZoneUpdated", z, s) \in Update
      BY MsgType, BlankType DEF UpdateKind
    <2>2. ChangesOfAdd(z, p) \in Seq(Update)
      BY <2>1 DEF ChangesOfAdd
    <2>3. (IF s = 0 THEN <<>> ELSE <<Msg("UnsignedZoneUpdated", z, s)>>) \in Seq(Update)
      BY <2>1
    <2>4. updates' \in Seq(Update)
      BY <2>2, <2>3, ConcatProperties DEF TypeOK, ChannelType, ZoneAdd
    <2> QED BY <2>4 DEF TypeOK, ChannelType, ZoneAdd
  <1>4. UNCHANGED <<reviewVars, treeVars, signer, dropping, dead, up>>
    BY DEF ZoneAdd
  <1> QED BY <1>1, <1>2, <1>3, <1>4
      DEF TypeOK, ReviewType, TreeType, SignerType, ReferencesExist, Object,
          reviewVars, treeVars

LEMMA ZoneRemoveType ==
  ASSUME TypeOK, NEW z \in Zones, ZoneRemove(z)
  PROVE  TypeOK'
  <1>1. CenterType'
    <2>1. spent'.removals \in 0 .. MaxRemovals
      BY PipelineAssumption DEF TypeOK, CenterType, ZoneRemove
    <2> QED BY <2>1 DEF TypeOK, CenterType, ZoneRemove
  <1>2. ChannelType'
    BY PostType, BlankType DEF TypeOK, ChannelType, ZoneRemove, UpdateKind
  <1>3. UNCHANGED <<loaderVars, reviewVars, treeVars, signer, dropping, dead, up>>
    BY DEF ZoneRemove
  <1> QED BY <1>1, <1>2, <1>3
      DEF TypeOK, LoaderType, ReviewType, TreeType, SignerType, ReferencesExist,
          Object, loaderVars, reviewVars, treeVars

\* The four steps of a transfer touch the loader's variables, the commit the
\* update channel as well.
LEMMA LoaderStepType ==
  ASSUME TypeOK, Loader
  PROVE  TypeOK'
  <1> USE BlankType
  <1>1. PICK z \in Zones :
          TransferBegin(z) \/ TransferFail(z) \/ TransferCommit(z) \/ Activate(z)
    BY DEF Loader
  <1>2. LoaderType'
    <2>1. CASE TransferBegin(z)
      <3>1. latest[z] + 1 \in Serial
        BY <2>1, PipelineAssumption DEF TypeOK, LoaderType, TransferBegin, Serial
      <3> QED BY <2>1, <3>1 DEF TypeOK, LoaderType, TransferBegin
    <2>2. CASE TransferFail(z)
      BY <2>2 DEF TypeOK, LoaderType, TransferFail
    <2>3. CASE TransferCommit(z)
      BY <2>3 DEF TypeOK, LoaderType, TransferCommit, Content
    <2>4. CASE Activate(z)
      BY <2>4 DEF TypeOK, LoaderType, Activate
    <2> QED BY <1>1, <2>1, <2>2, <2>3, <2>4
  <1>3. ChannelType'
    <2>1. CASE TransferCommit(z)
      <3>1. incoming[z] \in Serial /\ "UnsignedZoneUpdated" \in UpdateKind
        BY DEF TypeOK, LoaderType, UpdateKind
      <3> QED BY <2>1, <3>1, PostType DEF TypeOK, ChannelType, TransferCommit
    <2> QED BY <1>1, <2>1
        DEF TypeOK, ChannelType, TransferBegin, TransferFail, Activate
  <1>4. UNCHANGED <<centerVars, reviewVars, treeVars, signer, dropping, dead, up>>
    BY <1>1 DEF TransferBegin, TransferFail, TransferCommit, Activate
  <1> QED BY <1>2, <1>3, <1>4
      DEF TypeOK, CenterType, ReviewType, TreeType, SignerType, ReferencesExist,
          Object, centerVars, reviewVars, treeVars

LEMMA ResignType ==
  ASSUME TypeOK, NEW z \in Zones, Resign(z)
  PROVE  TypeOK'
  <1>1. CenterType'
    <2>1. spent'.resigns \in 0 .. MaxResigns
      BY PipelineAssumption DEF TypeOK, CenterType, Resign
    <2> QED BY <2>1 DEF TypeOK, CenterType, Resign
  <1>2. ChannelType'
    BY PostType, BlankType DEF TypeOK, ChannelType, Resign, UpdateKind
  <1>3. UNCHANGED <<loaderVars, reviewVars, treeVars, signer, dropping, dead, up>>
    BY DEF Resign
  <1> QED BY <1>1, <1>2, <1>3
      DEF TypeOK, LoaderType, ReviewType, TreeType, SignerType, ReferencesExist,
          Object, loaderVars, reviewVars, treeVars

LEMMA DirectUpdateType ==
  ASSUME TypeOK, DirectUpdate
  PROVE  TypeOK'
  <1>1. /\ Head(updates) \in Update
        /\ Tail(updates) \in Seq(Update)
    BY HeadTailProperties DEF TypeOK, ChannelType, DirectUpdate
  <1>2. Head(updates).kind # "Changed" => Target(Head(updates).kind) \in Units
    BY <1>1 DEF Update, UpdateKind, Target, Units
  <1>3. ASSUME NEW u \in Units
        PROVE  Append(queue[u], Head(updates).version) \in Seq(Version)
    BY <1>1, AppendProperties DEF TypeOK, ChannelType, Update
  <1>4. ChannelType'
    BY <1>1, <1>2, <1>3 DEF TypeOK, ChannelType, DirectUpdate
  <1>5. up' \in BOOLEAN
    BY DEF TypeOK, DirectUpdate
  <1>6. UNCHANGED <<loaderVars, centerVars, reviewVars, treeVars, signer, dropping, dead>>
    BY DEF DirectUpdate
  <1> QED BY <1>4, <1>5, <1>6
      DEF TypeOK, CenterType, LoaderType, ReviewType, TreeType, SignerType,
          ReferencesExist, Object, loaderVars, centerVars, reviewVars, treeVars

\* An announcement keeps the types of what it changes.
LEMMA AnnounceType ==
  ASSUME updates \in Seq(Update), announced \in [Servers -> [Version -> Nat]],
         NEW r \in Servers, NEW v \in Version, Announce(r, v)
  PROVE  /\ updates' \in Seq(Update)
         /\ announced' \in [Servers -> [Version -> Nat]]
  <1>1. [kind |-> Approval(r), version |-> v] \in Update
    BY DEF Approval, Update, UpdateKind
  <1> QED BY <1>1, AppendProperties DEF Announce

LEMMA SeekApprovalType ==
  ASSUME TypeOK, NEW r \in Servers, SeekApproval(r)
  PROVE  TypeOK'
  <1> DEFINE v == Head(queue[r])
  <1>1. r \in Units
    BY DEF Servers, Units
  <1>2. /\ v \in Version
        /\ Tail(queue[r]) \in Seq(Version)
    BY <1>1, HeadTailProperties DEF TypeOK, ChannelType, SeekApproval
  <1>3. updates' \in Seq(Update) /\ announced' \in [Servers -> [Version -> Nat]]
    BY <1>2, AnnounceType DEF TypeOK, ChannelType, ReviewType, SeekApproval
  <1>4. ChannelType'
    BY <1>1, <1>2, <1>3 DEF TypeOK, ChannelType, SeekApproval
  <1>5. ReviewType'
    <2>1. issued[r][v] \in Nat /\ Hooks[r] \in Nat
      BY <1>2, PipelineAssumption DEF TypeOK, ReviewType
    <2>2. ASSUME NEW f \in 0 .. Hooks[r]
          PROVE  OpenTokens(pending[r][v], issued[r][v], Hooks[r], f) \in SUBSET Nat
      BY <1>2, <2>1 DEF TypeOK, ReviewType, OpenTokens
    <2>3. pending' \in [Servers -> [Version -> SUBSET Nat]]
      <3>1. \/ pending' = pending
            \/ \E f \in 0 .. Hooks[r] : pending' =
                 [pending EXCEPT ![r][v] = OpenTokens(@, issued[r][v], Hooks[r], f)]
        BY DEF SeekApproval
      <3>2. ASSUME NEW f \in 0 .. Hooks[r], pending' =
                 [pending EXCEPT ![r][v] = OpenTokens(@, issued[r][v], Hooks[r], f)]
            PROVE  pending' \in [Servers -> [Version -> SUBSET Nat]]
        <4> DEFINE p == OpenTokens(pending[r][v], issued[r][v], Hooks[r], f)
        <4>1. pending' = [pending EXCEPT ![r][v] = p]
          BY <3>2
        <4>2. p \in SUBSET Nat
          BY <2>2
        <4> HIDE DEF p
        <4> QED BY <1>2, <4>1, <4>2, EntryType DEF TypeOK, ReviewType
      <3> QED BY <3>1, <3>2 DEF TypeOK, ReviewType
    <2>4. issued' \in [Servers -> [Version -> Nat]]
      <3>1. issued' = issued \/ issued' = [issued EXCEPT ![r][v] = @ + Hooks[r]]
        BY DEF SeekApproval
      <3>2. issued[r][v] + Hooks[r] \in Nat
        BY <2>1
      <3>3. CASE issued' = [issued EXCEPT ![r][v] = @ + Hooks[r]]
        <4>1. issued' = [issued EXCEPT ![r][v] = issued[r][v] + Hooks[r]]
          BY <3>3
        <4> QED BY <1>2, <3>2, <4>1, EntryType DEF TypeOK, ReviewType
      <3> QED BY <3>1, <3>3 DEF TypeOK, ReviewType
    <2> QED BY <1>3, <2>3, <2>4 DEF TypeOK, ReviewType, SeekApproval
  <1>6. UNCHANGED <<loaderVars, centerVars, treeVars, signer, dropping, dead, up>>
    BY DEF SeekApproval
  <1> QED BY <1>4, <1>5, <1>6
      DEF TypeOK, CenterType, LoaderType, TreeType, SignerType, ReferencesExist,
          Object, loaderVars, centerVars, treeVars

LEMMA ReviewerType ==
  ASSUME TypeOK, Reviewer
  PROVE  TypeOK'
  <1>1. PICK r \in Servers, v \in Version : \E t \in pending[r][v] :
          Approve(r, v, t) \/ Reject(r, v, t)
    BY DEF Reviewer
  <1>2. PICK t \in pending[r][v] : Approve(r, v, t) \/ Reject(r, v, t)
    BY <1>1
  <1>3. updates' \in Seq(Update) /\ announced' \in [Servers -> [Version -> Nat]]
    BY <1>2, AnnounceType DEF TypeOK, ChannelType, ReviewType, Approve, Reject
  <1>4. ChannelType'
    BY <1>2, <1>3 DEF TypeOK, ChannelType, Approve, Reject
  <1>5. ReviewType'
    <2>1. pending[r][v] \ {t} \in SUBSET Nat
      BY DEF TypeOK, ReviewType
    <2>2. pending' \in [Servers -> [Version -> SUBSET Nat]]
      <3>1. \/ pending' = [pending EXCEPT ![r][v] = pending[r][v] \ {t}]
            \/ pending' = [pending EXCEPT ![r][v] = {}]
        BY <1>2 DEF Approve, Reject
      <3>2. {} \in SUBSET Nat /\ pending \in [Servers -> [Version -> SUBSET Nat]]
        BY DEF TypeOK, ReviewType
      <3>3. CASE pending' = [pending EXCEPT ![r][v] = pending[r][v] \ {t}]
        BY <2>1, <3>2, <3>3, EntryType
      <3>4. CASE pending' = [pending EXCEPT ![r][v] = {}]
        BY <3>2, <3>4, EntryType
      <3> QED BY <3>1, <3>3, <3>4
    <2>3. approved' \in [Servers -> SUBSET Version]
      BY <1>2 DEF TypeOK, ReviewType, Approve, Reject
    <2>4. rejected' \subseteq Version /\ UNCHANGED issued
      BY <1>2 DEF TypeOK, ReviewType, Approve, Reject
    <2> QED BY <1>3, <2>2, <2>3, <2>4 DEF TypeOK, ReviewType
  <1>6. UNCHANGED <<loaderVars, centerVars, treeVars, signer, dropping, dead, up>>
    BY <1>2 DEF Approve, Reject
  <1> QED BY <1>4, <1>5, <1>6
      DEF TypeOK, CenterType, LoaderType, TreeType, SignerType, ReferencesExist,
          Object, loaderVars, centerVars, treeVars

LEMMA ClientType ==
  ASSUME TypeOK, Client
  PROVE  TypeOK'
  <1>1. PICK r \in ZoneServers : HangUp(r) \/ RequestDead(r)
    BY DEF Client
  <1>2. r \in Units
    BY DEF ZoneServers, Servers, Units
  <1>3. CenterType'
    <2>1. CASE HangUp(r)
      <3>1. spent'.hangups \in 0 .. MaxHangups
        BY <2>1, PipelineAssumption DEF TypeOK, CenterType, HangUp
      <3> QED BY <2>1, <3>1 DEF TypeOK, CenterType, HangUp
    <2>2. CASE RequestDead(r)
      BY <2>2 DEF TypeOK, CenterType, RequestDead, centerVars
    <2> QED BY <1>1, <2>1, <2>2
  <1>4. dead' \subseteq Units /\ up' \in BOOLEAN
    BY <1>1, <1>2 DEF TypeOK, HangUp, Panic, RequestDead
  <1>5. UNCHANGED <<loaderVars, updates, queue, reviewVars, treeVars, signer, dropping>>
    BY <1>1 DEF HangUp, RequestDead
  <1> QED BY <1>3, <1>4, <1>5
      DEF TypeOK, LoaderType, ChannelType, ReviewType, TreeType, SignerType,
          ReferencesExist, Object, loaderVars, reviewVars, treeVars

\* Objects are only ever added: what refers to one before a step may after it.
LEMMA SignerStepType ==
  ASSUME TypeOK, Signer
  PROVE  TypeOK'
  <1> DEFINE SignerRec == [phase : Phase, version : Version, source : Nat,
                           target : Nat, seen : Tree, body : Serial]
  <1>0. signer \in SignerRec /\ signer.version[1] \in Zones
    BY DEF TypeOK, SignerType, Version
  <1>1. PICK z \in Zones : z = signer.version[1] /\ signer \in SignerRec
    BY <1>0
  <1>2. SignerRec = [phase : Phase, version : Version, source : Nat, target : Nat,
                     seen : Tree, body : Serial]
    OBVIOUS
  <1> HIDE DEF SignerRec
  <1>3. CASE SignStart
    <2> DEFINE v == Head(queue["ZS"])
    <2>1. "ZS" \in Units /\ v \in Version /\ Tail(queue["ZS"]) \in Seq(Version)
      BY <1>3, HeadTailProperties DEF TypeOK, ChannelType, SignStart, Units
    <2>2. v[1] \in Zones
      BY <2>1 DEF Version
    <2>3. ChannelType'
      BY <1>3, <2>1 DEF TypeOK, ChannelType, SignStart
    <2>4. UNCHANGED <<loaderVars, centerVars, reviewVars, treeVars, dropping, dead, up>>
      BY <1>3 DEF SignStart
    <2>5. published[v[1]] \in Nat /\ published[v[1]] \in Object(v[1]) /\ 0 \in Object(v[1])
      <3> HIDE DEF v
      <3>1. published[v[1]] \in Nat
        BY <2>2 DEF TypeOK, TreeType, Tree
      <3>2. published[v[1]] \in 0 .. Len(copies[v[1]])
        BY <2>2 DEF TypeOK, TreeType, ReferencesExist, Object
      <3>3. Len(copies[v[1]]) \in Nat
        BY <2>2, LenProperties DEF TypeOK, TreeType
      <3> QED BY <3>1, <3>2, <3>3 DEF Object
    <2>6. SoaToSign(v) \in Serial
      <3>1. CASE published[v[1]] # 0
        <4>1. copies[v[1]][published[v[1]]] \in Content
          BY <2>2, <2>5, <3>1, LenProperties, ElementOfSeq DEF TypeOK, TreeType, Object
        <4> QED BY <2>2, <4>1, BlankType DEF SoaToSign, TypeOK, LoaderType, Content
      <3>2. CASE published[v[1]] = 0
        BY <2>2, <3>2, BlankType DEF SoaToSign, TypeOK, LoaderType, Content
      <3> QED BY <3>1, <3>2
    <2>7. SignerType' /\ ReferencesExist'
      <3>1. CASE SoaToSign(v) = 0
        <4>1. signer' = signer
          BY <1>3, <3>1 DEF SignStart
        <4> QED BY <2>4, <4>1 DEF TypeOK, SignerType, ReferencesExist, Object, treeVars
      <3>2. CASE SoaToSign(v) # 0
        <4> DEFINE new == [IdleSigner EXCEPT !.phase = "lookup",
                             !.version = <<v[1], SoaToSign(v)>>,
                             !.source = IF v[2] = 0 THEN published[v[1]] ELSE 0]
        <4>1. signer' = new
          BY <1>3, <3>2 DEF SignStart
        <4>2. <<v[1], SoaToSign(v)>> \in Version
          BY <2>2, <2>6 DEF Version
        <4>3. /\ new \in SignerRec
              /\ new.version[1] = v[1] /\ new.source \in {0, published[v[1]]}
              /\ new.target = 0 /\ new.seen = EmptyTree
          BY <1>2, <2>5, <4>2, IdleSignerType DEF Phase
        <4> HIDE DEF new
        <4>4. SignerType'
          BY <1>2, <4>1, <4>3 DEF SignerType
        <4>5. \A y \in Zones : 0 \in Object(y)'
          BY <2>4, LenProperties DEF TypeOK, TreeType, Object, treeVars
        <4>6. \A y \in Zones : Object(y)' = Object(y)
          BY <2>4 DEF Object, treeVars
        <4>7. ReferencesExist'
          BY <2>2, <2>4, <2>5, <4>1, <4>3, <4>5, <4>6
             DEF TypeOK, ReferencesExist, EmptyTree, treeVars
        <4> QED BY <4>4, <4>7
      <3> QED BY <3>1, <3>2
    <2> QED BY <2>3, <2>4, <2>7
        DEF TypeOK, CenterType, LoaderType, ReviewType, TreeType, loaderVars,
            centerVars, reviewVars, treeVars
  <1>4. CASE FindSignedZone
    <2>1. UNCHANGED <<loaderVars, centerVars, updates, queue, reviewVars, treeVars,
                      dropping, dead, up>>
      BY <1>4 DEF FindSignedZone
    <2>2. /\ SignerType'
          /\ signer'.version = signer.version /\ signer'.source = signer.source
          /\ signer'.target \in {signer.target, signed[z]}
          /\ signer'.seen \in {signer.seen, signed}
      BY <1>1, <1>2, <1>4 DEF TypeOK, TreeType, SignerType, FindSignedZone, Phase, Tree
    <2>3. \A y \in Zones : Object(y)' = Object(y)
      BY <2>1 DEF Object, treeVars
    <2>4. ReferencesExist'
      BY <1>1, <2>1, <2>2, <2>3 DEF TypeOK, ReferencesExist, treeVars
    <2> QED BY <2>1, <2>2, <2>4
        DEF TypeOK, CenterType, LoaderType, ChannelType, ReviewType, TreeType,
            loaderVars, centerVars, reviewVars, treeVars
  <1>5. CASE InsertSignedZone
    <2>1. UNCHANGED <<loaderVars, centerVars, updates, queue, reviewVars, published,
                      dropping, dead, up>>
      BY <1>5 DEF InsertSignedZone
    <2>2. /\ copies' \in [Zones -> Seq(Content)]
          /\ NextCopy(z) \in Object(z)'
          /\ \A y \in Zones : Object(y) \subseteq Object(y)'
      <3>1. copies' = [copies EXCEPT ![z] = Append(@, Blank)]
        BY <1>1, <1>5 DEF InsertSignedZone
      <3>2. copies \in [Zones -> Seq(Content)]
        BY DEF TypeOK, TreeType
      <3> QED BY <1>1, <3>1, <3>2, ObjectsOfMore
    <2>3. NextCopy(z) \in Nat
      BY <1>1, LenProperties DEF TypeOK, TreeType, NextCopy
    <2>4. /\ signed' \in Tree
          /\ \A y \in Zones : signed'[y] \in {signer.seen[y]} \/ (y = z /\ signed'[y] = NextCopy(z))
      BY <1>1, <1>2, <1>5, <2>3 DEF InsertSignedZone, Extended, Tree
    <2>5. /\ signer' \in SignerRec
          /\ signer'.version = signer.version /\ signer'.source = signer.source
          /\ signer'.target = NextCopy(z) /\ signer'.seen = EmptyTree
      BY <1>1, <1>2, <1>5, <2>3 DEF InsertSignedZone, Phase, Tree, EmptyTree
    <2>6. TreeType' /\ SignerType'
      BY <1>2, <2>1, <2>2, <2>4, <2>5 DEF TypeOK, TreeType, SignerType
    <2>7. \A y \in Zones : 0 \in Object(y)'
      BY <2>2, LenProperties DEF Object
    <2>8. ReferencesExist'
      BY <1>1, <2>1, <2>2, <2>4, <2>5, <2>7 DEF TypeOK, ReferencesExist, EmptyTree
    <2> QED BY <2>1, <2>6, <2>8
        DEF TypeOK, CenterType, LoaderType, ChannelType, ReviewType, loaderVars,
            centerVars, reviewVars
  <1>6. CASE Collect
    <2>1. UNCHANGED <<known, spent, loaderVars, updates, queue, reviewVars, treeVars,
                      dropping>>
      BY <1>6 DEF Collect
    <2>2. CenterType'
      BY <1>6, <2>1 DEF TypeOK, CenterType, Collect
    <2>3. \A y \in Zones : Object(y)' = Object(y) /\ 0 \in Object(y)
      BY <2>1, LenProperties DEF TypeOK, TreeType, Object, treeVars
    <2>4. SignerType' /\ ReferencesExist'
      <3>1. CASE known[z] # "ready"
        <4>1. signer' = IdleSigner
          BY <1>1, <1>6, <3>1 DEF Collect
        <4>2. signer'.version[1] \in Zones
          BY <4>1, IdleSignerType DEF Version
        <4> QED BY <2>1, <2>3, <4>1, <4>2, IdleSignerType
            DEF TypeOK, SignerType, ReferencesExist, EmptyTree, treeVars
      <3>2. CASE known[z] = "ready"
        <4> DEFINE b == IF signer.source = 0 THEN unsigned[z].body
                        ELSE copies[z][signer.source].body
        <4>1. b \in Serial
          <5>1. CASE signer.source # 0
            <6>1. signer.source \in 1 .. Len(copies[z])
              BY <1>1, <5>1 DEF TypeOK, TreeType, ReferencesExist, Object
            <6>2. copies[z][signer.source] \in Content
              BY <1>1, <6>1, ElementOfSeq DEF TypeOK, TreeType
            <6> QED BY <5>1, <6>2 DEF Content
          <5>2. CASE signer.source = 0
            BY <1>1, <5>2 DEF TypeOK, LoaderType, Content
          <5> QED BY <5>1, <5>2
        <4>2. signer' = [signer EXCEPT !.phase = "sign", !.body = b]
          BY <1>1, <1>6, <3>2 DEF Collect
        <4> HIDE DEF b
        <4>3. /\ signer' \in SignerRec
              /\ signer'.version = signer.version /\ signer'.source = signer.source
              /\ signer'.target = signer.target /\ signer'.seen = signer.seen
          BY <1>1, <1>2, <4>1, <4>2 DEF Phase
        <4> QED BY <1>1, <1>2, <2>1, <2>3, <4>3
            DEF TypeOK, SignerType, ReferencesExist, treeVars
      <3> QED BY <3>1, <3>2
    <2>5. dead' \subseteq Units /\ up' \in BOOLEAN
      BY <1>6 DEF TypeOK, Collect, Panic, Units
    <2> QED BY <2>1, <2>2, <2>4, <2>5
        DEF TypeOK, LoaderType, ChannelType, ReviewType, TreeType, loaderVars,
            reviewVars, treeVars
  <1>7. CASE SignFail
    <2>1. UNCHANGED <<loaderVars, centerVars, updates, queue, reviewVars, treeVars,
                      dropping, dead, up>> /\ signer' = IdleSigner
      BY <1>7 DEF SignFail
    <2>2. \A y \in Zones : Object(y)' = Object(y) /\ 0 \in Object(y)
      BY <2>1, LenProperties DEF TypeOK, TreeType, Object, treeVars
    <2>3. SignerType' /\ signer'.version[1] \in Zones
      BY <2>1, IdleSignerType DEF SignerType, Version
    <2>4. ReferencesExist'
      BY <2>1, <2>2, <2>3, IdleSignerType DEF TypeOK, ReferencesExist, EmptyTree, treeVars
    <2> QED BY <2>1, <2>3, <2>4
        DEF TypeOK, CenterType, LoaderType, ChannelType, ReviewType, TreeType,
            loaderVars, centerVars, reviewVars, treeVars
  <1>8. CASE SignCommit
    <2> DEFINE s == signer.version[2]
               content == [soa |-> s, body |-> signer.body]
    <2>1. /\ UNCHANGED <<loaderVars, centerVars, queue, reviewVars, signed, published,
                         dropping, dead, up>>
          /\ signer' = IdleSigner
      BY <1>8 DEF SignCommit
    <2>2. s \in Serial /\ content \in Content
      BY <1>1, <1>2 DEF Version, Content
    <2>3. ChannelType'
      BY <1>1, <1>8, <2>1, <2>2, PostType DEF TypeOK, ChannelType, SignCommit, UpdateKind
    <2>4. /\ copies' \in [Zones -> Seq(Content)]
          /\ \A y \in Zones : Object(y)' = Object(y) /\ 0 \in Object(y)
      <3> DEFINE c == [copies[z] EXCEPT ![signer.target] = content]
      <3>1. copies' = [copies EXCEPT ![z] = c]
        BY <1>1, <1>8 DEF SignCommit
      <3>2. CASE signer.target # 0
        <4>1. signer.target \in 1 .. Len(copies[z])
          BY <1>1, <3>2 DEF TypeOK, TreeType, ReferencesExist, Object
        <4>2. copies[z] \in Seq(Content)
          BY <1>1 DEF TypeOK, TreeType
        <4>3. c \in Seq(Content) /\ Len(c) = Len(copies[z])
          BY <2>2, <4>1, <4>2, ExceptSeq
        <4> HIDE DEF c
        <4>4. \A y \in Zones : Len(copies'[y]) = Len(copies[y]) /\ Len(copies[y]) \in Nat
          BY <1>1, <3>1, <4>3, LenProperties DEF TypeOK, TreeType
        <4> QED BY <1>1, <3>1, <4>3, <4>4 DEF TypeOK, TreeType, Object
      <3>3. CASE signer.target = 0
        <4>1. copies[z] \in Seq(Content)
          BY <1>1 DEF TypeOK, TreeType
        <4>2. c = copies[z]
          BY <3>3, <4>1, LenProperties
        <4> HIDE DEF c
        <4>3. copies' = copies
          BY <1>1, <3>1, <4>2 DEF TypeOK, TreeType
        <4> QED BY <4>3, LenProperties DEF TypeOK, TreeType, Object
      <3> QED BY <3>2, <3>3
    <2>5. TreeType' /\ SignerType' /\ signer'.version[1] \in Zones
      BY <2>1, <2>4, IdleSignerType DEF TypeOK, TreeType, SignerType, Version
    <2>6. ReferencesExist'
      BY <2>1, <2>4, <2>5, IdleSignerType DEF TypeOK, ReferencesExist, EmptyTree
    <2> QED BY <2>1, <2>3, <2>5, <2>6
        DEF TypeOK, CenterType, LoaderType, ReviewType, loaderVars, centerVars, reviewVars
  <1> QED BY <1>3, <1>4, <1>5, <1>6, <1>7, <1>8 DEF Signer

LEMMA PublishSwapType ==
  ASSUME TypeOK, PublishSwap
  PROVE  TypeOK'
  <1> DEFINE z == Head(queue["PS"])[1]
  <1>1. /\ "PS" \in Units
        /\ Head(queue["PS"]) \in Version
        /\ Tail(queue["PS"]) \in Seq(Version)
    BY HeadTailProperties DEF TypeOK, ChannelType, PublishSwap, Units
  <1>2. z \in Zones
    BY <1>1 DEF Version
  <1>3. ChannelType'
    BY <1>1 DEF TypeOK, ChannelType, PublishSwap
  <1>4. TreeType'
    <2>1. signed \in Tree /\ published \in Tree /\ dropping \in [on : BOOLEAN, tree : Tree]
      BY DEF TypeOK, TreeType
    <2>2. [published EXCEPT ![z] = signed[z]] \in Tree /\ [signed EXCEPT ![z] = 0] \in Tree
      BY <1>2, <2>1 DEF Tree
    <2>3. published' \in Tree /\ dropping' \in [on : BOOLEAN, tree : Tree]
      <3>1. CASE signed[z] = 0
        <4>1. published' = published /\ dropping' = dropping
          BY <3>1 DEF PublishSwap
        <4> QED BY <2>1, <4>1
      <3>2. CASE signed[z] # 0
        <4>1. /\ published' = [published EXCEPT ![z] = signed[z]]
              /\ dropping' = [on |-> TRUE, tree |-> [signed EXCEPT ![z] = 0]]
          BY <3>2 DEF PublishSwap
        <4> QED BY <2>2, <4>1
      <3> QED BY <3>1, <3>2
    <2>4. copies' = copies /\ signed' = signed
      BY DEF PublishSwap
    <2> QED BY <2>3, <2>4 DEF TypeOK, TreeType
  <1>5. /\ UNCHANGED <<loaderVars, centerVars, reviewVars, copies, signed, signer, dead, up>>
        /\ \A y \in Zones : Object(y)' = Object(y) /\ 0 \in Object(y)
    BY LenProperties DEF TypeOK, TreeType, PublishSwap, Object
  <1>6. \A y \in Zones : /\ published'[y] \in {published[y], signed[y]}
                         /\ dropping'.tree[y] \in {dropping.tree[y], signed[y], 0}
    BY <1>2 DEF TypeOK, TreeType, Tree, PublishSwap
  <1>7. ReferencesExist'
    BY <1>5, <1>6 DEF TypeOK, ReferencesExist, SignerType, Version
  <1> QED BY <1>3, <1>4, <1>5, <1>7
      DEF TypeOK, CenterType, LoaderType, ReviewType, SignerType, loaderVars,
          centerVars, reviewVars

LEMMA DropSignedType ==
  ASSUME TypeOK, DropSigned
  PROVE  TypeOK'
  <1>1. UNCHANGED <<loaderVars, centerVars, updates, queue, reviewVars, copies,
                    published, signer, dead, up>>
    BY DEF DropSigned
  <1>2. \A y \in Zones : Object(y)' = Object(y) /\ 0 \in Object(y)
    BY <1>1, LenProperties DEF TypeOK, TreeType, Object
  <1>3. TreeType'
    <2>1. EmptyTree \in Tree
      BY DEF EmptyTree, Tree
    <2>2. dropping.tree \in Tree
      BY DEF TypeOK, TreeType
    <2>3. signed' \in Tree /\ dropping' \in [on : BOOLEAN, tree : Tree]
      BY <2>1, <2>2 DEF DropSigned
    <2>4. copies' = copies /\ published' = published
      BY <1>1
    <2> QED BY <2>3, <2>4 DEF TypeOK, TreeType
  <1>4. ReferencesExist'
    BY <1>1, <1>2 DEF TypeOK, ReferencesExist, SignerType, Version, EmptyTree, DropSigned
  <1> QED BY <1>1, <1>3, <1>4
      DEF TypeOK, CenterType, LoaderType, ChannelType, ReviewType, SignerType,
          loaderVars, centerVars, reviewVars

LEMMA TypeStep == TypeOK /\ [Next]_vars => TypeOK'
  <1> SUFFICES ASSUME TypeOK, [Next]_vars PROVE TypeOK'
    OBVIOUS
  <1>1. CASE Operator
    BY <1>1, ZoneAddType, ZoneRemoveType DEF Operator
  <1>2. CASE Loader
    BY <1>2, LoaderStepType
  <1>3. CASE \E z \in Zones : Resign(z)
    BY <1>3, ResignType
  <1>4. CASE DirectUpdate
    BY <1>4, DirectUpdateType
  <1>5. CASE \E r \in Servers : SeekApproval(r)
    BY <1>5, SeekApprovalType
  <1>6. CASE Reviewer
    BY <1>6, ReviewerType
  <1>7. CASE Signer
    BY <1>7, SignerStepType
  <1>8. CASE PublishSwap \/ DropSigned
    BY <1>8, PublishSwapType, DropSignedType
  <1>9. CASE Client
    BY <1>9, ClientType
  <1>10. CASE UNCHANGED vars
    BY <1>10 DEF vars, TypeOK, CenterType, LoaderType, ChannelType, ReviewType,
       TreeType, SignerType, ReferencesExist, Object, loaderVars, centerVars,
       reviewVars, treeVars
  <1> QED BY <1>1, <1>2, <1>3, <1>4, <1>5, <1>6, <1>7, <1>8, <1>9, <1>10 DEF Next

\* Every variable keeps its type, and every reference into the signed zone objects
\* is to one that exists, whatever the units, the loader and the operator do.
THEOREM TypeCorrect == Spec => []TypeOK
  BY TypeInit, TypeStep, PTL DEF Spec
-----------------------------------------------------------------------------
(* Who changes what *)

\* The trees and the objects change in four kinds of steps.
LEMMA TreeSteps ==
  ASSUME [Next]_vars
  PROVE  \/ UNCHANGED <<copies, signed, published, dropping>>
         \/ InsertSignedZone \/ SignCommit \/ PublishSwap \/ DropSigned
<1>1. CASE Operator
  <2>1. ASSUME NEW z \in Zones, NEW p, NEW s, ZoneAdd(z, p, s)
        PROVE  UNCHANGED <<copies, signed, published, dropping>>
    BY <2>1 DEF ZoneAdd, treeVars
  <2>2. ASSUME NEW z \in Zones, ZoneRemove(z)
        PROVE  UNCHANGED <<copies, signed, published, dropping>>
    BY <2>2 DEF ZoneRemove, treeVars
  <2> QED BY <1>1, <2>1, <2>2 DEF Operator
<1>2. CASE Loader
  <2>1. ASSUME NEW z \in Zones, TransferBegin(z) \/ TransferFail(z)
        PROVE  UNCHANGED <<copies, signed, published, dropping>>
    BY <2>1 DEF TransferBegin, TransferFail, treeVars
  <2>2. ASSUME NEW z \in Zones, TransferCommit(z) \/ Activate(z)
        PROVE  UNCHANGED <<copies, signed, published, dropping>>
    BY <2>2 DEF TransferCommit, Activate, treeVars
  <2> QED BY <1>2, <2>1, <2>2 DEF Loader
<1>3. CASE DirectUpdate \/ \E z \in Zones : Resign(z)
  <2>1. CASE DirectUpdate
    BY <2>1 DEF DirectUpdate, treeVars
  <2>2. CASE \E z \in Zones : Resign(z)
    BY <2>2 DEF Resign, treeVars
  <2> QED BY <1>3, <2>1, <2>2
<1>4. CASE \E r \in Servers : SeekApproval(r)
  BY <1>4 DEF SeekApproval, treeVars
<1>5. CASE Reviewer
  <2>1. ASSUME NEW r, NEW v, NEW t, Approve(r, v, t)
        PROVE  UNCHANGED <<copies, signed, published, dropping>>
    BY <2>1 DEF Approve, treeVars
  <2>2. ASSUME NEW r, NEW v, NEW t, Reject(r, v, t)
        PROVE  UNCHANGED <<copies, signed, published, dropping>>
    BY <2>2 DEF Reject, treeVars
  <2> QED BY <1>5, <2>1, <2>2 DEF Reviewer
<1>6. CASE Client
  BY <1>6 DEF Client, HangUp, RequestDead, treeVars
<1>7. CASE SignStart \/ FindSignedZone
  BY <1>7 DEF SignStart, FindSignedZone, treeVars
<1>8. CASE Collect \/ SignFail
  BY <1>8 DEF Collect, SignFail, treeVars
<1>9. CASE UNCHANGED vars
  BY <1>9 DEF vars, treeVars
<1> QED BY <1>1, <1>2, <1>3, <1>4, <1>5, <1>6, <1>7, <1>8, <1>9 DEF Next, Signer

\* Only the steps of the signer change what it has in its hands.
LEMMA SignerSteps ==
  ASSUME [Next]_vars PROVE UNCHANGED signer \/ Signer
<1>1. CASE Operator
  BY <1>1 DEF Operator, ZoneAdd, ZoneRemove
<1>2. CASE Loader
  BY <1>2 DEF Loader, TransferBegin, TransferFail, TransferCommit, Activate
<1>3. CASE DirectUpdate
  BY <1>3 DEF DirectUpdate
<1>4. CASE \E z \in Zones : Resign(z)
  BY <1>4 DEF Resign
<1>5. CASE \E r \in Servers : SeekApproval(r)
  BY <1>5 DEF SeekApproval
<1>6. CASE Reviewer \/ Client
  BY <1>6 DEF Reviewer, Approve, Reject, Client, HangUp, RequestDead
<1>7. CASE PublishSwap \/ DropSigned \/ UNCHANGED vars
  BY <1>7 DEF PublishSwap, DropSigned, vars
<1> QED BY <1>1, <1>2, <1>3, <1>4, <1>5, <1>6, <1>7 DEF Next

-----------------------------------------------------------------------------
(* Reviews: what is approved is settled, and announced once *)

\* The two properties together are inductive: an answer finds its version not yet
\* approved because an approved version has no token, and a version gets tokens
\* only while it is not approved.
ReviewInv == ApprovalSettled /\ AnnouncedOnce

LEMMA SeekApprovalReview ==
  ASSUME TypeOK, ReviewInv, NEW r \in Servers, SeekApproval(r)
  PROVE  ReviewInv'
  <1>1. PICK v \in Version : v = Head(queue[r])
    BY HeadTailProperties DEF TypeOK, ChannelType, SeekApproval, Servers, Units
  <1>2. approved' = approved
    BY DEF SeekApproval
  <1>3. CASE AlreadyApproved(r, v)
    <2>1. pending' = pending /\ announced' = announced
      BY <1>1, <1>3 DEF SeekApproval
    <2> QED BY <1>2, <2>1 DEF ReviewInv, ApprovalSettled, AnnouncedOnce
  <1>4. CASE ~AlreadyApproved(r, v) /\ Hooks[r] = 0
    <2>1. pending' = pending /\ announced' = [announced EXCEPT ![r][v] = @ + 1]
      BY <1>1, <1>4 DEF SeekApproval, Announce
    <2>2. \A q \in Servers : q # r => announced'[q] = announced[q]
      BY <2>1 DEF TypeOK, ReviewType
    <2> QED BY <1>2, <1>4, <2>1, <2>2 DEF ReviewInv, ApprovalSettled, AnnouncedOnce
  <1>5. CASE ~AlreadyApproved(r, v) /\ Hooks[r] # 0
    <2>1. PICK tokens : pending' = [pending EXCEPT ![r][v] = tokens]
      BY <1>1, <1>5 DEF SeekApproval
    <2>2. announced' = announced
      BY <1>1, <1>5 DEF SeekApproval
    <2>3. v \notin approved[r]
      BY <1>5 DEF AlreadyApproved
    <2>4. \A q \in Servers, w \in Version :
            ~(q = r /\ w = v) => pending'[q][w] = pending[q][w]
      BY <2>1 DEF TypeOK, ReviewType
    <2>5. \A q \in Servers : \A w \in approved[q] : w \in Version
      BY DEF TypeOK, ReviewType
    <2> QED BY <1>2, <2>2, <2>3, <2>4, <2>5 DEF ReviewInv, ApprovalSettled, AnnouncedOnce
  <1> QED BY <1>3, <1>4, <1>5

LEMMA ReviewerReview ==
  ASSUME TypeOK, ReviewInv, Reviewer
  PROVE  ReviewInv'
  <1>1. PICK r \in Servers, v \in Version : \E t \in pending[r][v] :
          Approve(r, v, t) \/ Reject(r, v, t)
    BY DEF Reviewer
  <1>2. PICK t \in pending[r][v] : Approve(r, v, t) \/ Reject(r, v, t)
    BY <1>1
  <1>3. v \notin approved[r]
    BY <1>2 DEF ReviewInv, ApprovalSettled
  <1>4. PICK rest : pending' = [pending EXCEPT ![r][v] = rest] /\ rest \subseteq pending[r][v]
    BY <1>2 DEF Approve, Reject
  <1>5. \A q \in Servers, w \in Version :
          pending'[q][w] = IF q = r /\ w = v THEN rest ELSE pending[q][w]
    BY <1>4 DEF TypeOK, ReviewType
  <1>6. \A q \in Servers : approved[q] \subseteq Version
    BY DEF TypeOK, ReviewType
  <1>7. CASE approved' = approved /\ announced' = announced
    BY <1>3, <1>5, <1>6, <1>7 DEF ReviewInv, ApprovalSettled, AnnouncedOnce
  <1>8. CASE ~(approved' = approved /\ announced' = announced)
    <2>1. /\ approved' = [approved EXCEPT ![r] = @ \cup {v}]
          /\ announced' = [announced EXCEPT ![r][v] = @ + 1]
          /\ pending[r][v] = {t}
          /\ pending' = [pending EXCEPT ![r][v] = {}]
      BY <1>2, <1>8 DEF Approve, Reject, Announce
    <2>2. \A q \in Servers : approved'[q] = IF q = r THEN approved[r] \cup {v} ELSE approved[q]
      BY <2>1 DEF TypeOK, ReviewType
    <2>3. \A q \in Servers, w \in Version : announced'[q][w] =
            IF q = r /\ w = v THEN announced[r][v] + 1 ELSE announced[q][w]
      BY <2>1 DEF TypeOK, ReviewType
    <2>4. \A q \in Servers, w \in Version :
            pending'[q][w] = IF q = r /\ w = v THEN {} ELSE pending[q][w]
      BY <2>1 DEF TypeOK, ReviewType
    <2>5. ApprovalSettled'
      BY <1>6, <2>2, <2>4 DEF ReviewInv, ApprovalSettled
    <2>6. AnnouncedOnce'
      BY <1>3, <2>2, <2>3 DEF ReviewInv, AnnouncedOnce
    <2> QED BY <2>5, <2>6 DEF ReviewInv
  <1> QED BY <1>7, <1>8

LEMMA ReviewStep == TypeOK /\ ReviewInv /\ [Next]_vars => ReviewInv'
  <1> SUFFICES ASSUME TypeOK, ReviewInv, [Next]_vars PROVE ReviewInv'
    OBVIOUS
  <1>1. CASE \E r \in Servers : SeekApproval(r)
    BY <1>1, SeekApprovalReview
  <1>2. CASE Reviewer
    BY <1>2, ReviewerReview
  <1>3. CASE UNCHANGED reviewVars
    BY <1>3 DEF reviewVars, ReviewInv, ApprovalSettled, AnnouncedOnce
  <1>4. CASE Operator
    BY <1>3, <1>4 DEF Operator, ZoneAdd, ZoneRemove
  <1>5. CASE Loader
    BY <1>3, <1>5 DEF Loader, TransferBegin, TransferFail, TransferCommit, Activate
  <1>6. CASE (\E z \in Zones : Resign(z)) \/ DirectUpdate \/ PublishSwap \/ DropSigned
    BY <1>3, <1>6 DEF Resign, DirectUpdate, PublishSwap, DropSigned
  <1>7. CASE Signer
    BY <1>3, <1>7 DEF Signer, SignStart, FindSignedZone, InsertSignedZone, Collect,
       SignFail, SignCommit
  <1>8. CASE Client
    BY <1>3, <1>8 DEF Client, HangUp, RequestDead
  <1>9. CASE UNCHANGED vars
    BY <1>3, <1>9 DEF vars
  <1> QED BY <1>1, <1>2, <1>4, <1>5, <1>6, <1>7, <1>8, <1>9 DEF Next

LEMMA ReviewInit == Init => ReviewInv
  BY DEF Init, ReviewInv, ApprovalSettled, AnnouncedOnce

LEMMA ReviewCorrect == Spec => []ReviewInv
  BY TypeCorrect, ReviewInit, ReviewStep, PTL DEF Spec

\* A version that a review server has approved has no open token left.
THEOREM ApprovalsAreSettled == Spec => []ApprovalSettled
  BY ReviewCorrect, PTL DEF ReviewInv

\* With hooks, a review server announces a version once if it approved it, and
\* otherwise never.
THEOREM ApprovalsAreAnnouncedOnce == Spec => []AnnouncedOnce
  BY ReviewCorrect, PTL DEF ReviewInv
-----------------------------------------------------------------------------
(* No way around the reviews *)

\* The updates and the commands that only a passed review lets into the pipeline.
\* A signing command without a serial is a request to re-sign, which needs none.
UpdateGated(u) ==
  /\ u.kind \in {"UnsignedZoneApproved", "ZoneSigned", "SignedZoneApproved"}
       => Passed("RS", u.version[1])
  /\ u.kind = "SignedZoneApproved" => Passed("RS2", u.version[1])
  /\ u.kind = "ResignZone" => u.version[2] = 0

CommandGated(unit, v) ==
  /\ unit = "ZS" /\ v[2] # 0 => Passed("RS", v[1])
  /\ unit \in {"RS2", "PS"} => Passed("RS", v[1])
  /\ unit = "PS" => Passed("RS2", v[1])

\* What is under way past a review, at every stage of the pipeline, belongs to a
\* zone of which a version passed that review.
GateInv ==
  /\ updates \in Seq({u \in Update : UpdateGated(u)})
  /\ \A unit \in Units : queue[unit] \in Seq({v \in Version : CommandGated(unit, v)})
  /\ \A v \in Version : pending["RS2"][v] # {} => Passed("RS", v[1])
  /\ signer.phase # "idle" => Passed("RS", signer.version[1])
  /\ \A z \in Zones : published[z] # 0 => Passed("RS", z) /\ Passed("RS2", z)

LEMMA GateInit == Init => GateInv
  <1> SUFFICES ASSUME Init PROVE GateInv
    OBVIOUS
  <1>1. updates = <<>> /\ \A unit \in Units : queue[unit] = <<>>
    BY DEF Init
  <1>2. \A S : <<>> \in Seq(S)
    BY EmptySeq
  <1>3. \A v \in Version : pending["RS2"][v] = {}
    BY DEF Init, Servers
  <1>4. signer.phase = "idle" /\ \A z \in Zones : published[z] = 0
    BY DEF Init, IdleSigner, EmptyTree
  <1> QED BY <1>1, <1>2, <1>3, <1>4 DEF GateInv

\* Announcements are never taken back, so that what passed a review stays passed
\* and what was gated stays gated.
LEMMA GateMonotone ==
  ASSUME TypeOK, GateInv,
         \A r \in Servers, v \in Version : announced[r][v] > 0 => announced'[r][v] > 0
  PROVE  /\ \A r \in Servers, z \in Zones : Passed(r, z) => Passed(r, z)'
         /\ updates \in Seq({u \in Update : UpdateGated(u)'})
         /\ \A unit \in Units : queue[unit] \in Seq({v \in Version : CommandGated(unit, v)'})
  <1>1. \A r \in Servers, z \in Zones : Passed(r, z) => Passed(r, z)'
    BY DEF Passed, Version
  <1>2. \A u \in Update : UpdateGated(u) => UpdateGated(u)'
    BY <1>1 DEF UpdateGated, Update, Version, Servers
  <1>3. \A unit \in Units, v \in Version : CommandGated(unit, v) => CommandGated(unit, v)'
    BY <1>1 DEF CommandGated, Version, Servers
  <1>4. updates \in Seq({u \in Update : UpdateGated(u)'})
    BY <1>2, SeqMonotonic DEF GateInv
  <1>5. ASSUME NEW unit \in Units
        PROVE  queue[unit] \in Seq({v \in Version : CommandGated(unit, v)'})
    BY <1>3, <1>5, SeqMonotonic DEF GateInv
  <1> QED BY <1>1, <1>4, <1>5

\* A step that posts gated updates, takes from the queues, and leaves the reviews,
\* the signer and the published tree alone.
LEMMA GatePost ==
  ASSUME TypeOK, GateInv, NEW new \in Seq({u \in Update : UpdateGated(u)}),
         updates' = updates \o new,
         UNCHANGED <<queue, reviewVars, published>>,
         signer'.phase # "idle" => Passed("RS", signer'.version[1])
  PROVE  GateInv'
  <1>1. \A r, z : Passed(r, z)' <=> Passed(r, z)
    BY DEF Passed, reviewVars
  <1>2. \A u : UpdateGated(u)' <=> UpdateGated(u)
    BY <1>1 DEF UpdateGated
  <1>3. \A unit, v : CommandGated(unit, v)' <=> CommandGated(unit, v)
    BY <1>1 DEF CommandGated
  <1>4. updates' \in Seq({u \in Update : UpdateGated(u)})
    BY ConcatProperties DEF GateInv
  <1>5. {u \in Update : UpdateGated(u)'} = {u \in Update : UpdateGated(u)}
    BY <1>2
  <1>6. \A unit : {v \in Version : CommandGated(unit, v)'} = {v \in Version : CommandGated(unit, v)}
    BY <1>3
  <1>7. queue' = queue /\ pending' = pending /\ published' = published
    BY DEF reviewVars
  <1> QED BY <1>1, <1>4, <1>5, <1>6, <1>7 DEF GateInv

LEMMA GateOperator ==
  ASSUME TypeOK, GateInv, Operator
  PROVE  GateInv'
  <1> DEFINE Gated == {u \in Update : UpdateGated(u)}
  <1>1. PICK z \in Zones : (\E p \in {"bare", "ready"}, s \in Serial : ZoneAdd(z, p, s))
                           \/ ZoneRemove(z)
    BY DEF Operator
  <1>2. \A s \in Serial : /\ Msg("Changed", z, s) \in Gated
                          /\ Msg("UnsignedZoneUpdated", z, s) \in Gated
    <2> SUFFICES ASSUME NEW s \in Serial
                 PROVE  /\ Msg("Changed", z, s) \in Gated
                        /\ Msg("UnsignedZoneUpdated", z, s) \in Gated
      OBVIOUS
    <2>1. Msg("Changed", z, s) \in Update /\ Msg("UnsignedZoneUpdated", z, s) \in Update
      BY MsgType DEF UpdateKind
    <2>2. Msg("Changed", z, s).kind = "Changed"
          /\ Msg("UnsignedZoneUpdated", z, s).kind = "UnsignedZoneUpdated"
      BY DEF Msg
    <2> QED BY <2>1, <2>2 DEF UpdateGated
  <1> HIDE DEF Gated
  <1>3. CASE ZoneRemove(z)
    <2>1. updates' = updates \o <<Msg("Changed", z, 0)>>
      BY <1>3, MsgType, BlankType, AppendIsConcat
         DEF ZoneRemove, Post, TypeOK, ChannelType, UpdateKind
    <2>2. <<Msg("Changed", z, 0)>> \in Seq(Gated)
      BY <1>2, BlankType
    <2>3. UNCHANGED <<queue, reviewVars, published, signer>>
      BY <1>3 DEF ZoneRemove, treeVars
    <2>4. signer'.phase # "idle" => Passed("RS", signer'.version[1])
      BY <2>3 DEF GateInv
    <2> QED BY <2>1, <2>2, <2>3, <2>4, GatePost DEF Gated
  <1>4. ASSUME NEW p \in {"bare", "ready"}, NEW s \in Serial, ZoneAdd(z, p, s)
        PROVE  GateInv'
    <2> DEFINE loaded == IF s = 0 THEN <<>> ELSE <<Msg("UnsignedZoneUpdated", z, s)>>
    <2>1. ChangesOfAdd(z, p) \in Seq(Gated) /\ loaded \in Seq(Gated)
      BY <1>2, BlankType DEF ChangesOfAdd
    <2>2. ChangesOfAdd(z, p) \o loaded \in Seq(Gated)
      BY <2>1, ConcatProperties
    <2>3. updates' = updates \o (ChangesOfAdd(z, p) \o loaded)
      <3>1. updates' = updates \o ChangesOfAdd(z, p) \o loaded
        BY <1>4 DEF ZoneAdd
      <3>2. Gated \subseteq Update
        BY DEF Gated
      <3>3. ChangesOfAdd(z, p) \in Seq(Update) /\ loaded \in Seq(Update)
        BY <2>1, <3>2, SeqMonotonic
      <3>4. updates \in Seq(Update)
        BY DEF TypeOK, ChannelType
      <3> HIDE DEF loaded
      <3> QED BY <3>1, <3>3, <3>4, TwoPosts
    <2>4. UNCHANGED <<queue, reviewVars, published, signer>>
      BY <1>4 DEF ZoneAdd, treeVars
    <2>5. signer'.phase # "idle" => Passed("RS", signer'.version[1])
      BY <2>4 DEF GateInv
    <2> QED BY <2>2, <2>3, <2>4, <2>5, GatePost DEF Gated
  <1> QED BY <1>1, <1>3, <1>4

\* Steps that post at most one update, a gated one.
LEMMA GatePostOne ==
  ASSUME TypeOK, GateInv, NEW u \in Update, UpdateGated(u),
         updates' = updates \/ updates' = Append(updates, u),
         UNCHANGED <<queue, reviewVars, published>>,
         signer'.phase # "idle" => Passed("RS", signer'.version[1])
  PROVE  GateInv'
  <1>1. updates \in Seq(Update)
    BY DEF TypeOK, ChannelType
  <1>2. CASE updates' = updates
    <2>1. updates' = updates \o <<>>
      BY <1>1, <1>2, ConcatEmptySeq
    <2>2. <<>> \in Seq({w \in Update : UpdateGated(w)})
      BY EmptySeq
    <2> QED BY <2>1, <2>2, GatePost
  <1>3. CASE updates' = Append(updates, u)
    <2>1. updates' = updates \o <<u>>
      BY <1>1, <1>3, AppendIsConcat
    <2>2. <<u>> \in Seq({w \in Update : UpdateGated(w)})
      OBVIOUS
    <2> QED BY <2>1, <2>2, GatePost
  <1> QED BY <1>2, <1>3

LEMMA GateLoader ==
  ASSUME TypeOK, GateInv, Loader \/ \E z \in Zones : Resign(z)
  PROVE  GateInv'
  <1>1. PICK z \in Zones : TransferBegin(z) \/ TransferFail(z) \/ TransferCommit(z)
                           \/ Activate(z) \/ Resign(z)
    BY DEF Loader
  <1>2. UNCHANGED <<queue, reviewVars, published, signer>>
    BY <1>1 DEF TransferBegin, TransferFail, TransferCommit, Activate, Resign, treeVars
  <1>3. signer'.phase # "idle" => Passed("RS", signer'.version[1])
    BY <1>2 DEF GateInv
  <1>4. PICK u \in Update : UpdateGated(u) /\ (updates' = updates \/ updates' = Append(updates, u))
    <2>1. incoming[z] \in Serial
      BY DEF TypeOK, LoaderType
    <2>2. /\ Msg("UnsignedZoneUpdated", z, incoming[z]) \in Update
          /\ Msg("ResignZone", z, 0) \in Update
      BY <2>1, MsgType, BlankType DEF UpdateKind
    <2>3. /\ UpdateGated(Msg("UnsignedZoneUpdated", z, incoming[z]))
          /\ UpdateGated(Msg("ResignZone", z, 0))
      BY DEF UpdateGated, Msg
    <2>4. \/ updates' = updates
          \/ updates' = Append(updates, Msg("UnsignedZoneUpdated", z, incoming[z]))
          \/ updates' = Append(updates, Msg("ResignZone", z, 0))
      BY <1>1 DEF TransferBegin, TransferFail, TransferCommit, Activate, Resign, Post
    <2> QED BY <2>2, <2>3, <2>4
  <1> QED BY <1>2, <1>3, <1>4, GatePostOne

LEMMA GateDirectUpdate ==
  ASSUME TypeOK, GateInv, DirectUpdate
  PROVE  GateInv'
  <1> DEFINE Gated == {u \in Update : UpdateGated(u)}
             Commands(unit) == {v \in Version : CommandGated(unit, v)}
  <1>1. UNCHANGED <<announced, pending, published, signer>>
    BY DEF DirectUpdate, reviewVars, treeVars
  <1>2. PICK u : u = Head(updates) /\ u \in Gated /\ updates' = Tail(updates) /\ Tail(updates) \in Seq(Gated)
    BY HeadTailProperties DEF GateInv, DirectUpdate
  <1>3. \A unit \in Units : queue'[unit] \in Seq(Commands(unit))
    <2>1. CASE u.kind = "Changed"
      BY <1>2, <2>1 DEF DirectUpdate, GateInv
    <2>2. CASE u.kind # "Changed"
      <3>1. Target(u.kind) \in Units /\ u.version \in Version
        BY <1>2, <2>2 DEF Update, UpdateKind, Target, Units
      <3>2. u.version \in Commands(Target(u.kind))
        BY <1>2, <2>2, <3>1 DEF Update, UpdateKind, Target, UpdateGated, CommandGated
      <3>3. queue' = [queue EXCEPT ![Target(u.kind)] = Append(@, u.version)]
        BY <1>2, <2>2 DEF DirectUpdate
      <3>4. \A unit \in Units : queue'[unit] =
              IF unit = Target(u.kind) THEN Append(queue[unit], u.version) ELSE queue[unit]
        BY <3>1, <3>3 DEF TypeOK, ChannelType
      <3>5. \A unit \in Units : queue[unit] \in Seq(Commands(unit))
        BY DEF GateInv
      <3> HIDE DEF Commands
      <3>6. Append(queue[Target(u.kind)], u.version) \in Seq(Commands(Target(u.kind)))
        BY <3>1, <3>2, <3>5, AppendProperties
      <3> QED BY <3>4, <3>5, <3>6
    <2> QED BY <2>1, <2>2
  <1>4. \A r, z : Passed(r, z)' <=> Passed(r, z)
    BY <1>1 DEF Passed
  <1>5. \A w : UpdateGated(w)' <=> UpdateGated(w)
    BY <1>4 DEF UpdateGated
  <1>6. \A unit, v : CommandGated(unit, v)' <=> CommandGated(unit, v)
    BY <1>4 DEF CommandGated
  <1>7. /\ {w \in Update : UpdateGated(w)'} = Gated
        /\ \A unit : {v \in Version : CommandGated(unit, v)'} = Commands(unit)
    BY <1>5, <1>6
  <1> QED BY <1>1, <1>2, <1>3, <1>4, <1>7 DEF GateInv

LEMMA AnnouncedGrows ==
  ASSUME TypeOK, NEW r \in Servers, NEW v \in Version,
         announced' = announced \/ announced' = [announced EXCEPT ![r][v] = @ + 1]
  PROVE  \A q \in Servers, w \in Version : announced[q][w] > 0 => announced'[q][w] > 0
  <1>1. \A q \in Servers, w \in Version : announced[q][w] \in Nat
    BY DEF TypeOK, ReviewType
  <1>2. CASE announced' = [announced EXCEPT ![r][v] = @ + 1]
    <2>1. \A q \in Servers, w \in Version : announced'[q][w] =
            IF q = r /\ w = v THEN announced[q][w] + 1 ELSE announced[q][w]
      BY <1>2 DEF TypeOK, ReviewType
    <2> QED BY <1>1, <2>1
  <1> QED BY <1>2

LEMMA GateSeekApproval ==
  ASSUME TypeOK, GateInv, NEW r \in Servers, SeekApproval(r)
  PROVE  GateInv'
  <1>1. PICK v \in Version : v = Head(queue[r]) /\ CommandGated(r, v)
    BY HeadTailProperties DEF GateInv, SeekApproval, Servers, Units
  <1>2. \A q \in Servers, w \in Version : announced[q][w] > 0 => announced'[q][w] > 0
    <2>1. announced' = announced \/ announced' = [announced EXCEPT ![r][v] = @ + 1]
      BY <1>1 DEF SeekApproval, Announce
    <2> QED BY <2>1, AnnouncedGrows
  <1>3. /\ \A q \in Servers, z \in Zones : Passed(q, z) => Passed(q, z)'
        /\ updates \in Seq({u \in Update : UpdateGated(u)'})
        /\ \A unit \in Units : queue[unit] \in Seq({w \in Version : CommandGated(unit, w)'})
    BY <1>2, GateMonotone
  <1>4. UNCHANGED <<published, signer>>
    BY DEF SeekApproval, treeVars
  <1>5. \A unit \in Units : queue'[unit] \in Seq({w \in Version : CommandGated(unit, w)'})
    <2>1. r \in Units /\ queue[r] # <<>> /\ queue' = [queue EXCEPT ![r] = Tail(@)]
      BY DEF SeekApproval, Servers, Units
    <2>2. \A unit \in Units : queue'[unit] = IF unit = r THEN Tail(queue[r]) ELSE queue[unit]
      BY <2>1 DEF TypeOK, ChannelType
    <2>3. Tail(queue[r]) \in Seq({w \in Version : CommandGated(r, w)'})
      BY <1>3, <2>1, HeadTailProperties
    <2> QED BY <1>3, <2>2, <2>3
  <1>6. updates' \in Seq({u \in Update : UpdateGated(u)'})
    <2>1. CASE updates' = updates
      BY <1>3, <2>1
    <2>2. CASE updates' # updates
      <3> DEFINE u == [kind |-> Approval(r), version |-> v]
      <3>1. /\ updates' = Append(updates, u)
            /\ announced' = [announced EXCEPT ![r][v] = @ + 1]
        BY <1>1, <2>2 DEF SeekApproval, Announce
      <3>2. announced'[r][v] > 0
        BY <3>1 DEF TypeOK, ReviewType
      <3>3. v[1] \in Zones /\ v[2] \in Serial /\ v = <<v[1], v[2]>>
        BY DEF Version
      <3>4. Passed(r, v[1])'
        BY <3>2, <3>3 DEF Passed
      <3>5. r = "RS2" => Passed("RS", v[1])'
        BY <1>1, <1>3, <3>3 DEF CommandGated, Servers
      <3>6. u \in Update /\ UpdateGated(u)'
        BY <3>4, <3>5 DEF Approval, Update, UpdateKind, UpdateGated, Servers
      <3> HIDE DEF u
      <3> QED BY <1>3, <3>1, <3>6, AppendProperties
    <2> QED BY <2>1, <2>2
  <1>7. \A w \in Version : pending'["RS2"][w] # {} => Passed("RS", w[1])'
    <2> SUFFICES ASSUME NEW w \in Version, pending'["RS2"][w] # {}
                 PROVE  Passed("RS", w[1])'
      OBVIOUS
    <2>1. w[1] \in Zones /\ "RS" \in Servers /\ "RS2" \in Servers
      BY DEF Version, Servers
    <2>2. CASE r = "RS2" /\ w = v
      BY <1>1, <1>3, <2>1, <2>2 DEF CommandGated
    <2>3. CASE ~(r = "RS2" /\ w = v)
      <3>1. \/ pending' = pending
            \/ \E tokens : pending' = [pending EXCEPT ![r][v] = tokens]
        BY <1>1 DEF SeekApproval
      <3>2. pending'["RS2"][w] = pending["RS2"][w]
        <4>1. CASE \E tokens : pending' = [pending EXCEPT ![r][v] = tokens]
          <5>1. PICK tokens : pending' = [pending EXCEPT ![r][v] = tokens]
            BY <4>1
          <5>2. \A q \in Servers, x \in Version :
                  ~(q = r /\ x = v) => pending'[q][x] = pending[q][x]
            BY <5>1 DEF TypeOK, ReviewType
          <5> QED BY <2>1, <2>3, <5>2
        <4> QED BY <3>1, <4>1
      <3> QED BY <1>3, <2>1, <3>2 DEF GateInv
    <2> QED BY <2>2, <2>3
  <1>8. signer.version[1] \in Zones
    BY DEF TypeOK, SignerType, Version
  <1>9. (signer.phase # "idle" => Passed("RS", signer.version[1]))'
    BY <1>3, <1>4, <1>8 DEF GateInv, Servers
  <1>10. \A z \in Zones : published'[z] # 0 => Passed("RS", z)' /\ Passed("RS2", z)'
    BY <1>3, <1>4 DEF GateInv, Servers
  <1> QED BY <1>5, <1>6, <1>7, <1>9, <1>10 DEF GateInv

LEMMA GateReviewer ==
  ASSUME TypeOK, GateInv, Reviewer
  PROVE  GateInv'
  <1>1. PICK r \in Servers, v \in Version : \E t \in pending[r][v] :
          Approve(r, v, t) \/ Reject(r, v, t)
    BY DEF Reviewer
  <1>2. PICK t \in pending[r][v] : Approve(r, v, t) \/ Reject(r, v, t)
    BY <1>1
  <1>3. \A q \in Servers, w \in Version : announced[q][w] > 0 => announced'[q][w] > 0
    <2>1. announced' = announced \/ announced' = [announced EXCEPT ![r][v] = @ + 1]
      BY <1>2 DEF Approve, Reject, Announce
    <2> QED BY <2>1, AnnouncedGrows
  <1>4. /\ \A q \in Servers, z \in Zones : Passed(q, z) => Passed(q, z)'
        /\ updates \in Seq({u \in Update : UpdateGated(u)'})
        /\ \A unit \in Units : queue[unit] \in Seq({w \in Version : CommandGated(unit, w)'})
    BY <1>3, GateMonotone
  <1>5. UNCHANGED <<queue, published, signer>>
    BY <1>2 DEF Approve, Reject, treeVars
  <1>6. v[1] \in Zones /\ v[2] \in Serial /\ v = <<v[1], v[2]>>
    BY DEF Version
  <1>7. r = "RS2" => Passed("RS", v[1])
    BY <1>2 DEF GateInv
  <1>8. updates' \in Seq({u \in Update : UpdateGated(u)'})
    <2>1. CASE updates' = updates
      BY <1>4, <2>1
    <2>2. CASE updates' # updates
      <3> DEFINE u == [kind |-> Approval(r), version |-> v]
      <3>1. /\ updates' = Append(updates, u)
            /\ announced' = [announced EXCEPT ![r][v] = @ + 1]
        BY <1>2, <2>2 DEF Approve, Reject, Announce
      <3>2. announced'[r][v] > 0
        BY <3>1 DEF TypeOK, ReviewType
      <3>3. Passed(r, v[1])'
        BY <1>6, <3>2 DEF Passed
      <3>4. r = "RS2" => Passed("RS", v[1])'
        BY <1>4, <1>6, <1>7 DEF Servers
      <3>5. u \in Update /\ UpdateGated(u)'
        BY <3>3, <3>4 DEF Approval, Update, UpdateKind, UpdateGated, Servers
      <3> HIDE DEF u
      <3> QED BY <1>4, <3>1, <3>5, AppendProperties
    <2> QED BY <2>1, <2>2
  <1>9. \A w \in Version : pending'["RS2"][w] # {} => Passed("RS", w[1])'
    <2> SUFFICES ASSUME NEW w \in Version, pending'["RS2"][w] # {}
                 PROVE  Passed("RS", w[1])'
      OBVIOUS
    <2>1. w[1] \in Zones /\ "RS" \in Servers /\ "RS2" \in Servers
      BY DEF Version, Servers
    <2>2. PICK rest : pending' = [pending EXCEPT ![r][v] = rest] /\ rest \subseteq pending[r][v]
      BY <1>2 DEF Approve, Reject
    <2>3. pending["RS2"][w] # {}
      BY <2>1, <2>2 DEF TypeOK, ReviewType
    <2> QED BY <1>4, <2>1, <2>3 DEF GateInv
  <1>10. signer.version[1] \in Zones
    BY DEF TypeOK, SignerType, Version
  <1>11. (signer.phase # "idle" => Passed("RS", signer.version[1]))'
    BY <1>4, <1>5, <1>10 DEF GateInv, Servers
  <1>12. \A z \in Zones : published'[z] # 0 => Passed("RS", z)' /\ Passed("RS2", z)'
    BY <1>4, <1>5 DEF GateInv, Servers
  <1> QED BY <1>4, <1>5, <1>8, <1>9, <1>11, <1>12 DEF GateInv

\* A step that takes a command from the queue of one unit and announces nothing.
LEMMA GateTake ==
  ASSUME TypeOK, GateInv, NEW unit \in Units, queue[unit] # <<>>,
         queue' = [queue EXCEPT ![unit] = Tail(@)],
         UNCHANGED <<updates, reviewVars>>,
         signer'.phase # "idle" => Passed("RS", signer'.version[1]),
         \A z \in Zones : published'[z] # 0 => Passed("RS", z) /\ Passed("RS2", z)
  PROVE  GateInv'
  <1>1. \A r, z : Passed(r, z)' <=> Passed(r, z)
    BY DEF Passed, reviewVars
  <1>2. /\ \A u : UpdateGated(u)' <=> UpdateGated(u)
        /\ \A q, v : CommandGated(q, v)' <=> CommandGated(q, v)
    BY <1>1 DEF UpdateGated, CommandGated
  <1>3. /\ {u \in Update : UpdateGated(u)'} = {u \in Update : UpdateGated(u)}
        /\ \A q : {v \in Version : CommandGated(q, v)'} = {v \in Version : CommandGated(q, v)}
    BY <1>2
  <1>4. \A q \in Units : queue'[q] = IF q = unit THEN Tail(queue[unit]) ELSE queue[q]
    BY DEF TypeOK, ChannelType
  <1>5. Tail(queue[unit]) \in Seq({v \in Version : CommandGated(unit, v)})
    BY HeadTailProperties DEF GateInv
  <1>6. \A q \in Units : queue'[q] \in Seq({v \in Version : CommandGated(q, v)})
    BY <1>4, <1>5 DEF GateInv
  <1>7. updates' = updates /\ pending' = pending
    BY DEF reviewVars
  <1> QED BY <1>1, <1>3, <1>6, <1>7 DEF GateInv

LEMMA GateSigner ==
  ASSUME TypeOK, GateInv, Signer
  PROVE  GateInv'
  <1> DEFINE z == signer.version[1]
  <1>1. CASE SignStart
    <2>1. PICK v \in Version : v = Head(queue["ZS"]) /\ CommandGated("ZS", v)
      BY <1>1, HeadTailProperties DEF GateInv, SignStart, Units
    <2>2. v[1] \in Zones
      BY DEF Version
    <2>3. signer'.phase # "idle" => Passed("RS", signer'.version[1])
      <3>1. CASE SoaToSign(v) = 0
        BY <1>1, <2>1, <3>1 DEF SignStart, GateInv
      <3>2. CASE SoaToSign(v) # 0
        <4>1. Passed("RS", v[1])
          BY <2>1, <2>2, <3>2 DEF SoaToSign, CommandGated, GateInv
        <4>2. signer'.version = <<v[1], SoaToSign(v)>>
          BY <1>1, <2>1, <3>2, IdleSignerType DEF SignStart
        <4> QED BY <4>1, <4>2
      <3> QED BY <3>1, <3>2
    <2>4. /\ "ZS" \in Units /\ queue["ZS"] # <<>>
          /\ queue' = [queue EXCEPT !["ZS"] = Tail(@)]
          /\ UNCHANGED <<updates, reviewVars, published>>
      BY <1>1 DEF SignStart, Units, treeVars
    <2>5. \A y \in Zones : published'[y] # 0 => Passed("RS", y) /\ Passed("RS2", y)
      BY <2>4 DEF GateInv
    <2> QED BY <2>3, <2>4, <2>5, GateTake
  <1>2. CASE SignCommit
    <2>1. Passed("RS", z)
      BY <1>2 DEF GateInv, SignCommit
    <2>2. z \in Zones /\ signer.version[2] \in Serial
      BY DEF TypeOK, SignerType, Version
    <2>3. /\ Msg("ZoneSigned", z, signer.version[2]) \in Update
          /\ UpdateGated(Msg("ZoneSigned", z, signer.version[2]))
      BY <2>1, <2>2, MsgType DEF UpdateKind, UpdateGated, Msg
    <2>4. updates' = Append(updates, Msg("ZoneSigned", z, signer.version[2]))
      BY <1>2 DEF SignCommit, Post
    <2>5. UNCHANGED <<queue, reviewVars, published>> /\ signer' = IdleSigner
      BY <1>2 DEF SignCommit
    <2>6. signer'.phase = "idle"
      BY <2>5 DEF IdleSigner
    <2> QED BY <2>3, <2>4, <2>5, <2>6, GatePostOne
  <1>3. CASE FindSignedZone \/ InsertSignedZone \/ Collect \/ SignFail
    <2>1. UNCHANGED <<updates, queue, reviewVars, published>>
      BY <1>3 DEF FindSignedZone, InsertSignedZone, Collect, SignFail, treeVars
    <2>2. \/ signer'.phase = "idle"
          \/ signer'.version = signer.version /\ signer.phase \in {"lookup", "insert", "collect"}
      <3>1. CASE FindSignedZone
        BY <3>1 DEF FindSignedZone, TypeOK, SignerType
      <3>2. CASE InsertSignedZone
        BY <3>2 DEF InsertSignedZone, TypeOK, SignerType
      <3>3. CASE Collect
        BY <3>3 DEF Collect, IdleSigner, TypeOK, SignerType
      <3>4. CASE SignFail
        BY <3>4 DEF SignFail, IdleSigner
      <3> QED BY <1>3, <3>1, <3>2, <3>3, <3>4
    <2>3. signer'.phase # "idle" => Passed("RS", signer'.version[1])
      BY <2>2 DEF GateInv
    <2>4. <<>> \in Seq({u \in Update : UpdateGated(u)}) /\ updates' = updates \o <<>>
      BY <2>1, EmptySeq, ConcatEmptySeq DEF TypeOK, ChannelType
    <2> QED BY <2>1, <2>3, <2>4, GatePost
  <1> QED BY <1>1, <1>2, <1>3 DEF Signer

LEMMA GatePublish ==
  ASSUME TypeOK, GateInv, PublishSwap \/ DropSigned
  PROVE  GateInv'
  <1>1. CASE PublishSwap
    <2>1. PICK v \in Version : v = Head(queue["PS"]) /\ CommandGated("PS", v)
      BY <1>1, HeadTailProperties DEF GateInv, PublishSwap, Units
    <2>2. /\ "PS" \in Units /\ queue["PS"] # <<>>
          /\ queue' = [queue EXCEPT !["PS"] = Tail(@)]
          /\ UNCHANGED <<updates, reviewVars, signer>>
      BY <1>1 DEF PublishSwap, Units
    <2>3. \A y \in Zones : y # v[1] => published'[y] = published[y]
      BY <1>1, <2>1 DEF PublishSwap, TypeOK, TreeType, Tree
    <2>4. \A y \in Zones : published'[y] # 0 => Passed("RS", y) /\ Passed("RS2", y)
      BY <2>1, <2>3 DEF GateInv, CommandGated
    <2>5. signer'.phase # "idle" => Passed("RS", signer'.version[1])
      BY <2>2 DEF GateInv
    <2> QED BY <2>2, <2>4, <2>5, GateTake
  <1>2. CASE DropSigned
    <2>1. UNCHANGED <<updates, queue, reviewVars, published, signer>>
      BY <1>2 DEF DropSigned
    <2>2. <<>> \in Seq({u \in Update : UpdateGated(u)}) /\ updates' = updates \o <<>>
      BY <2>1, EmptySeq, ConcatEmptySeq DEF TypeOK, ChannelType
    <2>3. signer'.phase # "idle" => Passed("RS", signer'.version[1])
      BY <2>1 DEF GateInv
    <2> QED BY <2>1, <2>2, <2>3, GatePost
  <1> QED BY <1>1, <1>2

LEMMA GateStep == TypeOK /\ GateInv /\ [Next]_vars => GateInv'
  <1> SUFFICES ASSUME TypeOK, GateInv, [Next]_vars PROVE GateInv'
    OBVIOUS
  <1>1. CASE Operator
    BY <1>1, GateOperator
  <1>2. CASE Loader \/ \E z \in Zones : Resign(z)
    BY <1>2, GateLoader
  <1>3. CASE DirectUpdate
    BY <1>3, GateDirectUpdate
  <1>4. CASE \E r \in Servers : SeekApproval(r)
    BY <1>4, GateSeekApproval
  <1>5. CASE Reviewer
    BY <1>5, GateReviewer
  <1>6. CASE Signer
    BY <1>6, GateSigner
  <1>7. CASE PublishSwap \/ DropSigned
    BY <1>7, GatePublish
  <1>8. CASE Client \/ UNCHANGED vars
    <2>1. UNCHANGED <<updates, queue, reviewVars, published, signer>>
      BY <1>8 DEF Client, HangUp, RequestDead, vars, treeVars
    <2>2. <<>> \in Seq({u \in Update : UpdateGated(u)}) /\ updates' = updates \o <<>>
      BY <2>1, EmptySeq, ConcatEmptySeq DEF TypeOK, ChannelType
    <2>3. signer'.phase # "idle" => Passed("RS", signer'.version[1])
      BY <2>1 DEF GateInv
    <2> QED BY <2>1, <2>2, <2>3, GatePost
  <1> QED BY <1>1, <1>2, <1>3, <1>4, <1>5, <1>6, <1>7, <1>8 DEF Next

\* No zone is published of which not both an unsigned and a signed version were
\* announced as approved.
THEOREM NoWayAroundReview == Spec => []PublishedPassedReview
  <1>1. GateInv => PublishedPassedReview
    BY DEF GateInv, PublishedPassedReview, Servers
  <1> QED BY <1>1, TypeCorrect, GateInit, GateStep, PTL DEF Spec
-----------------------------------------------------------------------------
(* Everything under way comes after a load *)

\* What the loader knows of a zone fits together: what is served, transferred or
\* has a serial is registered, and a zone file is loaded when it is registered.
LoaderFlow ==
  \A z \in Zones :
    /\ z \in active => latest[z] # 0
    /\ latest[z] # 0 => z \in registered
    /\ z \in registered \cap FileZones => latest[z] # 0
    /\ incoming[z] # 0 => z \in registered \ FileZones /\ incoming[z] = latest[z] + 1

UnderWay(u) == u.kind = "Changed" \/ latest[u.version[1]] # 0
Loaded(v) == latest[v[1]] # 0

\* No update, command, review or signing operation names a zone of which nothing
\* was ever loaded.
FlowInv ==
  /\ updates \in Seq({u \in Update : UnderWay(u)})
  /\ \A unit \in Units : queue[unit] \in Seq({v \in Version : Loaded(v)})
  /\ \A r \in Servers, v \in Version : pending[r][v] # {} => Loaded(v)
  /\ signer.phase # "idle" => Loaded(signer.version)

\* A step loads a newer serial of one zone, or none.
LoadsOne ==
  \/ latest' = latest
  \/ \E z \in Zones : \E s \in 1 .. MaxSerial :
       s > latest[z] /\ latest' = [latest EXCEPT ![z] = s]

LEMMA LoaderFlowInit == Init => LoaderFlow
  BY DEF Init, LoaderFlow

LEMMA LoaderFlowZoneAdd ==
  ASSUME TypeOK, LoaderFlow, NEW z \in Zones, NEW p \in {"bare", "ready"},
         NEW s \in Serial, ZoneAdd(z, p, s)
  PROVE  LoaderFlow' /\ LoadsOne
  <1>1. /\ incoming' = incoming
        /\ registered' = IF z \in FileZones /\ s = 0 THEN registered ELSE registered \cup {z}
        /\ z \in FileZones \/ (z \notin registered /\ s = 0)
    BY DEF ZoneAdd
  <1>2. CASE z \in FileZones /\ s # 0 /\ z \notin registered
    <2>1. /\ active' = active \cup {z}
          /\ latest' = [latest EXCEPT ![z] = s]
      BY <1>2 DEF ZoneAdd
    <2>2. latest[z] = 0 /\ incoming[z] = 0 /\ s \in 1 .. MaxSerial
      BY <1>2, PipelineAssumption DEF LoaderFlow, Serial
    <2>3. \A y \in Zones : latest'[y] = IF y = z THEN s ELSE latest[y]
      BY <2>1 DEF TypeOK, LoaderType
    <2>4. LoaderFlow'
      BY <1>1, <1>2, <2>1, <2>2, <2>3 DEF LoaderFlow
    <2>5. s > latest[z]
      BY <2>2
    <2> QED BY <2>1, <2>2, <2>4, <2>5 DEF LoadsOne
  <1>3. CASE ~(z \in FileZones /\ s # 0 /\ z \notin registered)
    <2>1. active' = active /\ latest' = latest
      BY <1>3 DEF ZoneAdd
    <2> QED BY <1>1, <1>3, <2>1 DEF LoaderFlow, LoadsOne
  <1> QED BY <1>2, <1>3

LEMMA LoaderFlowLoader ==
  ASSUME TypeOK, LoaderFlow, Loader
  PROVE  LoaderFlow' /\ LoadsOne
  <1>1. PICK z \in Zones :
          TransferBegin(z) \/ TransferFail(z) \/ TransferCommit(z) \/ Activate(z)
    BY DEF Loader
  <1>2. CASE TransferBegin(z)
    <2>1. /\ UNCHANGED <<registered, active, latest>> /\ z \in registered \ FileZones
          /\ \A y \in Zones : incoming'[y] = IF y = z THEN latest[z] + 1 ELSE incoming[y]
      BY <1>2 DEF TransferBegin, TypeOK, LoaderType
    <2> QED BY <2>1 DEF LoaderFlow, LoadsOne
  <1>3. CASE TransferFail(z)
    <2>1. /\ UNCHANGED <<registered, active, latest>>
          /\ \A y \in Zones : incoming'[y] = IF y = z THEN 0 ELSE incoming[y]
      BY <1>3 DEF TransferFail, TypeOK, LoaderType
    <2> QED BY <2>1 DEF LoaderFlow, LoadsOne
  <1>4. CASE TransferCommit(z)
    <2>1. /\ UNCHANGED <<registered, active>>
          /\ latest' = [latest EXCEPT ![z] = incoming[z]]
          /\ incoming[z] # 0
          /\ \A y \in Zones : incoming'[y] = IF y = z THEN 0 ELSE incoming[y]
          /\ \A y \in Zones : latest'[y] = IF y = z THEN incoming[z] ELSE latest[y]
      BY <1>4 DEF TransferCommit, TypeOK, LoaderType
    <2>2. /\ z \in registered \ FileZones
          /\ incoming[z] \in 1 .. MaxSerial /\ incoming[z] > latest[z]
      BY <2>1, PipelineAssumption DEF LoaderFlow, TypeOK, LoaderType, Serial
    <2>3. LoaderFlow'
      BY <2>1, <2>2 DEF LoaderFlow
    <2> QED BY <2>1, <2>2, <2>3 DEF LoadsOne
  <1>5. CASE Activate(z)
    <2>1. UNCHANGED <<registered, latest, incoming>> /\ active' = active \cup {z} /\ latest[z] # 0
      BY <1>5 DEF Activate
    <2> QED BY <2>1 DEF LoaderFlow, LoadsOne
  <1> QED BY <1>1, <1>2, <1>3, <1>4, <1>5

LEMMA LoaderFlowStep ==
  ASSUME TypeOK, LoaderFlow, [Next]_vars
  PROVE  LoaderFlow' /\ LoadsOne
  <1>1. CASE UNCHANGED loaderVars
    BY <1>1 DEF loaderVars, LoaderFlow, LoadsOne
  <1>2. CASE Operator
    BY <1>1, <1>2, LoaderFlowZoneAdd DEF Operator, ZoneRemove
  <1>3. CASE Loader
    BY <1>3, LoaderFlowLoader
  <1>4. CASE (\E z \in Zones : Resign(z)) \/ DirectUpdate \/ PublishSwap \/ DropSigned
    BY <1>1, <1>4 DEF Resign, DirectUpdate, PublishSwap, DropSigned
  <1>5. CASE (\E r \in Servers : SeekApproval(r)) \/ Reviewer \/ Client
    BY <1>1, <1>5 DEF SeekApproval, Reviewer, Approve, Reject, Client, HangUp, RequestDead
  <1>6. CASE Signer
    BY <1>1, <1>6 DEF Signer, SignStart, FindSignedZone, InsertSignedZone, Collect,
       SignFail, SignCommit
  <1>7. CASE UNCHANGED vars
    BY <1>1, <1>7 DEF vars
  <1> QED BY <1>2, <1>3, <1>4, <1>5, <1>6, <1>7 DEF Next

\* The newest serial of a zone only grows.
LEMMA LatestGrows ==
  ASSUME TypeOK, LoadsOne, NEW z \in Zones
  PROVE  /\ latest[z] \in Nat /\ latest'[z] \in Nat
         /\ latest[z] <= latest'[z]
         /\ latest[z] # 0 => latest'[z] # 0
  BY PipelineAssumption DEF TypeOK, LoaderType, Serial, LoadsOne

\* What was under way stays under way.
LEMMA FlowMonotone ==
  ASSUME TypeOK, FlowInv, LoadsOne
  PROVE  /\ \A v \in Version : Loaded(v) => Loaded(v)'
         /\ updates \in Seq({u \in Update : UnderWay(u)'})
         /\ \A unit \in Units : queue[unit] \in Seq({v \in Version : Loaded(v)'})
  <1>1. \A z \in Zones : latest[z] # 0 => latest'[z] # 0
    BY LatestGrows
  <1>2. \A v \in Version : Loaded(v) => Loaded(v)'
    BY <1>1 DEF Loaded, Version
  <1>3. \A u \in Update : UnderWay(u) => UnderWay(u)'
    BY <1>1 DEF UnderWay, Update, Version
  <1>4. updates \in Seq({u \in Update : UnderWay(u)'})
    BY <1>3, SeqMonotonic DEF FlowInv
  <1>5. ASSUME NEW unit \in Units
        PROVE  queue[unit] \in Seq({v \in Version : Loaded(v)'})
    BY <1>2, <1>5, SeqMonotonic DEF FlowInv
  <1> QED BY <1>2, <1>4, <1>5

LEMMA FlowInit == Init => FlowInv
  <1> SUFFICES ASSUME Init PROVE FlowInv
    OBVIOUS
  <1>1. updates = <<>> /\ \A unit \in Units : queue[unit] = <<>>
    BY DEF Init
  <1>2. \A S : <<>> \in Seq(S)
    BY EmptySeq
  <1>3. \A r \in Servers, v \in Version : pending[r][v] = {}
    BY DEF Init
  <1>4. signer.phase = "idle"
    BY DEF Init, IdleSigner
  <1> QED BY <1>1, <1>2, <1>3, <1>4 DEF FlowInv

\* A step that posts updates of what is loaded after it, takes no command, opens no
\* review and starts no signing operation.
LEMMA FlowPost ==
  ASSUME TypeOK, FlowInv, LoadsOne,
         NEW new \in Seq({u \in Update : UnderWay(u)'}), updates' = updates \o new,
         queue' = queue,
         \A r \in Servers, v \in Version : pending'[r][v] # {} => pending[r][v] # {},
         signer'.phase = "idle" \/ (signer.phase # "idle" /\ signer'.version = signer.version)
  PROVE  FlowInv'
  <1>1. /\ \A v \in Version : Loaded(v) => Loaded(v)'
        /\ updates \in Seq({u \in Update : UnderWay(u)'})
        /\ \A unit \in Units : queue[unit] \in Seq({v \in Version : Loaded(v)'})
    BY FlowMonotone
  <1>2. updates' \in Seq({u \in Update : UnderWay(u)'})
    BY <1>1, ConcatProperties
  <1>3. \A r \in Servers, v \in Version : pending'[r][v] # {} => Loaded(v)'
    BY <1>1 DEF FlowInv
  <1>4. signer.version \in Version
    BY DEF TypeOK, SignerType
  <1>5. signer'.phase # "idle" => latest'[signer'.version[1]] # 0
    BY <1>1, <1>4 DEF FlowInv, Loaded
  <1> QED BY <1>1, <1>2, <1>3, <1>5 DEF FlowInv, Loaded

\* The same for steps that post one update or none.
LEMMA FlowPostOne ==
  ASSUME TypeOK, FlowInv, LoadsOne, NEW u \in Update, UnderWay(u)',
         updates' = updates \/ updates' = Append(updates, u),
         queue' = queue,
         \A r \in Servers, v \in Version : pending'[r][v] # {} => pending[r][v] # {},
         signer'.phase = "idle" \/ (signer.phase # "idle" /\ signer'.version = signer.version)
  PROVE  FlowInv'
  <1>1. updates \in Seq(Update)
    BY DEF TypeOK, ChannelType
  <1>2. CASE updates' = updates
    <2>1. updates' = updates \o <<>>
      BY <1>1, <1>2, ConcatEmptySeq
    <2>2. <<>> \in Seq({w \in Update : UnderWay(w)'})
      BY EmptySeq
    <2> QED BY <2>1, <2>2, FlowPost
  <1>3. CASE updates' = Append(updates, u)
    <2>1. updates' = updates \o <<u>>
      BY <1>1, <1>3, AppendIsConcat
    <2>2. <<u>> \in Seq({w \in Update : UnderWay(w)'})
      OBVIOUS
    <2> QED BY <2>1, <2>2, FlowPost
  <1> QED BY <1>2, <1>3

LEMMA FlowOperator ==
  ASSUME TypeOK, LoaderFlow, FlowInv, LoadsOne, Operator
  PROVE  FlowInv'
  <1> DEFINE Flowing == {u \in Update : UnderWay(u)'}
  <1>1. PICK z \in Zones : (\E p \in {"bare", "ready"}, s \in Serial : ZoneAdd(z, p, s))
                           \/ ZoneRemove(z)
    BY DEF Operator
  <1>2. Msg("Changed", z, 0) \in Update /\ UnderWay(Msg("Changed", z, 0))'
    BY MsgType, BlankType DEF UnderWay, Msg, UpdateKind
  <1>3. UNCHANGED <<queue, pending, signer>>
    BY <1>1 DEF ZoneAdd, ZoneRemove, reviewVars
  <1>4. signer'.phase = "idle" \/ (signer.phase # "idle" /\ signer'.version = signer.version)
    BY <1>3
  <1>5. CASE ZoneRemove(z)
    BY <1>2, <1>3, <1>4, <1>5, FlowPostOne DEF ZoneRemove, Post
  <1>6. ASSUME NEW p \in {"bare", "ready"}, NEW s \in Serial, ZoneAdd(z, p, s)
        PROVE  FlowInv'
    <2> DEFINE loaded == IF s = 0 THEN <<>> ELSE <<Msg("UnsignedZoneUpdated", z, s)>>
    <2>1. s # 0 => latest'[z] # 0
      BY <1>6 DEF ZoneAdd, LoaderFlow, TypeOK, LoaderType
    <2>2. s # 0 => Msg("UnsignedZoneUpdated", z, s) \in Flowing
      <3>1. Msg("UnsignedZoneUpdated", z, s) \in Update
        BY MsgType DEF UpdateKind
      <3> QED BY <2>1, <3>1 DEF UnderWay, Msg
    <2> HIDE DEF Flowing
    <2>3. ChangesOfAdd(z, p) \in Seq(Flowing) /\ loaded \in Seq(Flowing)
      BY <1>2, <2>2 DEF ChangesOfAdd, Flowing
    <2>4. ChangesOfAdd(z, p) \o loaded \in Seq(Flowing)
      BY <2>3, ConcatProperties
    <2>5. updates' = updates \o (ChangesOfAdd(z, p) \o loaded)
      <3>1. updates' = updates \o ChangesOfAdd(z, p) \o loaded
        BY <1>6 DEF ZoneAdd
      <3>2. Flowing \subseteq Update
        BY DEF Flowing
      <3>3. ChangesOfAdd(z, p) \in Seq(Update) /\ loaded \in Seq(Update)
        BY <2>3, <3>2, SeqMonotonic
      <3>4. updates \in Seq(Update)
        BY DEF TypeOK, ChannelType
      <3> HIDE DEF loaded
      <3> QED BY <3>1, <3>3, <3>4, TwoPosts
    <2> QED BY <1>3, <1>4, <2>4, <2>5, FlowPost DEF Flowing
  <1> QED BY <1>1, <1>5, <1>6

LEMMA FlowLoader ==
  ASSUME TypeOK, LoaderFlow, FlowInv, LoadsOne, Loader \/ \E z \in Zones : Resign(z)
  PROVE  FlowInv'
  <1>1. PICK z \in Zones : TransferBegin(z) \/ TransferFail(z) \/ TransferCommit(z)
                           \/ Activate(z) \/ Resign(z)
    BY DEF Loader
  <1>2. UNCHANGED <<queue, pending, signer>>
    BY <1>1 DEF TransferBegin, TransferFail, TransferCommit, Activate, Resign, reviewVars
  <1>3. signer'.phase = "idle" \/ (signer.phase # "idle" /\ signer'.version = signer.version)
    BY <1>2
  <1>4. incoming[z] \in Serial
    BY DEF TypeOK, LoaderType
  <1>5. CASE TransferCommit(z)
    <2>1. latest'[z] # 0
      BY <1>5 DEF TransferCommit, TypeOK, LoaderType
    <2>2. /\ Msg("UnsignedZoneUpdated", z, incoming[z]) \in Update
          /\ UnderWay(Msg("UnsignedZoneUpdated", z, incoming[z]))'
      <3>1. Msg("UnsignedZoneUpdated", z, incoming[z]) \in Update
        BY <1>4, MsgType DEF UpdateKind
      <3>2. Msg("UnsignedZoneUpdated", z, incoming'[z]).version[1] = z
        BY DEF Msg
      <3> QED BY <2>1, <3>1, <3>2 DEF UnderWay, Msg
    <2>3. updates' = Append(updates, Msg("UnsignedZoneUpdated", z, incoming[z]))
      BY <1>5 DEF TransferCommit, Post
    <2>4. PICK u \in Update : u = Msg("UnsignedZoneUpdated", z, incoming[z])
      BY <2>2
    <2>5. UnderWay(u)'
      BY <2>1, <2>4 DEF UnderWay, Msg
    <2> QED BY <1>2, <1>3, <2>3, <2>4, <2>5, FlowPostOne
  <1>6. CASE Resign(z)
    <2>1. latest[z] # 0 /\ latest' = latest
      BY <1>6 DEF Resign, LoaderFlow, loaderVars
    <2>2. Msg("ResignZone", z, 0) \in Update /\ UnderWay(Msg("ResignZone", z, 0))'
      <3>1. Msg("ResignZone", z, 0) \in Update
        BY MsgType, BlankType DEF UpdateKind
      <3> QED BY <2>1, <3>1 DEF UnderWay, Msg
    <2>3. updates' = Append(updates, Msg("ResignZone", z, 0))
      BY <1>6 DEF Resign, Post
    <2> QED BY <1>2, <1>3, <2>2, <2>3, FlowPostOne
  <1>7. CASE TransferBegin(z) \/ TransferFail(z) \/ Activate(z)
    <2>1. updates' = updates
      BY <1>7 DEF TransferBegin, TransferFail, Activate
    <2>2. Msg("Changed", z, 0) \in Update /\ UnderWay(Msg("Changed", z, 0))'
      BY MsgType, BlankType DEF UnderWay, Msg, UpdateKind
    <2> QED BY <1>2, <1>3, <2>1, <2>2, FlowPostOne
  <1> QED BY <1>1, <1>5, <1>6, <1>7

LEMMA FlowDirectUpdate ==
  ASSUME TypeOK, FlowInv, DirectUpdate
  PROVE  FlowInv'
  <1> DEFINE Flowing == {u \in Update : UnderWay(u)}
             Commands == {v \in Version : Loaded(v)}
  <1>1. UNCHANGED <<latest, pending, signer>>
    BY DEF DirectUpdate, loaderVars, reviewVars
  <1>2. PICK u : u = Head(updates) /\ u \in Flowing /\ updates' = Tail(updates) /\ Tail(updates) \in Seq(Flowing)
    BY HeadTailProperties DEF FlowInv, DirectUpdate
  <1>3. \A unit \in Units : queue'[unit] \in Seq(Commands)
    <2>1. CASE u.kind = "Changed"
      BY <1>2, <2>1 DEF DirectUpdate, FlowInv
    <2>2. CASE u.kind # "Changed"
      <3>1. Target(u.kind) \in Units /\ u.version \in Version
        BY <1>2, <2>2 DEF Update, UpdateKind, Target, Units
      <3>2. u.version \in Commands
        BY <1>2, <2>2, <3>1 DEF UnderWay, Loaded
      <3>3. queue' = [queue EXCEPT ![Target(u.kind)] = Append(@, u.version)]
        BY <1>2, <2>2 DEF DirectUpdate
      <3>4. \A unit \in Units : queue'[unit] =
              IF unit = Target(u.kind) THEN Append(queue[unit], u.version) ELSE queue[unit]
        BY <3>1, <3>3 DEF TypeOK, ChannelType
      <3>5. \A unit \in Units : queue[unit] \in Seq(Commands)
        BY DEF FlowInv
      <3> HIDE DEF Commands
      <3>6. Append(queue[Target(u.kind)], u.version) \in Seq(Commands)
        BY <3>1, <3>2, <3>5, AppendProperties
      <3> QED BY <3>4, <3>5, <3>6
    <2> QED BY <2>1, <2>2
  <1> QED BY <1>1, <1>2, <1>3 DEF FlowInv, UnderWay, Loaded

\* A step that takes a command from the queue of one unit, of a zone that is loaded
\* therefore, and loads nothing.
LEMMA FlowTake ==
  ASSUME TypeOK, FlowInv, NEW unit \in Units, queue[unit] # <<>>, latest' = latest,
         queue' = [queue EXCEPT ![unit] = Tail(@)],
         updates' = updates
           \/ \E u \in Update : UnderWay(u) /\ updates' = Append(updates, u),
         \A r \in Servers, v \in Version :
           pending'[r][v] # {} => pending[r][v] # {} \/ v = Head(queue[unit]),
         signer'.phase # "idle" => Loaded(signer'.version)
  PROVE  FlowInv'
  <1> DEFINE Flowing == {u \in Update : UnderWay(u)}
             Commands == {v \in Version : Loaded(v)}
  <1>1. /\ \A u : UnderWay(u)' <=> UnderWay(u)
        /\ \A v : Loaded(v)' <=> Loaded(v)
    BY DEF UnderWay, Loaded
  <1>2. Flowing = {u \in Update : UnderWay(u)'} /\ Commands = {v \in Version : Loaded(v)'}
    BY <1>1
  <1>3. /\ updates \in Seq(Flowing)
        /\ \A q \in Units : queue[q] \in Seq(Commands)
    BY DEF FlowInv
  <1>4. \A q \in Units : queue'[q] = IF q = unit THEN Tail(queue[unit]) ELSE queue[q]
    BY DEF TypeOK, ChannelType
  <1>5. Head(queue[unit]) \in Commands /\ Tail(queue[unit]) \in Seq(Commands)
    BY <1>3, HeadTailProperties
  <1>6. \A r \in Servers, v \in Version : pending'[r][v] # {} => Loaded(v)'
    BY <1>1, <1>5 DEF FlowInv
  <1>7. (signer.phase # "idle" => Loaded(signer.version))'
    BY DEF Loaded
  <1>8. updates' \in Seq(Flowing)
    <2>1. CASE updates' = updates
      BY <1>3, <2>1
    <2>2. ASSUME NEW u \in Update, UnderWay(u), updates' = Append(updates, u)
          PROVE  updates' \in Seq(Flowing)
      <3>1. u \in Flowing
        BY <2>2
      <3> HIDE DEF Flowing
      <3> QED BY <1>3, <2>2, <3>1, AppendProperties
    <2> QED BY <2>1, <2>2
  <1>9. \A q \in Units : queue'[q] \in Seq(Commands)
    BY <1>3, <1>4, <1>5
  <1> HIDE DEF Flowing, Commands
  <1> QED BY <1>2, <1>6, <1>7, <1>8, <1>9 DEF FlowInv

LEMMA HeadIsLoaded ==
  ASSUME FlowInv, NEW unit \in Units, queue[unit] # <<>>
  PROVE  Head(queue[unit]) \in Version /\ Loaded(Head(queue[unit]))
  <1>1. queue[unit] \in Seq({v \in Version : Loaded(v)})
    BY DEF FlowInv
  <1>2. Head(queue[unit]) \in {v \in Version : Loaded(v)}
    BY <1>1, HeadTailProperties
  <1> QED BY <1>2

LEMMA FlowSeekApproval ==
  ASSUME TypeOK, FlowInv, NEW r \in Servers, SeekApproval(r)
  PROVE  FlowInv'
  <1>1. r \in Units /\ queue[r] # <<>> /\ queue' = [queue EXCEPT ![r] = Tail(@)]
    BY DEF SeekApproval, Servers, Units
  <1>2. PICK v \in Version : v = Head(queue[r]) /\ Loaded(v)
    BY <1>1, HeadIsLoaded
  <1>3. UNCHANGED <<latest, signer>>
    BY DEF SeekApproval, loaderVars
  <1>4. updates' = updates \/ \E u \in Update : UnderWay(u) /\ updates' = Append(updates, u)
    <2>1. [kind |-> Approval(r), version |-> v] \in Update
      BY DEF Approval, Update, UpdateKind
    <2>2. UnderWay([kind |-> Approval(r), version |-> v])
      BY <1>2 DEF UnderWay, Loaded
    <2>3. updates' = updates \/ updates' = Append(updates, [kind |-> Approval(r), version |-> v])
      BY <1>2 DEF SeekApproval, Announce
    <2> QED BY <2>1, <2>2, <2>3
  <1>5. \A q \in Servers, w \in Version :
          pending'[q][w] # {} => pending[q][w] # {} \/ w = Head(queue[r])
    <2>1. pending' = pending \/ \E tokens : pending' = [pending EXCEPT ![r][v] = tokens]
      BY <1>2 DEF SeekApproval
    <2>2. ASSUME NEW tokens, pending' = [pending EXCEPT ![r][v] = tokens]
          PROVE  \A q \in Servers, w \in Version :
                   ~(q = r /\ w = v) => pending'[q][w] = pending[q][w]
      BY <2>2 DEF TypeOK, ReviewType
    <2> QED BY <1>2, <2>1, <2>2
  <1>6. signer'.phase # "idle" => Loaded(signer'.version)
    BY <1>3 DEF FlowInv
  <1> QED BY <1>1, <1>3, <1>4, <1>5, <1>6, FlowTake

LEMMA FlowReviewer ==
  ASSUME TypeOK, FlowInv, LoadsOne, Reviewer
  PROVE  FlowInv'
  <1>1. PICK r \in Servers, v \in Version : \E t \in pending[r][v] :
          Approve(r, v, t) \/ Reject(r, v, t)
    BY DEF Reviewer
  <1>2. PICK t \in pending[r][v] : Approve(r, v, t) \/ Reject(r, v, t)
    BY <1>1
  <1>3. UNCHANGED <<queue, signer, latest>>
    BY <1>2 DEF Approve, Reject, loaderVars
  <1>4. PICK u \in Update : u = [kind |-> Approval(r), version |-> v]
    <2>1. [kind |-> Approval(r), version |-> v] \in Update
      BY DEF Approval, Update, UpdateKind
    <2> QED BY <2>1
  <1>5. UnderWay(u)'
    BY <1>2, <1>3, <1>4 DEF UnderWay, FlowInv, Loaded
  <1>6. updates' = updates \/ updates' = Append(updates, u)
    BY <1>2, <1>4 DEF Approve, Reject, Announce
  <1>7. \A q \in Servers, w \in Version : pending'[q][w] # {} => pending[q][w] # {}
    <2>1. PICK rest : pending' = [pending EXCEPT ![r][v] = rest] /\ rest \subseteq pending[r][v]
      BY <1>2 DEF Approve, Reject
    <2> QED BY <2>1 DEF TypeOK, ReviewType
  <1>8. signer'.phase = "idle" \/ (signer.phase # "idle" /\ signer'.version = signer.version)
    BY <1>3
  <1> QED BY <1>3, <1>5, <1>6, <1>7, <1>8, FlowPostOne

\* A signing operation keeps its version until it ends.
LEMMA VersionStays ==
  ASSUME TypeOK, FindSignedZone \/ InsertSignedZone \/ Collect \/ SignFail \/ SignCommit
  PROVE  signer'.phase = "idle" \/ (signer.phase # "idle" /\ signer'.version = signer.version)
  <1>1. CASE FindSignedZone
    BY <1>1 DEF FindSignedZone, TypeOK, SignerType
  <1>2. CASE InsertSignedZone
    BY <1>2 DEF InsertSignedZone, TypeOK, SignerType
  <1>3. CASE Collect
    BY <1>3 DEF Collect, IdleSigner, TypeOK, SignerType
  <1>4. CASE SignFail \/ SignCommit
    BY <1>4 DEF SignFail, SignCommit, IdleSigner
  <1> QED BY <1>1, <1>2, <1>3, <1>4

LEMMA FlowSigner ==
  ASSUME TypeOK, FlowInv, LoadsOne, Signer
  PROVE  FlowInv'
  <1>1. UNCHANGED <<latest, pending>>
    BY DEF Signer, SignStart, FindSignedZone, InsertSignedZone, Collect, SignFail,
       SignCommit, loaderVars, reviewVars
  <1>2. CASE SignStart
    <2>1. /\ "ZS" \in Units /\ queue["ZS"] # <<>>
          /\ queue' = [queue EXCEPT !["ZS"] = Tail(@)] /\ updates' = updates
      BY <1>2 DEF SignStart, Units
    <2>2. PICK v \in Version : v = Head(queue["ZS"]) /\ Loaded(v)
      BY <2>1, HeadIsLoaded
    <2>3. signer' = signer \/ signer'.version = <<v[1], SoaToSign(v)>>
      BY <1>2, <2>2, IdleSignerType DEF SignStart
    <2>4. signer'.phase # "idle" => Loaded(signer'.version)
      BY <2>2, <2>3 DEF FlowInv, Loaded
    <2> QED BY <1>1, <2>1, <2>4, FlowTake
  <1>3. CASE ~SignStart
    <2>1. queue' = queue
      BY <1>3 DEF Signer, FindSignedZone, InsertSignedZone, Collect, SignFail, SignCommit
    <2>2. signer'.phase = "idle" \/ (signer.phase # "idle" /\ signer'.version = signer.version)
      BY <1>3, VersionStays DEF Signer
    <2>3. PICK z \in Zones, s \in Serial : signer.version = <<z, s>>
      BY DEF TypeOK, SignerType, Version
    <2>4. CASE SignCommit
      <3>1. PICK u \in Update : u = Msg("ZoneSigned", z, s)
        BY MsgType DEF UpdateKind
      <3>2. UnderWay(u)'
        BY <1>1, <2>3, <2>4, <3>1 DEF SignCommit, FlowInv, Loaded, UnderWay, Msg
      <3>3. updates' = Append(updates, u)
        BY <2>3, <2>4, <3>1 DEF SignCommit, Post
      <3> QED BY <1>1, <2>1, <2>2, <3>2, <3>3, FlowPostOne
    <2>5. CASE ~SignCommit
      <3>1. updates' = updates
        BY <1>3, <2>5 DEF Signer, FindSignedZone, InsertSignedZone, Collect, SignFail
      <3>2. PICK u \in Update : u = Msg("Changed", z, 0)
        BY MsgType, BlankType DEF UpdateKind
      <3>3. UnderWay(u)'
        BY <3>2 DEF UnderWay, Msg
      <3> QED BY <1>1, <2>1, <2>2, <3>1, <3>3, FlowPostOne
    <2> QED BY <2>4, <2>5
  <1> QED BY <1>2, <1>3

LEMMA FlowPublishSwap ==
  ASSUME TypeOK, FlowInv, PublishSwap
  PROVE  FlowInv'
  <1>1. /\ "PS" \in Units /\ queue["PS"] # <<>>
        /\ queue' = [queue EXCEPT !["PS"] = Tail(@)]
        /\ UNCHANGED <<updates, latest, pending, signer>>
    BY DEF PublishSwap, Units, loaderVars, reviewVars
  <1>2. signer'.phase # "idle" => Loaded(signer'.version)
    BY <1>1 DEF FlowInv
  <1> QED BY <1>1, <1>2, FlowTake

LEMMA FlowStep == TypeOK /\ LoaderFlow /\ FlowInv /\ [Next]_vars => FlowInv'
  <1> SUFFICES ASSUME TypeOK, LoaderFlow, FlowInv, [Next]_vars PROVE FlowInv'
    OBVIOUS
  <1>0. LoadsOne
    BY LoaderFlowStep
  <1>1. CASE Operator
    BY <1>0, <1>1, FlowOperator
  <1>2. CASE Loader \/ \E z \in Zones : Resign(z)
    BY <1>0, <1>2, FlowLoader
  <1>3. CASE DirectUpdate
    BY <1>3, FlowDirectUpdate
  <1>4. CASE \E r \in Servers : SeekApproval(r)
    BY <1>4, FlowSeekApproval
  <1>5. CASE Reviewer
    BY <1>0, <1>5, FlowReviewer
  <1>6. CASE Signer
    BY <1>0, <1>6, FlowSigner
  <1>7. CASE PublishSwap
    BY <1>7, FlowPublishSwap
  <1>8. CASE Client \/ DropSigned \/ UNCHANGED vars
    <2>1. UNCHANGED <<updates, queue, latest, pending, signer>>
      BY <1>8 DEF Client, HangUp, RequestDead, DropSigned, vars, loaderVars, reviewVars
    <2> QED BY <2>1 DEF FlowInv, UnderWay, Loaded
  <1> QED BY <1>1, <1>2, <1>3, <1>4, <1>5, <1>6, <1>7, <1>8 DEF Next

LEMMA FlowCorrect == Spec => [](TypeOK /\ LoaderFlow /\ FlowInv)
  <1>1. TypeOK /\ LoaderFlow /\ [Next]_vars => LoaderFlow'
    BY LoaderFlowStep
  <1> QED BY <1>1, TypeCorrect, LoaderFlowInit, FlowInit, FlowStep, PTL DEF Spec
-----------------------------------------------------------------------------
(* Only a removal lets signing find its zone forgotten *)

\* As long as no zone was removed, the state knows what the loader maintains.
KnownInv ==
  spent.removals = 0 => ~poisoned /\ \A z \in registered : known[z] # "absent"

LEMMA KnownStep ==
  TypeOK /\ LoaderFlow /\ FlowInv /\ KnownInv /\ [Next]_vars => KnownInv'
  <1> SUFFICES ASSUME TypeOK, LoaderFlow, FlowInv, KnownInv, [Next]_vars PROVE KnownInv'
    OBVIOUS
  <1>1. CASE Operator
    <2>1. PICK z \in Zones : (\E p \in {"bare", "ready"}, s \in Serial : ZoneAdd(z, p, s))
                             \/ ZoneRemove(z)
      BY <1>1 DEF Operator
    <2>2. ASSUME NEW p \in {"bare", "ready"}, NEW s \in Serial, ZoneAdd(z, p, s)
          PROVE  KnownInv'
      <3>1. /\ spent'.removals = spent.removals /\ poisoned' = poisoned
            /\ registered' \subseteq registered \cup {z}
            /\ known'[z] # "absent"
            /\ \A y \in Zones : y # z => known'[y] = known[y]
        BY <2>2 DEF ZoneAdd, KnownAfterAdd, TypeOK, CenterType
      <3> QED BY <3>1 DEF KnownInv, TypeOK, LoaderType
    <2>3. CASE ZoneRemove(z)
      <3>1. spent'.removals # 0
        BY <2>3 DEF ZoneRemove, TypeOK, CenterType
      <3> QED BY <3>1 DEF KnownInv
    <2> QED BY <2>1, <2>2, <2>3
  <1>2. CASE Collect
    <2>1. UNCHANGED <<known, spent, registered>>
      BY <1>2 DEF Collect, loaderVars
    <2>2. /\ signer.version[1] \in registered
          /\ poisoned' = (poisoned \/ known[signer.version[1]] = "absent")
      BY <1>2 DEF Collect, FlowInv, Loaded, LoaderFlow, TypeOK, SignerType, Version
    <2> QED BY <2>1, <2>2 DEF KnownInv
  <1>3. CASE UNCHANGED <<registered, known, poisoned>> /\ spent'.removals = spent.removals
    BY <1>3 DEF KnownInv
  <1>4. CASE Loader \/ \E z \in Zones : Resign(z)
    BY <1>3, <1>4 DEF Loader, TransferBegin, TransferFail, TransferCommit, Activate, Resign,
       loaderVars, centerVars, TypeOK, CenterType
  <1>5. CASE DirectUpdate \/ (\E r \in Servers : SeekApproval(r)) \/ Reviewer
    BY <1>3, <1>5 DEF DirectUpdate, SeekApproval, Reviewer, Approve, Reject, loaderVars,
       centerVars
  <1>6. CASE Client
    BY <1>3, <1>6 DEF Client, HangUp, RequestDead, loaderVars, centerVars, TypeOK, CenterType
  <1>7. CASE SignStart \/ FindSignedZone \/ InsertSignedZone \/ SignFail \/ SignCommit
    BY <1>3, <1>7 DEF SignStart, FindSignedZone, InsertSignedZone, SignFail, SignCommit,
       loaderVars, centerVars
  <1>8. CASE PublishSwap \/ DropSigned \/ UNCHANGED vars
    BY <1>3, <1>8 DEF PublishSwap, DropSigned, vars, loaderVars, centerVars
  <1> QED BY <1>1, <1>2, <1>4, <1>5, <1>6, <1>7, <1>8 DEF Next, Signer

\* Signing panics under the lock of the state, and so makes it unusable, only after a
\* zone was removed: until then it knows every zone that anything is under way for.
THEOREM OnlyRemovalPoisons == Spec => []PoisonNeedsRemoval
  <1>1. Init => KnownInv
    BY DEF Init, KnownInv
  <1>2. TypeOK /\ KnownInv => PoisonNeedsRemoval
    BY DEF KnownInv, PoisonNeedsRemoval, TypeOK, CenterType
  <1> QED BY <1>1, <1>2, FlowCorrect, KnownStep, PTL DEF Spec
-----------------------------------------------------------------------------
(* What a reader finds was loaded *)

\* No serial is seen anywhere that is newer than the newest one loaded: not in the
\* unsigned zone, which has that one or none, nor in a signed object, nor in what is
\* being signed.
SerialInv ==
  /\ \A z \in Zones : unsigned[z].soa \in {0, latest[z]}
  /\ \A z \in Zones : \A i \in 1 .. Len(copies[z]) : copies[z][i].soa <= latest[z]
  /\ signer.phase # "idle" => signer.version[2] <= latest[signer.version[1]]

\* What the sequences of zone objects hold.
LEMMA ObjectType ==
  ASSUME TypeOK, NEW z \in Zones, NEW i \in 1 .. Len(copies[z])
  PROVE  copies[z][i] \in Content /\ copies[z][i].soa \in Nat
  <1>1. copies[z] \in Seq(Content)
    BY DEF TypeOK, TreeType
  <1>2. copies[z][i] \in Content
    BY <1>1, ElementOfSeq
  <1> QED BY <1>2, PipelineAssumption DEF Content, Serial

LEMMA SerialUnsigned ==
  ASSUME TypeOK, LoaderFlow, SerialInv, LoadsOne, [Next]_vars
  PROVE  \A z \in Zones : unsigned'[z].soa \in {0, latest'[z]}
  <1>1. CASE UNCHANGED <<unsigned, latest>>
    BY <1>1 DEF SerialInv
  <1>2. CASE Operator
    <2>1. PICK z \in Zones : (\E p \in {"bare", "ready"}, s \in Serial : ZoneAdd(z, p, s))
                             \/ ZoneRemove(z)
      BY <1>2 DEF Operator
    <2>2. ASSUME NEW p \in {"bare", "ready"}, NEW s \in Serial, ZoneAdd(z, p, s)
          PROVE  \A y \in Zones : unsigned'[y].soa \in {0, latest'[y]}
      <3>1. CASE z \in FileZones /\ s # 0 /\ z \notin registered
        <4>1. \A y \in Zones : /\ latest'[y] = IF y = z THEN s ELSE latest[y]
                               /\ unsigned'[y].soa = IF y = z THEN s ELSE unsigned[y].soa
          BY <2>2, <3>1 DEF ZoneAdd, TypeOK, LoaderType
        <4> QED BY <4>1 DEF SerialInv
      <3>2. CASE ~(z \in FileZones /\ s # 0 /\ z \notin registered)
        <4>1. UNCHANGED <<unsigned, latest>>
          BY <2>2, <3>2 DEF ZoneAdd
        <4> QED BY <1>1, <4>1
      <3> QED BY <3>1, <3>2
    <2>3. CASE ZoneRemove(z)
      BY <1>1, <2>3 DEF ZoneRemove, loaderVars
    <2> QED BY <2>1, <2>2, <2>3
  <1>3. CASE Loader
    <2>1. PICK z \in Zones :
            TransferBegin(z) \/ TransferFail(z) \/ TransferCommit(z) \/ Activate(z)
      BY <1>3 DEF Loader
    <2>2. CASE TransferBegin(z)
      <3>1. /\ latest' = latest
            /\ \A y \in Zones : unsigned'[y].soa = IF y = z THEN 0 ELSE unsigned[y].soa
        BY <2>2 DEF TransferBegin, TypeOK, LoaderType, Blank
      <3> QED BY <3>1 DEF SerialInv
    <2>3. CASE TransferCommit(z)
      <3>1. \A y \in Zones :
              /\ latest'[y] = IF y = z THEN incoming[z] ELSE latest[y]
              /\ unsigned'[y].soa = IF y = z THEN incoming[z] ELSE unsigned[y].soa
        BY <2>3 DEF TransferCommit, TypeOK, LoaderType
      <3> QED BY <3>1 DEF SerialInv
    <2>4. CASE TransferFail(z) \/ Activate(z)
      BY <1>1, <2>4 DEF TransferFail, Activate
    <2> QED BY <2>1, <2>2, <2>3, <2>4
  <1>4. CASE (\E z \in Zones : Resign(z)) \/ DirectUpdate \/ PublishSwap \/ DropSigned
    BY <1>1, <1>4 DEF Resign, DirectUpdate, PublishSwap, DropSigned, loaderVars
  <1>5. CASE (\E r \in Servers : SeekApproval(r)) \/ Reviewer \/ Client
    BY <1>1, <1>5 DEF SeekApproval, Reviewer, Approve, Reject, Client, HangUp, RequestDead,
       loaderVars
  <1>6. CASE Signer
    BY <1>1, <1>6 DEF Signer, SignStart, FindSignedZone, InsertSignedZone, Collect,
       SignFail, SignCommit, loaderVars
  <1>7. CASE UNCHANGED vars
    BY <1>1, <1>7 DEF vars, loaderVars
  <1> QED BY <1>2, <1>3, <1>4, <1>5, <1>6, <1>7 DEF Next

LEMMA SoaToSignLoaded ==
  ASSUME TypeOK, SerialInv, NEW v \in Version
  PROVE  SoaToSign(v) <= latest[v[1]] /\ SoaToSign(v) \in Nat
  <1>1. v[1] \in Zones
    BY DEF Version
  <1>2. PICK z \in Zones : z = v[1]
    BY <1>1
  <1>3. latest[z] \in Nat /\ unsigned[z].soa \in Nat /\ unsigned[z].soa <= latest[z]
    <2>1. latest[z] \in Nat /\ unsigned[z].soa \in Nat
      BY PipelineAssumption DEF TypeOK, LoaderType, Content, Serial
    <2>2. unsigned[z].soa \in {0, latest[z]}
      BY DEF SerialInv
    <2> QED BY <2>1, <2>2
  <1>4. CASE published[z] # 0
    <2>1. published[z] \in 1 .. Len(copies[z])
      BY <1>4, LenProperties DEF TypeOK, TreeType, ReferencesExist, Object
    <2>2. copies[z][published[z]].soa \in Nat /\ copies[z][published[z]].soa <= latest[z]
      BY <2>1, ObjectType DEF SerialInv
    <2> QED BY <1>2, <1>3, <2>2 DEF SoaToSign
  <1>5. CASE published[z] = 0
    BY <1>2, <1>3, <1>5 DEF SoaToSign
  <1> QED BY <1>4, <1>5

LEMMA SerialSigner ==
  ASSUME TypeOK, SerialInv, LoadsOne, [Next]_vars
  PROVE  (signer.phase # "idle" => signer.version[2] <= latest[signer.version[1]])'
  <1>0. \A z \in Zones : latest[z] \in Nat /\ latest[z] <= latest'[z] /\ latest'[z] \in Nat
    BY LatestGrows
  <1>1. PICK z \in Zones, s \in Nat : signer.version = <<z, s>>
    BY PipelineAssumption DEF TypeOK, SignerType, Version, Serial
  <1>2. CASE signer'.phase = "idle" \/ (signer.phase # "idle" /\ signer'.version = signer.version)
    BY <1>0, <1>1, <1>2 DEF SerialInv
  <1>3. CASE signer' = signer
    BY <1>2, <1>3
  <1>4. CASE SignStart
    <2>1. "ZS" \in Units /\ queue["ZS"] # <<>> /\ queue["ZS"] \in Seq(Version)
      BY <1>4 DEF SignStart, Units, TypeOK, ChannelType
    <2>2. PICK v \in Version : v = Head(queue["ZS"])
      BY <2>1, HeadTailProperties
    <2>3. CASE SoaToSign(v) = 0
      BY <1>3, <1>4, <2>2, <2>3 DEF SignStart
    <2>4. CASE SoaToSign(v) # 0
      <3>1. signer'.version = <<v[1], SoaToSign(v)>> /\ latest' = latest
        BY <1>4, <2>2, <2>4, IdleSignerType DEF SignStart, loaderVars
      <3>2. SoaToSign(v) <= latest[v[1]]
        BY SoaToSignLoaded
      <3> QED BY <3>1, <3>2
    <2> QED BY <2>3, <2>4
  <1>5. CASE FindSignedZone \/ InsertSignedZone \/ Collect \/ SignFail \/ SignCommit
    BY <1>2, <1>5, VersionStays
  <1> QED BY <1>3, <1>4, <1>5, SignerSteps DEF Signer

\* The two steps that change zone objects, seen from the objects: a new one is blank,
\* and a commit rewrites one, if it exists.
LEMMA CopiesAfterInsert ==
  ASSUME TypeOK, InsertSignedZone, NEW z \in Zones, NEW i \in 1 .. Len(copies'[z])
  PROVE  \/ i \in 1 .. Len(copies[z]) /\ copies'[z][i] = copies[z][i]
         \/ copies'[z][i] = Blank
  <1>1. PICK y \in Zones : y = signer.version[1]
    BY DEF TypeOK, SignerType, Version
  <1>2. copies' = [copies EXCEPT ![y] = Append(copies[y], Blank)]
    BY <1>1 DEF InsertSignedZone
  <1>3. copies \in [Zones -> Seq(Content)]
    BY DEF TypeOK, TreeType
  <1>4. /\ Len(Append(copies[y], Blank)) = Len(copies[y]) + 1 /\ Len(copies[y]) \in Nat
        /\ \A j \in 1 .. Len(copies[y]) : Append(copies[y], Blank)[j] = copies[y][j]
        /\ Append(copies[y], Blank)[Len(copies[y]) + 1] = Blank
    BY <1>3, BlankType, AppendProperties, LenProperties
  <1>5. CASE z = y
    <2>1. copies'[z] = Append(copies[y], Blank)
      BY <1>2, <1>3, <1>5
    <2>2. i \in 1 .. Len(copies[y]) \/ i = Len(copies[y]) + 1
      BY <1>4, <2>1
    <2> QED BY <1>4, <1>5, <2>1, <2>2
  <1>6. CASE z # y
    BY <1>2, <1>3, <1>6
  <1> QED BY <1>5, <1>6

LEMMA CopiesAfterCommit ==
  ASSUME TypeOK, SignCommit, NEW z \in Zones
  PROVE  /\ Len(copies'[z]) = Len(copies[z])
         /\ \A i \in 1 .. Len(copies[z]) :
              copies'[z][i] = IF z = signer.version[1] /\ i = signer.target
                              THEN [soa |-> signer.version[2], body |-> signer.body]
                              ELSE copies[z][i]
  <1>1. PICK y \in Zones, s \in Serial : signer.version = <<y, s>>
    BY DEF TypeOK, SignerType, Version
  <1> DEFINE content == [soa |-> s, body |-> signer.body]
             c == [copies[y] EXCEPT ![signer.target] = content]
  <1>2. copies' = [copies EXCEPT ![y] = c]
    BY <1>1 DEF SignCommit
  <1>3. copies \in [Zones -> Seq(Content)] /\ content \in Content
    BY <1>1 DEF TypeOK, TreeType, SignerType, Content
  <1>4. /\ Len(c) = Len(copies[y])
        /\ \A i \in 1 .. Len(copies[y]) :
             c[i] = IF i = signer.target THEN content ELSE copies[y][i]
    <2>1. copies[y] \in Seq(Content)
      BY <1>3
    <2> HIDE DEF content
    <2> QED BY <2>1, LenProperties
  <1> HIDE DEF c
  <1>5. copies'[z] = IF z = y THEN c ELSE copies[z]
    BY <1>2, <1>3
  <1> QED BY <1>1, <1>4, <1>5

LEMMA SerialCopies ==
  ASSUME TypeOK, SerialInv, LoadsOne, [Next]_vars
  PROVE  (\A z \in Zones : \A i \in 1 .. Len(copies[z]) : copies[z][i].soa <= latest[z])'
  <1> SUFFICES ASSUME NEW z \in Zones, NEW i \in 1 .. Len(copies'[z])
               PROVE  copies'[z][i].soa <= latest'[z]
    OBVIOUS
  <1>0. latest[z] \in Nat /\ latest'[z] \in Nat /\ latest[z] <= latest'[z]
    BY LatestGrows
  <1>1. \A j \in 1 .. Len(copies[z]) : copies[z][j].soa \in Nat /\ copies[z][j].soa <= latest[z]
    BY ObjectType DEF SerialInv
  <1>2. CASE copies' = copies
    BY <1>0, <1>1, <1>2
  <1>3. CASE InsertSignedZone
    <2>1. \/ i \in 1 .. Len(copies[z]) /\ copies'[z][i] = copies[z][i]
          \/ copies'[z][i] = Blank
      BY <1>3, CopiesAfterInsert
    <2> QED BY <1>0, <1>1, <2>1 DEF Blank
  <1>4. CASE SignCommit
    <2>1. PICK y \in Zones, s \in Nat : signer.version = <<y, s>>
      BY PipelineAssumption DEF TypeOK, SignerType, Version, Serial
    <2>2. s <= latest[y]
      BY <1>4, <2>1 DEF SerialInv, SignCommit
    <2>3. i \in 1 .. Len(copies[z]) /\
          copies'[z][i].soa = IF z = y /\ i = signer.target THEN s ELSE copies[z][i].soa
      BY <1>4, <2>1, CopiesAfterCommit
    <2> QED BY <1>0, <1>1, <2>1, <2>2, <2>3
  <1>5. CASE PublishSwap \/ DropSigned
    BY <1>2, <1>5 DEF PublishSwap, DropSigned
  <1> QED BY <1>2, <1>3, <1>4, <1>5, TreeSteps

LEMMA SerialInit == Init => SerialInv
  <1> SUFFICES ASSUME Init PROVE SerialInv
    OBVIOUS
  <1>1. \A z \in Zones : latest[z] = 0 /\ unsigned[z].soa = 0 /\ copies[z] = <<>>
    BY DEF Init, Blank
  <1>2. \A z \in Zones : Len(copies[z]) = 0
    BY <1>1, EmptySeq
  <1>3. signer.phase = "idle"
    BY DEF Init, IdleSigner
  <1> QED BY <1>1, <1>2, <1>3 DEF SerialInv

LEMMA SerialStep == TypeOK /\ LoaderFlow /\ SerialInv /\ [Next]_vars => SerialInv'
  BY LoaderFlowStep, SerialUnsigned, SerialSigner, SerialCopies DEF SerialInv

\* What is signed, held or found anywhere has a serial no newer than the newest that
\* the loader committed, whatever serials the commands name.
THEOREM SerialsWereLoaded == Spec => []SerialInv
  BY SerialInit, SerialStep, FlowCorrect, PTL DEF Spec
-----------------------------------------------------------------------------
(* The pipeline implements PublishedZone *)

\* What the refinement rests on.
PromiseInv == TypeOK /\ LoaderFlow /\ FlowInv /\ GateInv /\ SerialInv

LEMMA PromiseCorrect == Spec => []PromiseInv
  BY TypeCorrect, FlowCorrect, GateInit, GateStep, SerialsWereLoaded, PTL DEF Spec, PromiseInv

LEMMA PromiseInit == Init => Reader!Init
  <1> SUFFICES ASSUME Init PROVE Reader!Init
    OBVIOUS
  <1>1. ASSUME NEW r \in Servers, NEW z \in Zones PROVE ~Passed(r, z)
    <2>1. \A s \in Serial : <<z, s>> \in Version
      BY DEF Version
    <2>2. \A s \in Serial : ~(announced[r][<<z, s>>] > 0)
      <3>1. \A v \in Version : ~(announced[r][v] > 0)
        BY DEF Init
      <3> QED BY <2>1, <3>1
    <2> QED BY <2>2 DEF Passed
  <1>2. {z \in Zones : Passed("RS", z)} = {} /\ {z \in Zones : Passed("RS2", z)} = {}
    BY <1>1 DEF Servers
  <1>3. \A z \in Zones : published[z] = 0
    BY DEF Init, EmptyTree
  <1>4. {z \in Zones : published[z] # 0} = {}
    BY <1>3
  <1>5. [z \in Zones |-> PublishedSoa(z)] = [z \in Zones |-> 0]
    BY <1>3 DEF PublishedSoa
  <1>6. latest = [z \in Zones |-> 0]
    BY DEF Init
  <1> QED BY <1>2, <1>4, <1>5, <1>6 DEF Reader!Init

\* The two halves of what a reader may see: the reviews, and what is published.
PassedKept == announced' = announced
ShownKept == published' = published /\ \A z \in Zones : PublishedSoa(z)' = PublishedSoa(z)

LEMMA PassedSame ==
  ASSUME PassedKept
  PROVE  /\ {z \in Zones : Passed("RS", z)}' = {z \in Zones : Passed("RS", z)}
         /\ {z \in Zones : Passed("RS2", z)}' = {z \in Zones : Passed("RS2", z)}
  BY DEF PassedKept, Passed

LEMMA ShownSame ==
  ASSUME ShownKept
  PROVE  /\ {z \in Zones : published[z] # 0}' = {z \in Zones : published[z] # 0}
         /\ [z \in Zones |-> PublishedSoa(z)]' = [z \in Zones |-> PublishedSoa(z)]
  BY DEF ShownKept

LEMMA CopiesKeepShown ==
  ASSUME published' = published, copies' = copies
  PROVE  ShownKept
  BY DEF ShownKept, PublishedSoa

\* A step that neither announces nor changes what is found loads a serial, or nothing.
LEMMA PromiseLoad ==
  ASSUME LoadsOne, PassedKept, ShownKept
  PROVE  [Reader!Next]_(Reader!vars)
  <1>1. CASE latest' = latest
    BY <1>1, PassedSame, ShownSame DEF Reader!vars
  <1>2. ASSUME NEW z \in Zones, NEW s \in 1 .. MaxSerial, s > latest[z],
               latest' = [latest EXCEPT ![z] = s]
        PROVE  Reader!Next
    <2>1. Reader!Load(z)
      BY <1>2, PassedSame, ShownSame DEF Reader!Load
    <2> QED BY <2>1 DEF Reader!Next
  <1> QED BY <1>1, <1>2 DEF LoadsOne

\* An announcement lets its zone pass a review, the later one after the earlier.
LEMMA PromisePass ==
  ASSUME TypeOK, NEW r \in Servers, NEW v \in Version,
         announced' = [announced EXCEPT ![r][v] = @ + 1],
         Loaded(v), r = "RS2" => Passed("RS", v[1]), latest' = latest, ShownKept
  PROVE  [Reader!Next]_(Reader!vars)
  <1>1. PICK z \in Zones, s \in Serial : v = <<z, s>>
    BY DEF Version
  <1>2. \A q \in Servers, w \in Version : announced'[q][w] =
          IF q = r /\ w = v THEN announced[q][w] + 1 ELSE announced[q][w]
    BY DEF TypeOK, ReviewType
  <1>3. announced[r][v] \in Nat
    BY DEF TypeOK, ReviewType
  <1>4. \A q \in Servers, y \in Zones :
          Passed(q, y)' <=> Passed(q, y) \/ (q = r /\ y = z)
    <2> SUFFICES ASSUME NEW q \in Servers, NEW y \in Zones
                 PROVE  Passed(q, y)' <=> Passed(q, y) \/ (q = r /\ y = z)
      OBVIOUS
    <2>1. \A t \in Serial : <<y, t>> \in Version /\ (<<y, t>> = v <=> y = z /\ t = s)
      BY <1>1 DEF Version
    <2>2. \A t \in Serial : announced[q][<<y, t>>] \in Nat
      BY <2>1 DEF TypeOK, ReviewType
    <2>3. \A t \in Serial : announced'[q][<<y, t>>] =
            IF q = r /\ y = z /\ t = s THEN announced[q][<<y, t>>] + 1
            ELSE announced[q][<<y, t>>]
      BY <1>2, <2>1
    <2>4. CASE q = r /\ y = z
      <3>1. announced'[q][<<y, s>>] > 0
        BY <2>2, <2>3, <2>4
      <3> QED BY <2>4, <3>1 DEF Passed
    <2>5. CASE ~(q = r /\ y = z)
      <3>1. \A t \in Serial : announced'[q][<<y, t>>] = announced[q][<<y, t>>]
        BY <2>3, <2>5
      <3> QED BY <2>5, <3>1 DEF Passed
    <2> QED BY <2>4, <2>5
  <1>5. latest[z] # 0
    BY <1>1 DEF Loaded
  <1>6. CASE r = "RS"
    <2>1. {y \in Zones : Passed("RS", y)}' = {y \in Zones : Passed("RS", y)} \cup {z}
      BY <1>4, <1>6 DEF Servers
    <2>2. {y \in Zones : Passed("RS2", y)}' = {y \in Zones : Passed("RS2", y)}
      BY <1>4, <1>6 DEF Servers
    <2>3. Reader!PassUnsigned(z)
      BY <1>5, <2>1, <2>2, ShownSame DEF Reader!PassUnsigned
    <2> QED BY <2>3 DEF Reader!Next
  <1>7. CASE r = "RS2"
    <2>1. {y \in Zones : Passed("RS2", y)}' = {y \in Zones : Passed("RS2", y)} \cup {z}
      BY <1>4, <1>7 DEF Servers
    <2>2. {y \in Zones : Passed("RS", y)}' = {y \in Zones : Passed("RS", y)}
      BY <1>4, <1>7 DEF Servers
    <2>3. z \in {y \in Zones : Passed("RS", y)}
      BY <1>1, <1>7
    <2>4. Reader!PassSigned(z)
      BY <2>1, <2>2, <2>3, ShownSame DEF Reader!PassSigned
    <2> QED BY <2>4 DEF Reader!Next
  <1> QED BY <1>6, <1>7 DEF Servers

\* A step that changes what is found of one zone, which has passed both reviews.
LEMMA PromiseShow ==
  ASSUME TypeOK, PassedKept, latest' = latest, NEW z \in Zones, Passed("RS2", z),
         published'[z] # 0,
         \A y \in Zones : y # z => published'[y] = published[y]
                                   /\ PublishedSoa(y)' = PublishedSoa(y),
         PublishedSoa(z)' \in 0 .. latest[z]
  PROVE  [Reader!Next]_(Reader!vars)
  <1>1. {y \in Zones : published[y] # 0}' = {y \in Zones : published[y] # 0} \cup {z}
    OBVIOUS
  <1>2. [y \in Zones |-> PublishedSoa(y)]'
          = [[y \in Zones |-> PublishedSoa(y)] EXCEPT ![z] = PublishedSoa(z)']
    OBVIOUS
  <1>3. z \in {y \in Zones : Passed("RS2", y)}
    OBVIOUS
  <1>4. Reader!Show(z)
    BY <1>1, <1>2, <1>3, PassedSame DEF Reader!Show
  <1> QED BY <1>4 DEF Reader!Next

LEMMA PromiseSeekApproval ==
  ASSUME PromiseInv, NEW r \in Servers, SeekApproval(r)
  PROVE  [Reader!Next]_(Reader!vars)
  <1>1. r \in Units /\ queue[r] # <<>> /\ TypeOK /\ FlowInv
    BY DEF SeekApproval, Servers, Units, PromiseInv
  <1>2. PICK v \in Version : v = Head(queue[r]) /\ Loaded(v)
    BY <1>1, HeadIsLoaded
  <1>3. r = "RS2" => Passed("RS", v[1])
    <2>1. queue[r] \in Seq({w \in Version : CommandGated(r, w)})
      BY <1>1 DEF PromiseInv, GateInv
    <2>2. v \in {w \in Version : CommandGated(r, w)}
      BY <1>1, <1>2, <2>1, HeadTailProperties
    <2> QED BY <2>2 DEF CommandGated
  <1>4. latest' = latest /\ ShownKept
    BY CopiesKeepShown DEF SeekApproval, loaderVars, treeVars
  <1>5. announced' = announced \/ announced' = [announced EXCEPT ![r][v] = @ + 1]
    BY <1>2 DEF SeekApproval, Announce
  <1>6. CASE announced' = announced
    BY <1>4, <1>6, PromiseLoad DEF PassedKept, LoadsOne
  <1> QED BY <1>1, <1>2, <1>3, <1>4, <1>5, <1>6, PromisePass

LEMMA PromiseReviewer ==
  ASSUME PromiseInv, Reviewer
  PROVE  [Reader!Next]_(Reader!vars)
  <1>1. PICK r \in Servers, v \in Version : \E t \in pending[r][v] :
          Approve(r, v, t) \/ Reject(r, v, t)
    BY DEF Reviewer
  <1>2. PICK t \in pending[r][v] : Approve(r, v, t) \/ Reject(r, v, t)
    BY <1>1
  <1>3. Loaded(v) /\ (r = "RS2" => Passed("RS", v[1]))
    BY <1>2 DEF PromiseInv, FlowInv, GateInv
  <1>4. latest' = latest /\ ShownKept
    BY <1>2, CopiesKeepShown DEF Approve, Reject, loaderVars, treeVars
  <1>5. announced' = announced \/ announced' = [announced EXCEPT ![r][v] = @ + 1]
    BY <1>2 DEF Approve, Reject, Announce
  <1>6. CASE announced' = announced
    BY <1>4, <1>6, PromiseLoad DEF PassedKept, LoadsOne
  <1> QED BY <1>3, <1>4, <1>5, <1>6, PromisePass DEF PromiseInv

\* A new zone object is nothing that a reader finds.
LEMMA ShownAfterInsert ==
  ASSUME TypeOK, InsertSignedZone, NEW z \in Zones
  PROVE  PublishedSoa(z)' = PublishedSoa(z)
  <1>1. PICK y \in Zones : y = signer.version[1]
    BY DEF TypeOK, SignerType, Version
  <1>2. /\ copies \in [Zones -> Seq(Content)]
        /\ copies' = [copies EXCEPT ![y] = Append(copies[y], Blank)]
        /\ published' = published
    BY <1>1 DEF InsertSignedZone, TypeOK, TreeType
  <1>3. \A j \in 1 .. Len(copies[y]) : Append(copies[y], Blank)[j] = copies[y][j]
    BY <1>2, BlankType, AppendProperties
  <1>4. published[z] # 0 => published[z] \in 1 .. Len(copies[z])
    BY <1>2, LenProperties DEF TypeOK, ReferencesExist, Object
  <1>5. published[z] # 0 => copies'[z][published[z]] = copies[z][published[z]]
    BY <1>2, <1>3, <1>4
  <1> QED BY <1>2, <1>5 DEF PublishedSoa

\* Signing changes what a reader finds if the object is the one published.
LEMMA ShownAfterCommit ==
  ASSUME TypeOK, SignCommit, NEW y \in Zones
  PROVE  PublishedSoa(y)' =
           IF published[y] # 0 /\ y = signer.version[1] /\ published[y] = signer.target
           THEN signer.version[2] ELSE PublishedSoa(y)
  <1>1. PICK z \in Zones, s \in Serial : signer.version = <<z, s>>
    BY DEF TypeOK, SignerType, Version
  <1>2. published' = published
    BY DEF SignCommit
  <1>3. CASE published[y] = 0
    BY <1>2, <1>3 DEF PublishedSoa
  <1>4. CASE published[y] # 0
    <2>1. published[y] \in 1 .. Len(copies[y])
      BY <1>4, LenProperties DEF TypeOK, TreeType, ReferencesExist, Object
    <2>2. copies'[y][published[y]] = IF y = z /\ published[y] = signer.target
            THEN [soa |-> s, body |-> signer.body] ELSE copies[y][published[y]]
      BY <1>1, <2>1, CopiesAfterCommit
    <2> QED BY <1>1, <1>2, <1>4, <2>2 DEF PublishedSoa
  <1> QED BY <1>3, <1>4

LEMMA PromiseInsert ==
  ASSUME PromiseInv, InsertSignedZone
  PROVE  [Reader!Next]_(Reader!vars)
  <1>1. latest' = latest /\ PassedKept /\ published' = published
    BY DEF InsertSignedZone, loaderVars, reviewVars, PassedKept
  <1>2. \A z \in Zones : PublishedSoa(z)' = PublishedSoa(z)
    BY ShownAfterInsert DEF PromiseInv
  <1> QED BY <1>1, <1>2, PromiseLoad DEF ShownKept, LoadsOne

LEMMA PromiseCommit ==
  ASSUME PromiseInv, SignCommit
  PROVE  [Reader!Next]_(Reader!vars)
  <1>0. TypeOK /\ SerialInv /\ GateInv
    BY DEF PromiseInv
  <1>1. PICK z \in Zones, s \in Nat : signer.version = <<z, s>>
    BY <1>0, PipelineAssumption DEF TypeOK, SignerType, Version, Serial
  <1>2. latest' = latest /\ PassedKept /\ published' = published
    BY DEF SignCommit, loaderVars, reviewVars, PassedKept
  <1>3. s <= latest[z] /\ latest[z] \in Nat
    BY <1>0, <1>1, PipelineAssumption DEF SerialInv, SignCommit, TypeOK, LoaderType, Serial
  <1>4. \A y \in Zones :
          PublishedSoa(y)' = IF published[y] # 0 /\ y = z /\ published[y] = signer.target
                             THEN s ELSE PublishedSoa(y)
    BY <1>0, <1>1, ShownAfterCommit
  <1>5. CASE published[z] # 0 /\ published[z] = signer.target
    <2>1. Passed("RS2", z)
      BY <1>0, <1>5 DEF GateInv
    <2>2. PublishedSoa(z)' \in 0 .. latest[z]
      BY <1>3, <1>4, <1>5
    <2>3. \A y \in Zones : y # z => published'[y] = published[y]
                                     /\ PublishedSoa(y)' = PublishedSoa(y)
      BY <1>2, <1>4
    <2> QED BY <1>0, <1>2, <1>5, <2>1, <2>2, <2>3, PromiseShow
  <1>6. CASE ~(published[z] # 0 /\ published[z] = signer.target)
    <2>1. \A y \in Zones : PublishedSoa(y)' = PublishedSoa(y)
      BY <1>4, <1>6
    <2> QED BY <1>2, <2>1, PromiseLoad DEF ShownKept, LoadsOne
  <1> QED BY <1>5, <1>6

LEMMA PromisePublishSwap ==
  ASSUME PromiseInv, PublishSwap
  PROVE  [Reader!Next]_(Reader!vars)
  <1>0. TypeOK /\ SerialInv /\ GateInv
    BY DEF PromiseInv
  <1>1. queue["PS"] \in Seq({w \in Version : CommandGated("PS", w)}) /\ queue["PS"] # <<>>
    BY <1>0 DEF PublishSwap, GateInv, Units
  <1>2. Head(queue["PS"]) \in {w \in Version : CommandGated("PS", w)}
    BY <1>1, HeadTailProperties
  <1>3. PICK z \in Zones : z = Head(queue["PS"])[1] /\ Passed("RS2", z)
    BY <1>2 DEF CommandGated, Version
  <1>4. latest' = latest /\ PassedKept /\ copies' = copies
    BY DEF PublishSwap, loaderVars, reviewVars, PassedKept
  <1>5. CASE signed[z] = 0
    <2>1. published' = published
      BY <1>3, <1>5 DEF PublishSwap
    <2> QED BY <1>4, <2>1, CopiesKeepShown, PromiseLoad DEF LoadsOne
  <1>6. CASE signed[z] # 0
    <2>1. \A y \in Zones : published'[y] = IF y = z THEN signed[z] ELSE published[y]
      BY <1>0, <1>3, <1>6 DEF PublishSwap, TypeOK, TreeType, Tree
    <2>2. \A y \in Zones : y # z => published'[y] = published[y]
                                     /\ PublishedSoa(y)' = PublishedSoa(y)
      BY <1>4, <2>1 DEF PublishedSoa
    <2>3. signed[z] \in 1 .. Len(copies[z])
      BY <1>0, <1>6, LenProperties DEF TypeOK, TreeType, ReferencesExist, Object
    <2>4. copies[z][signed[z]].soa \in Nat /\ copies[z][signed[z]].soa <= latest[z]
      BY <1>0, <2>3, ObjectType DEF SerialInv
    <2>5. latest[z] \in Nat
      BY <1>0, PipelineAssumption DEF TypeOK, LoaderType, Serial
    <2>6. PublishedSoa(z)' = copies[z][signed[z]].soa
      BY <1>4, <1>6, <2>1 DEF PublishedSoa
    <2>7. published'[z] # 0
      BY <1>6, <2>1
    <2>8. PublishedSoa(z)' \in 0 .. latest[z]
      BY <2>4, <2>5, <2>6
    <2> QED BY <1>0, <1>3, <1>4, <2>2, <2>7, <2>8, PromiseShow
  <1> QED BY <1>5, <1>6

\* Every step of the pipeline is one of PublishedZone, or none.
LEMMA PromiseStep == PromiseInv /\ [Next]_vars => [Reader!Next]_(Reader!vars)
  <1> SUFFICES ASSUME PromiseInv, [Next]_vars PROVE [Reader!Next]_(Reader!vars)
    OBVIOUS
  <1>0. LoadsOne
    BY LoaderFlowStep DEF PromiseInv
  <1>1. CASE PassedKept /\ published' = published /\ copies' = copies
    BY <1>0, <1>1, CopiesKeepShown, PromiseLoad
  <1>2. CASE \E r \in Servers : SeekApproval(r)
    BY <1>2, PromiseSeekApproval
  <1>3. CASE Reviewer
    BY <1>3, PromiseReviewer
  <1>4. CASE InsertSignedZone
    BY <1>4, PromiseInsert
  <1>5. CASE SignCommit
    BY <1>5, PromiseCommit
  <1>6. CASE PublishSwap
    BY <1>6, PromisePublishSwap
  <1>7. CASE Operator \/ Loader \/ \E y \in Zones : Resign(y)
    <2>1. CASE Operator
      BY <1>1, <2>1 DEF Operator, ZoneAdd, ZoneRemove, PassedKept, reviewVars, treeVars
    <2>2. CASE Loader
      BY <1>1, <2>2 DEF Loader, TransferBegin, TransferFail, TransferCommit, Activate,
         PassedKept, reviewVars, treeVars
    <2>3. CASE \E y \in Zones : Resign(y)
      BY <1>1, <2>3 DEF Resign, PassedKept, reviewVars, treeVars
    <2> QED BY <1>7, <2>1, <2>2, <2>3
  <1>8. CASE DirectUpdate \/ DropSigned \/ Client \/ UNCHANGED vars
    BY <1>1, <1>8 DEF DirectUpdate, DropSigned, Client, HangUp, RequestDead, PassedKept,
       reviewVars, treeVars, vars
  <1>9. CASE SignStart \/ FindSignedZone \/ Collect \/ SignFail
    BY <1>1, <1>9 DEF SignStart, FindSignedZone, Collect, SignFail, PassedKept, reviewVars,
       treeVars
  <1> QED BY <1>2, <1>3, <1>4, <1>5, <1>6, <1>7, <1>8, <1>9 DEF Next, Signer

\* Whatever the units do to the trees and the objects they share, a reader of the
\* published zones sees what PublishedZone promises: zones that passed both reviews,
\* one after the other and after a load, with serials that were loaded.
THEOREM PipelineKeepsPromises == Spec => KeepsPromises
  <1>1. Spec => Init /\ [][Next]_vars
    BY DEF Spec
  <1> QED BY <1>1, PromiseCorrect, PromiseInit, PromiseStep, PTL DEF KeepsPromises, Reader!Spec
-----------------------------------------------------------------------------
(* Only re-signing takes the reader back *)

\* Lost and stale stores of the signed tree leave this much in order: what any of
\* its copies holds of a zone is the newest object made, which is the one that the
\* signer writes to.
NewestInv ==
  /\ \A z \in Zones :
       /\ dropping.tree[z] # 0 => signed[z] = dropping.tree[z]
       /\ signer.phase = "insert" => signed[z] = 0 \/ signer.seen[z] = signed[z]
       /\ signed[z] \in {0, Len(copies[z])}
       /\ signer.seen[z] \in {0, Len(copies[z])}
  /\ signer.phase = "insert" => signer.seen[signer.version[1]] = 0
  /\ signer.phase \in {"collect", "sign"} => signer.target = Len(copies[signer.version[1]])

LEMMA NewestInit == Init => NewestInv
  <1> SUFFICES ASSUME Init PROVE NewestInv
    OBVIOUS
  <1>1. signer.phase = "idle" /\ signer.seen = EmptyTree
    BY IdleSignerType DEF Init, IdleSigner
  <1>2. signed = EmptyTree /\ dropping.tree = EmptyTree
    BY DEF Init
  <1> QED BY <1>1, <1>2 DEF NewestInv, EmptyTree

LEMMA NewestSigner ==
  ASSUME TypeOK, NewestInv, Signer
  PROVE  NewestInv'
  <1>1. PICK z \in Zones : z = signer.version[1]
    BY DEF TypeOK, SignerType, Version
  <1>2. dropping' = dropping
    BY DEF Signer, SignStart, FindSignedZone, InsertSignedZone, Collect, SignFail, SignCommit
  <1>3. CASE SignStart
    <2>1. signer' = signer \/ (signer'.phase = "lookup" /\ signer'.seen = EmptyTree)
      BY <1>3, IdleSignerType DEF SignStart
    <2>2. signed' = signed /\ copies' = copies
      BY <1>3 DEF SignStart, treeVars
    <2> QED BY <1>2, <2>1, <2>2 DEF NewestInv, EmptyTree
  <1>4. CASE FindSignedZone
    <2>1. signed' = signed /\ copies' = copies
      BY <1>4 DEF FindSignedZone, treeVars
    <2>2. CASE signed[z] # 0
      <3>1. /\ signer'.phase = "collect" /\ signer'.seen = signer.seen
            /\ signer'.version = signer.version /\ signer'.target = signed[z]
        BY <1>1, <1>4, <2>2 DEF FindSignedZone, TypeOK, SignerType
      <3> QED BY <1>1, <1>2, <2>1, <2>2, <3>1 DEF NewestInv
    <2>3. CASE signed[z] = 0
      <3>1. /\ signer'.phase = "insert" /\ signer'.seen = signed
            /\ signer'.version = signer.version
        BY <1>1, <1>4, <2>3 DEF FindSignedZone, TypeOK, SignerType
      <3> QED BY <1>1, <1>2, <2>1, <2>3, <3>1 DEF NewestInv
    <2> QED BY <2>2, <2>3
  <1>5. CASE InsertSignedZone
    <2>1. /\ copies \in [Zones -> Seq(Content)]
          /\ copies' = [copies EXCEPT ![z] = Append(copies[z], Blank)]
      BY <1>1, <1>5 DEF InsertSignedZone, TypeOK, TreeType
    <2>2. Len(Append(copies[z], Blank)) = Len(copies[z]) + 1
      BY <2>1, BlankType, AppendProperties
    <2>3. \A y \in Zones : Len(copies'[y]) = IF y = z THEN NextCopy(z) ELSE Len(copies[y])
      BY <2>1, <2>2 DEF NextCopy
    <2>4. \A y \in Zones : signed'[y] = IF y = z THEN NextCopy(z) ELSE signer.seen[y]
      BY <1>1, <1>5 DEF InsertSignedZone, Extended, TypeOK, SignerType, Tree
    <2>5. /\ signer'.phase = "collect" /\ signer'.seen = EmptyTree
          /\ signer'.version = signer.version /\ signer'.target = NextCopy(z)
          /\ signer.phase = "insert"
      BY <1>1, <1>5 DEF InsertSignedZone, TypeOK, SignerType
    <2>6. ASSUME NEW y \in Zones, dropping.tree[y] # 0
          PROVE  signed'[y] = dropping.tree[y]
      <3>1. signed[y] = dropping.tree[y] /\ signer.seen[y] = signed[y]
        BY <2>5, <2>6 DEF NewestInv
      <3>2. y # z
        BY <1>1, <2>5, <2>6, <3>1 DEF NewestInv
      <3> QED BY <2>4, <3>1, <3>2
    <2>7. \A y \in Zones : signed'[y] \in {0, Len(copies'[y])}
      BY <2>3, <2>4 DEF NewestInv
    <2> QED BY <1>1, <1>2, <2>3, <2>5, <2>6, <2>7 DEF NewestInv, EmptyTree
  <1>6. CASE Collect \/ SignFail
    <2>1. \/ signer'.phase = "idle" /\ signer'.seen = EmptyTree
          \/ /\ signer'.phase = "sign" /\ signer.phase = "collect"
             /\ signer'.seen = signer.seen /\ signer'.target = signer.target
             /\ signer'.version = signer.version
      <3>1. CASE signer' = IdleSigner
        BY <3>1, IdleSignerType DEF IdleSigner
      <3>2. CASE signer' # IdleSigner
        BY <1>6, <3>2 DEF Collect, SignFail, TypeOK, SignerType
      <3> QED BY <3>1, <3>2
    <2>2. signed' = signed /\ copies' = copies
      BY <1>6 DEF Collect, SignFail, treeVars
    <2> QED BY <1>2, <2>1, <2>2 DEF NewestInv, EmptyTree
  <1>7. CASE SignCommit
    <2>1. signer'.phase = "idle" /\ signer'.seen = EmptyTree /\ signed' = signed
      BY <1>7, IdleSignerType DEF SignCommit, IdleSigner
    <2>2. \A y \in Zones : Len(copies'[y]) = Len(copies[y])
      BY <1>7, CopiesAfterCommit
    <2> QED BY <1>2, <2>1, <2>2 DEF NewestInv, EmptyTree
  <1> QED BY <1>3, <1>4, <1>5, <1>6, <1>7 DEF Signer

LEMMA NewestStep == TypeOK /\ NewestInv /\ [Next]_vars => NewestInv'
  <1> SUFFICES ASSUME TypeOK, NewestInv, [Next]_vars PROVE NewestInv'
    OBVIOUS
  <1>1. CASE UNCHANGED <<copies, signed, signer, dropping>>
    BY <1>1 DEF NewestInv
  <1>2. CASE Signer
    BY <1>2, NewestSigner
  <1>3. CASE PublishSwap
    <2>1. UNCHANGED <<copies, signed, signer>>
      BY <1>3 DEF PublishSwap
    <2>2. \A y \in Zones : dropping'.tree[y] \in {0, signed[y], dropping.tree[y]}
      BY <1>3 DEF PublishSwap, TypeOK, TreeType, Tree
    <2> QED BY <2>1, <2>2 DEF NewestInv
  <1>4. CASE DropSigned
    <2>1. UNCHANGED <<copies, signer>> /\ signed' = dropping.tree /\ dropping'.tree = EmptyTree
      BY <1>4 DEF DropSigned
    <2> QED BY <2>1 DEF NewestInv, EmptyTree
  <1>5. CASE ~ (Signer \/ PublishSwap \/ DropSigned)
    <2>1. UNCHANGED <<copies, signed, dropping>> /\ UNCHANGED signer
      BY <1>5, TreeSteps, SignerSteps DEF Signer
    <2> QED BY <1>1, <2>1
  <1> QED BY <1>2, <1>3, <1>4, <1>5

\* Whatever snapshot of the signed tree is stored when, the tree holds the newest
\* object of a zone or none: signing never goes to an object that was replaced.
THEOREM SignedTreeHoldsTheNewest == Spec => []NewestInv
  BY TypeCorrect, NewestInit, NewestStep, PTL DEF Spec

\* As long as nothing was re-signed, every update and command that is under way names
\* a serial.
Naming == {v \in Version : v[2] # 0}
Fresh == {u \in Update : u.kind = "Changed" \/ (u.kind # "ResignZone" /\ u.version \in Naming)}

NamingInv ==
  /\ updates \in Seq(Fresh)
  /\ \A unit \in Units : queue[unit] \in Seq(Naming)
  /\ \A r \in Servers, v \in Version : pending[r][v] # {} => v \in Naming
  /\ signer.phase # "idle" => signer.version \in Naming

\* ... and nothing of a zone is newer than what is being signed of it, or than what
\* its newest object holds once it holds anything.
OrderInv ==
  /\ signer.phase # "idle" =>
       \A i \in 1 .. Len(copies[signer.version[1]]) :
         copies[signer.version[1]][i].soa <= signer.version[2]
  /\ \A z \in Zones : \A i \in 1 .. Len(copies[z]) :
       \/ copies[z][Len(copies[z])].soa = 0
       \/ copies[z][i].soa <= copies[z][Len(copies[z])].soa

LEMMA NamingInit == Init => NamingInv
  <1> SUFFICES ASSUME Init PROVE NamingInv
    OBVIOUS
  <1>1. updates = <<>> /\ \A unit \in Units : queue[unit] = <<>>
    BY DEF Init
  <1>2. \A S : <<>> \in Seq(S)
    BY EmptySeq
  <1>3. \A r \in Servers, v \in Version : pending[r][v] = {}
    BY DEF Init
  <1>4. signer.phase = "idle"
    BY DEF Init, IdleSigner
  <1>5. updates \in Seq(Fresh)
    BY <1>1, <1>2
  <1>6. \A unit \in Units : queue[unit] \in Seq(Naming)
    BY <1>1, <1>2
  <1> QED BY <1>3, <1>4, <1>5, <1>6 DEF NamingInv

LEMMA FreshMsg ==
  ASSUME NEW k \in UpdateKind, NEW z \in Zones, NEW s \in Serial,
         k = "Changed" \/ (k # "ResignZone" /\ s # 0)
  PROVE  Msg(k, z, s) \in Fresh
  <1>1. Msg(k, z, s) \in Update
    BY MsgType
  <1>2. <<z, s>> \in Version
    BY DEF Version
  <1> QED BY <1>1, <1>2 DEF Fresh, Naming, Msg

LEMMA FreshApproval ==
  ASSUME NEW r \in Servers, NEW v \in Naming
  PROVE  [kind |-> Approval(r), version |-> v] \in Fresh
  <1>1. [kind |-> Approval(r), version |-> v] \in Update
    BY DEF Approval, Update, UpdateKind, Naming
  <1> QED BY <1>1 DEF Fresh, Approval

LEMMA NamingOperator ==
  ASSUME TypeOK, NamingInv, Operator
  PROVE  NamingInv'
  <1>1. PICK z \in Zones : (\E p \in {"bare", "ready"}, s \in Serial : ZoneAdd(z, p, s))
                           \/ ZoneRemove(z)
    BY DEF Operator
  <1>2. Msg("Changed", z, 0) \in Fresh
    BY FreshMsg, BlankType DEF UpdateKind
  <1>3. UNCHANGED <<queue, pending, signer>>
    BY <1>1 DEF ZoneAdd, ZoneRemove, reviewVars
  <1>4. CASE ZoneRemove(z)
    <2>1. updates' \in Seq(Fresh)
      BY <1>2, <1>4, AppendProperties DEF ZoneRemove, Post, NamingInv
    <2> QED BY <1>3, <2>1 DEF NamingInv
  <1>5. ASSUME NEW p \in {"bare", "ready"}, NEW s \in Serial, ZoneAdd(z, p, s)
        PROVE  NamingInv'
    <2> DEFINE loaded == IF s = 0 THEN <<>> ELSE <<Msg("UnsignedZoneUpdated", z, s)>>
    <2>1. s # 0 => Msg("UnsignedZoneUpdated", z, s) \in Fresh
      BY FreshMsg DEF UpdateKind
    <2>2. ChangesOfAdd(z, p) \in Seq(Fresh) /\ loaded \in Seq(Fresh)
      BY <1>2, <2>1 DEF ChangesOfAdd
    <2>3. updates' = updates \o ChangesOfAdd(z, p) \o loaded
      BY <1>5 DEF ZoneAdd
    <2> HIDE DEF loaded
    <2>4. updates' \in Seq(Fresh)
      BY <2>2, <2>3, ConcatProperties DEF NamingInv
    <2> QED BY <1>3, <2>4 DEF NamingInv
  <1> QED BY <1>1, <1>4, <1>5

LEMMA NamingLoader ==
  ASSUME TypeOK, NamingInv, Loader
  PROVE  NamingInv'
  <1>1. PICK z \in Zones :
          TransferBegin(z) \/ TransferFail(z) \/ TransferCommit(z) \/ Activate(z)
    BY DEF Loader
  <1>2. UNCHANGED <<queue, pending, signer>>
    BY <1>1 DEF TransferBegin, TransferFail, TransferCommit, Activate, reviewVars
  <1>3. updates' \in Seq(Fresh)
    <2>1. CASE TransferCommit(z)
      <3>1. Msg("UnsignedZoneUpdated", z, incoming[z]) \in Fresh
        BY <2>1, FreshMsg DEF TransferCommit, TypeOK, LoaderType, UpdateKind
      <3> QED BY <2>1, <3>1, AppendProperties DEF TransferCommit, Post, NamingInv
    <2>2. CASE ~TransferCommit(z)
      BY <1>1, <2>2 DEF TransferBegin, TransferFail, Activate, NamingInv
    <2> QED BY <2>1, <2>2
  <1> QED BY <1>2, <1>3 DEF NamingInv

LEMMA NamingDirectUpdate ==
  ASSUME TypeOK, NamingInv, DirectUpdate
  PROVE  NamingInv'
  <1>1. UNCHANGED <<pending, signer>>
    BY DEF DirectUpdate, reviewVars
  <1>2. PICK u : u = Head(updates) /\ u \in Fresh /\ updates' = Tail(updates) /\ Tail(updates) \in Seq(Fresh)
    BY HeadTailProperties DEF NamingInv, DirectUpdate
  <1>3. \A unit \in Units : queue'[unit] \in Seq(Naming)
    <2>1. CASE u.kind = "Changed"
      BY <1>2, <2>1 DEF DirectUpdate, NamingInv
    <2>2. CASE u.kind # "Changed"
      <3>1. Target(u.kind) \in Units /\ u.version \in Naming
        BY <1>2, <2>2 DEF Fresh, Update, UpdateKind, Target, Units
      <3>2. queue' = [queue EXCEPT ![Target(u.kind)] = Append(@, u.version)]
        BY <1>2, <2>2 DEF DirectUpdate
      <3>3. \A unit \in Units : queue'[unit] =
              IF unit = Target(u.kind) THEN Append(queue[unit], u.version) ELSE queue[unit]
        BY <3>1, <3>2 DEF TypeOK, ChannelType
      <3>4. \A unit \in Units : queue[unit] \in Seq(Naming)
        BY DEF NamingInv
      <3>5. Append(queue[Target(u.kind)], u.version) \in Seq(Naming)
        BY <3>1, <3>4, AppendProperties
      <3> QED BY <3>3, <3>4, <3>5
    <2> QED BY <2>1, <2>2
  <1> QED BY <1>1, <1>2, <1>3 DEF NamingInv

\* A unit takes a command from its queue.
LEMMA NamingTake ==
  ASSUME TypeOK, NamingInv, NEW unit \in Units, queue[unit] # <<>>,
         queue' = [queue EXCEPT ![unit] = Tail(@)]
  PROVE  /\ Head(queue[unit]) \in Naming
         /\ \A q \in Units : queue'[q] \in Seq(Naming)
  <1>1. \A q \in Units : queue[q] \in Seq(Naming)
    BY DEF NamingInv
  <1>2. Head(queue[unit]) \in Naming /\ Tail(queue[unit]) \in Seq(Naming)
    BY <1>1, HeadTailProperties
  <1>3. \A q \in Units : queue'[q] = IF q = unit THEN Tail(queue[unit]) ELSE queue[q]
    BY DEF TypeOK, ChannelType
  <1> QED BY <1>1, <1>2, <1>3

LEMMA NamingReviews ==
  ASSUME TypeOK, NamingInv, (\E r \in Servers : SeekApproval(r)) \/ Reviewer
  PROVE  NamingInv'
  <1>1. signer' = signer
    BY DEF SeekApproval, Reviewer, Approve, Reject
  <1>2. ASSUME NEW r \in Servers, SeekApproval(r) PROVE NamingInv'
    <2>1. r \in Units /\ queue[r] # <<>> /\ queue' = [queue EXCEPT ![r] = Tail(@)]
      BY <1>2 DEF SeekApproval, Servers, Units
    <2>2. PICK v \in Naming : v = Head(queue[r])
      BY <2>1, NamingTake
    <2>3. \A q \in Units : queue'[q] \in Seq(Naming)
      BY <2>1, NamingTake
    <2>4. updates' \in Seq(Fresh)
      <3>1. updates' = updates \/ updates' = Append(updates, [kind |-> Approval(r), version |-> v])
        BY <1>2, <2>2 DEF SeekApproval, Announce
      <3> QED BY <3>1, FreshApproval, AppendProperties DEF NamingInv
    <2>5. \A q \in Servers, w \in Version : pending'[q][w] # {} => w \in Naming
      <3>1. pending' = pending \/ \E tokens : pending' = [pending EXCEPT ![r][v] = tokens]
        BY <1>2, <2>2 DEF SeekApproval
      <3>2. ASSUME NEW tokens, pending' = [pending EXCEPT ![r][v] = tokens]
            PROVE  \A q \in Servers, w \in Version :
                     ~(q = r /\ w = v) => pending'[q][w] = pending[q][w]
        BY <3>2 DEF TypeOK, ReviewType
      <3> QED BY <3>1, <3>2 DEF NamingInv
    <2> QED BY <1>1, <2>3, <2>4, <2>5 DEF NamingInv
  <1>3. CASE Reviewer
    <2>1. PICK r \in Servers, v \in Version : \E t \in pending[r][v] :
            Approve(r, v, t) \/ Reject(r, v, t)
      BY <1>3 DEF Reviewer
    <2>2. PICK t \in pending[r][v] : Approve(r, v, t) \/ Reject(r, v, t)
      BY <2>1
    <2>3. queue' = queue /\ v \in Naming
      BY <2>2 DEF Approve, Reject, NamingInv
    <2>4. updates' \in Seq(Fresh)
      <3>1. updates' = updates \/ updates' = Append(updates, [kind |-> Approval(r), version |-> v])
        BY <2>2 DEF Approve, Reject, Announce
      <3> QED BY <2>3, <3>1, FreshApproval, AppendProperties DEF NamingInv
    <2>5. \A q \in Servers, w \in Version : pending'[q][w] # {} => pending[q][w] # {}
      <3>1. PICK rest : pending' = [pending EXCEPT ![r][v] = rest] /\ rest \subseteq pending[r][v]
        BY <2>2 DEF Approve, Reject
      <3> QED BY <3>1 DEF TypeOK, ReviewType
    <2> QED BY <1>1, <2>3, <2>4, <2>5 DEF NamingInv
  <1> QED BY <1>2, <1>3

LEMMA NamingSigner ==
  ASSUME TypeOK, NamingInv, Signer
  PROVE  NamingInv'
  <1>1. pending' = pending
    BY DEF Signer, SignStart, FindSignedZone, InsertSignedZone, Collect, SignFail,
       SignCommit, reviewVars
  <1>2. PICK z \in Zones, s \in Serial : signer.version = <<z, s>>
    BY DEF TypeOK, SignerType, Version
  <1>3. CASE SignStart
    <2>1. /\ "ZS" \in Units /\ queue["ZS"] # <<>>
          /\ queue' = [queue EXCEPT !["ZS"] = Tail(@)] /\ updates' = updates
      BY <1>3 DEF SignStart, Units
    <2>2. PICK v \in Naming : v = Head(queue["ZS"])
      BY <2>1, NamingTake
    <2>3. \A q \in Units : queue'[q] \in Seq(Naming)
      BY <2>1, NamingTake
    <2>4. signer'.phase # "idle" => signer'.version \in Naming
      <3>1. CASE SoaToSign(v) = 0
        BY <1>3, <2>2, <3>1 DEF SignStart, NamingInv
      <3>2. CASE SoaToSign(v) # 0
        <4>1. signer'.version = <<v[1], SoaToSign(v)>>
          BY <1>3, <2>2, <3>2, IdleSignerType DEF SignStart
        <4>2. SoaToSign(v) \in Serial /\ v[1] \in Zones
          BY BlankType DEF Naming, Version, SoaToSign, TypeOK, LoaderType, Content
        <4> QED BY <3>2, <4>1, <4>2 DEF Naming, Version
      <3> QED BY <3>1, <3>2
    <2> QED BY <1>1, <2>1, <2>3, <2>4 DEF NamingInv
  <1>4. CASE SignCommit
    <2>1. Msg("ZoneSigned", z, s) \in Fresh
      <3>1. s # 0
        BY <1>2, <1>4 DEF SignCommit, NamingInv, Naming
      <3> QED BY <3>1, FreshMsg DEF UpdateKind
    <2>2. updates' = Append(updates, Msg("ZoneSigned", z, s)) /\ queue' = queue
      BY <1>2, <1>4 DEF SignCommit, Post
    <2>3. updates' \in Seq(Fresh)
      BY <2>1, <2>2, AppendProperties DEF NamingInv
    <2>4. signer'.phase = "idle"
      BY <1>4 DEF SignCommit, IdleSigner
    <2> QED BY <1>1, <2>2, <2>3, <2>4 DEF NamingInv
  <1>5. CASE FindSignedZone \/ InsertSignedZone \/ Collect \/ SignFail
    <2>1. updates' = updates /\ queue' = queue
      BY <1>5 DEF FindSignedZone, InsertSignedZone, Collect, SignFail
    <2>2. signer'.phase = "idle" \/ (signer.phase # "idle" /\ signer'.version = signer.version)
      BY <1>5, VersionStays
    <2> QED BY <1>1, <2>1, <2>2 DEF NamingInv
  <1> QED BY <1>3, <1>4, <1>5 DEF Signer

LEMMA NamingStep ==
  ASSUME TypeOK, NamingInv, [Next]_vars, ~\E z \in Zones : Resign(z)
  PROVE  NamingInv'
  <1>1. CASE Operator
    BY <1>1, NamingOperator
  <1>2. CASE Loader
    BY <1>2, NamingLoader
  <1>3. CASE DirectUpdate
    BY <1>3, NamingDirectUpdate
  <1>4. CASE (\E r \in Servers : SeekApproval(r)) \/ Reviewer
    BY <1>4, NamingReviews
  <1>5. CASE Signer
    BY <1>5, NamingSigner
  <1>6. CASE PublishSwap
    <2>1. /\ "PS" \in Units /\ queue["PS"] # <<>>
          /\ queue' = [queue EXCEPT !["PS"] = Tail(@)]
          /\ UNCHANGED <<updates, pending, signer>>
      BY <1>6 DEF PublishSwap, Units, reviewVars
    <2>2. \A q \in Units : queue'[q] \in Seq(Naming)
      BY <2>1, NamingTake
    <2> QED BY <2>1, <2>2 DEF NamingInv
  <1>7. CASE DropSigned \/ Client \/ UNCHANGED vars
    BY <1>7 DEF DropSigned, Client, HangUp, RequestDead, vars, reviewVars, NamingInv
  <1> QED BY <1>1, <1>2, <1>3, <1>4, <1>5, <1>6, <1>7 DEF Next

\* A command that names a serial signs the newest that was loaded.
LEMMA NamedIsNewest ==
  ASSUME TypeOK, SerialInv, NEW v \in Naming, SoaToSign(v) # 0
  PROVE  SoaToSign(v) = latest[v[1]]
  BY DEF SoaToSign, SerialInv, Naming, Version

LEMMA OrderSigner ==
  ASSUME TypeOK, SerialInv, NewestInv, NamingInv, OrderInv, Signer
  PROVE  OrderInv'
  <1>1. PICK z \in Zones, s \in Nat : signer.version = <<z, s>>
    BY PipelineAssumption DEF TypeOK, SignerType, Version, Serial
  <1>2. \A y \in Zones : Len(copies[y]) \in Nat
    BY LenProperties DEF TypeOK, TreeType
  <1>3. \A y \in Zones : \A i \in 1 .. Len(copies[y]) : copies[y][i].soa \in Nat
    BY ObjectType
  <1>4. CASE copies' = copies
    <2>1. CASE SignStart
      <3>1. "ZS" \in Units /\ queue["ZS"] # <<>> /\ queue' = [queue EXCEPT !["ZS"] = Tail(@)]
        BY <2>1 DEF SignStart, Units
      <3>2. PICK v \in Naming : v = Head(queue["ZS"])
        BY <3>1, NamingTake
      <3>3. CASE SoaToSign(v) = 0
        BY <1>4, <2>1, <3>2, <3>3 DEF SignStart, OrderInv
      <3>4. CASE SoaToSign(v) # 0
        <4>1. signer'.version = <<v[1], SoaToSign(v)>> /\ v[1] \in Zones
          BY <2>1, <3>2, <3>4, IdleSignerType DEF SignStart, Naming, Version
        <4>2. SoaToSign(v) = latest[v[1]]
          BY <3>4, NamedIsNewest
        <4>3. \A i \in 1 .. Len(copies[v[1]]) : copies[v[1]][i].soa <= SoaToSign(v)
          BY <4>1, <4>2 DEF SerialInv
        <4> QED BY <1>4, <4>1, <4>3 DEF OrderInv
      <3> QED BY <3>3, <3>4
    <2>2. CASE signer'.phase = "idle" \/ (signer.phase # "idle" /\ signer'.version = signer.version)
      BY <1>4, <2>2 DEF OrderInv
    <2>3. CASE FindSignedZone \/ InsertSignedZone \/ Collect \/ SignFail \/ SignCommit
      BY <2>2, <2>3, VersionStays
    <2> QED BY <2>1, <2>3 DEF Signer
  <1>5. CASE InsertSignedZone
    <2>1. /\ copies \in [Zones -> Seq(Content)]
          /\ copies' = [copies EXCEPT ![z] = Append(copies[z], Blank)]
      BY <1>1, <1>5 DEF InsertSignedZone, TypeOK, TreeType
    <2>2. /\ Len(Append(copies[z], Blank)) = Len(copies[z]) + 1
          /\ Append(copies[z], Blank)[Len(copies[z]) + 1] = Blank
      BY <2>1, BlankType, AppendProperties
    <2>3. copies'[z][Len(copies'[z])].soa = 0
      BY <2>1, <2>2 DEF Blank
    <2>4. \A y \in Zones : y # z => copies'[y] = copies[y]
      BY <2>1
    <2>5. \A y \in Zones : \A i \in 1 .. Len(copies'[y]) :
            \/ copies'[y][Len(copies'[y])].soa = 0
            \/ copies'[y][i].soa <= copies'[y][Len(copies'[y])].soa
      BY <2>3, <2>4 DEF OrderInv
    <2>6. signer.phase # "idle" /\ signer'.version = signer.version
      BY <1>5 DEF InsertSignedZone, TypeOK, SignerType
    <2>7. \A i \in 1 .. Len(copies'[z]) : copies'[z][i].soa <= s
      <3>1. ASSUME NEW i \in 1 .. Len(copies'[z]) PROVE copies'[z][i].soa <= s
        <4>1. \/ i \in 1 .. Len(copies[z]) /\ copies'[z][i] = copies[z][i]
              \/ copies'[z][i] = Blank
          BY <1>5, CopiesAfterInsert
        <4>2. CASE copies'[z][i] = Blank
          BY <4>2 DEF Blank
        <4>3. CASE i \in 1 .. Len(copies[z]) /\ copies'[z][i] = copies[z][i]
          BY <1>1, <2>6, <4>3 DEF OrderInv
        <4> QED BY <4>1, <4>2, <4>3
      <3> QED BY <3>1
    <2> QED BY <1>1, <2>5, <2>6, <2>7 DEF OrderInv
  <1>6. CASE SignCommit
    <2>1. signer'.phase = "idle" /\ signer.phase = "sign"
      BY <1>6 DEF SignCommit, IdleSigner
    <2>2. signer.target = Len(copies[z])
      BY <1>1, <2>1 DEF NewestInv
    <2>3. \A i \in 1 .. Len(copies[z]) : copies[z][i].soa <= s
      BY <1>1, <2>1 DEF OrderInv
    <2>4. ASSUME NEW y \in Zones, NEW i \in 1 .. Len(copies'[y])
          PROVE  \/ copies'[y][Len(copies'[y])].soa = 0
                 \/ copies'[y][i].soa <= copies'[y][Len(copies'[y])].soa
      <3>1. /\ Len(copies'[y]) = Len(copies[y])
            /\ \A j \in 1 .. Len(copies[y]) :
                 copies'[y][j].soa = IF y = z /\ j = Len(copies[z]) THEN s ELSE copies[y][j].soa
        BY <1>1, <1>6, <2>2, CopiesAfterCommit
      <3>2. i \in 1 .. Len(copies[y]) /\ Len(copies[y]) \in 1 .. Len(copies[y])
        BY <1>2, <3>1
      <3>3. CASE y = z
        <4>1. copies'[y][Len(copies'[y])].soa = s
          BY <3>1, <3>2, <3>3
        <4>2. copies'[y][i].soa <= s
          BY <2>3, <3>1, <3>2, <3>3
        <4> QED BY <4>1, <4>2
      <3>4. CASE y # z
        BY <3>1, <3>2, <3>4 DEF OrderInv
      <3> QED BY <3>3, <3>4
    <2> QED BY <2>1, <2>4 DEF OrderInv
  <1>7. CASE SignStart \/ FindSignedZone \/ Collect \/ SignFail
    BY <1>4, <1>7 DEF SignStart, FindSignedZone, Collect, SignFail, treeVars
  <1> QED BY <1>5, <1>6, <1>7 DEF Signer

LEMMA OrderStep ==
  ASSUME TypeOK, SerialInv, NewestInv, NamingInv, OrderInv, [Next]_vars
  PROVE  OrderInv'
  <1>1. CASE UNCHANGED <<copies, signer>>
    BY <1>1 DEF OrderInv
  <1>2. CASE Signer
    BY <1>2, OrderSigner
  <1>3. CASE ~ Signer
    <2>1. UNCHANGED copies
      BY <1>3, TreeSteps DEF Signer, PublishSwap, DropSigned
    <2> QED BY <1>1, <1>3, <2>1, SignerSteps
  <1> QED BY <1>2, <1>3

LEMMA OrderInit == Init => OrderInv
  <1> SUFFICES ASSUME Init PROVE OrderInv
    OBVIOUS
  <1>1. \A z \in Zones : copies[z] = <<>>
    BY DEF Init
  <1>2. \A z \in Zones : Len(copies[z]) = 0
    BY <1>1, EmptySeq
  <1>3. signer.phase = "idle"
    BY DEF Init, IdleSigner
  <1> QED BY <1>2, <1>3 DEF OrderInv

\* What a step may do to the serial that a reader finds, if commands name serials.
LEMMA ShownGrows ==
  ASSUME TypeOK, NewestInv, OrderInv, [Next]_vars, NEW z \in Zones
  PROVE  PublishedSoa(z)' = 0 \/ PublishedSoa(z)' >= PublishedSoa(z)
  <1>1. PublishedSoa(z) \in Nat
    <2>1. CASE published[z] # 0
      <3>1. published[z] \in 1 .. Len(copies[z])
        BY <2>1, LenProperties DEF TypeOK, TreeType, ReferencesExist, Object
      <3> QED BY <2>1, <3>1, ObjectType DEF PublishedSoa
    <2>2. CASE published[z] = 0
      BY <2>2 DEF PublishedSoa
    <2> QED BY <2>1, <2>2
  <1>2. CASE PublishedSoa(z)' = PublishedSoa(z)
    BY <1>1, <1>2
  <1>3. CASE published' = published /\ copies' = copies
    BY <1>2, <1>3 DEF PublishedSoa
  <1>4. CASE InsertSignedZone
    BY <1>2, <1>4, ShownAfterInsert
  <1>5. CASE SignCommit
    <2>1. PICK y \in Zones, s \in Nat : signer.version = <<y, s>>
      BY PipelineAssumption DEF TypeOK, SignerType, Version, Serial
    <2>2. CASE published[z] # 0 /\ z = y /\ published[z] = signer.target
      <3>1. PublishedSoa(z)' = s
        BY <1>5, <2>1, <2>2, ShownAfterCommit
      <3>2. published[z] \in 1 .. Len(copies[z])
        BY <2>2, LenProperties DEF TypeOK, TreeType, ReferencesExist, Object
      <3>3. copies[z][published[z]].soa <= s
        BY <1>5, <2>1, <2>2, <3>2 DEF OrderInv, SignCommit
      <3> QED BY <1>1, <2>2, <3>1, <3>3 DEF PublishedSoa
    <2>3. CASE ~(published[z] # 0 /\ z = y /\ published[z] = signer.target)
      BY <1>2, <1>5, <2>1, <2>3, ShownAfterCommit
    <2> QED BY <2>2, <2>3
  <1>6. CASE PublishSwap
    <2>1. copies' = copies
      BY <1>6 DEF PublishSwap
    <2>2. published'[z] \in {published[z], signed[z]}
      BY <1>6 DEF PublishSwap, TypeOK, TreeType, Tree
    <2>3. CASE published'[z] = published[z]
      BY <1>2, <2>1, <2>3 DEF PublishedSoa
    <2>4. CASE published'[z] = signed[z] /\ signed[z] # 0 /\ published[z] # 0
      <3>1. signed[z] = Len(copies[z])
        BY <2>4 DEF NewestInv
      <3>2. PublishedSoa(z)' = copies[z][Len(copies[z])].soa
        BY <2>1, <2>4, <3>1 DEF PublishedSoa
      <3>3. published[z] \in 1 .. Len(copies[z])
        BY <2>4, LenProperties DEF TypeOK, TreeType, ReferencesExist, Object
      <3>4. \/ copies[z][Len(copies[z])].soa = 0
            \/ copies[z][published[z]].soa <= copies[z][Len(copies[z])].soa
        BY <3>3 DEF OrderInv
      <3>5. copies[z][Len(copies[z])].soa \in Nat
        BY <2>4, <3>1, <3>3, LenProperties, ObjectType DEF TypeOK, TreeType
      <3> QED BY <1>1, <2>4, <3>2, <3>4, <3>5 DEF PublishedSoa
    <2>5. CASE published[z] = 0
      <3>1. PublishedSoa(z) = 0
        BY <2>5 DEF PublishedSoa
      <3>2. PublishedSoa(z)' = 0 \/ PublishedSoa(z)' \in Nat
        <4>1. CASE published'[z] # 0
          <5>1. signed[z] \in 1 .. Len(copies[z])
            BY <2>2, <2>5, <4>1, LenProperties DEF TypeOK, TreeType, ReferencesExist, Object
          <5> QED BY <2>1, <2>2, <2>5, <4>1, <5>1, ObjectType DEF PublishedSoa
        <4>2. CASE published'[z] = 0
          BY <4>2 DEF PublishedSoa
        <4> QED BY <4>1, <4>2
      <3> QED BY <3>1, <3>2
    <2>6. CASE published'[z] = 0
      BY <2>6 DEF PublishedSoa
    <2> QED BY <2>2, <2>3, <2>4, <2>5, <2>6
  <1>7. CASE DropSigned
    BY <1>3, <1>7 DEF DropSigned
  <1> QED BY <1>3, <1>4, <1>5, <1>6, <1>7, TreeSteps

\* As long as nothing is re-signed, no reader is taken back to an older serial: neither
\* lost or stale stores of the trees, nor versions that overtake each other, nor
\* commands that are obeyed with a serial they did not name bring that about.
THEOREM OnlyResigningGoesBack ==
  Spec /\ [](spent.resigns = 0) => PublishedNeverGoesBack
  <1> DEFINE Base == TypeOK /\ SerialInv /\ NewestInv
             Forward == \A z \in Zones : PublishedSoa(z)' = 0 \/ PublishedSoa(z)' >= PublishedSoa(z)
             Calm == spent.resigns = 0
             Ordered == NamingInv /\ OrderInv
  <1>1. Spec => []Base
    BY TypeCorrect, SerialsWereLoaded, SignedTreeHoldsTheNewest, PTL
  <1>2. Init => Ordered
    BY NamingInit, OrderInit
  <1>3. Base /\ Ordered /\ Calm' /\ [Next]_vars => Ordered'
    <2> SUFFICES ASSUME Base, Ordered, Calm', [Next]_vars PROVE Ordered'
      OBVIOUS
    <2>1. ~\E z \in Zones : Resign(z)
      BY DEF Resign, TypeOK, CenterType
    <2> QED BY <2>1, NamingStep, OrderStep
  <1>4. Base /\ Ordered /\ [Next]_vars => [Forward]_vars
    BY ShownGrows
  <1> HIDE DEF Base, Ordered, Calm, Forward
  <1>5. Spec /\ []Calm => []Ordered
    BY <1>1, <1>2, <1>3, PTL DEF Spec
  <1>6. Spec /\ []Calm => [][Forward]_vars
    BY <1>1, <1>4, <1>5, PTL DEF Spec
  <1> QED BY <1>6 DEF Calm, Forward, PublishedNeverGoesBack

(***************************************************************************)
(* What it takes to lose a signed zone.                                    *)
(***************************************************************************)

\* The signer and the publication server both have a copy of the signed tree that they
\* are going to store.
CopiesOverlap == signer.phase = "insert" /\ dropping.on

CopiesInHand ==
  /\ signer.phase = "insert" => signer.seen = signed /\ signed[signer.version[1]] = 0
  /\ dropping.on => \A z \in Zones : dropping.tree[z] = signed[z] \/ published[z] = signed[z]

(* The copies stay as the tree is, but for the zone that was published, as long as one *)
(* of them is in use at a time.                                                        *)
LEMMA StepInHand ==
  ASSUME TypeOK, CopiesInHand, ~CopiesOverlap, [Next]_vars PROVE CopiesInHand'
<1>1. ASSUME UNCHANGED <<signed, published, signer, dropping>> PROVE CopiesInHand'
  BY <1>1 DEF CopiesInHand
<1>2. CASE UNCHANGED vars
  BY <1>1, <1>2 DEF vars, treeVars
<1>3. CASE Operator
  BY <1>1, <1>3 DEF Operator, ZoneAdd, ZoneRemove, treeVars
<1>4. CASE Loader
  BY <1>1, <1>4 DEF Loader, TransferBegin, TransferFail, TransferCommit, Activate, treeVars
<1>5. CASE \E z \in Zones : Resign(z)
  BY <1>1, <1>5 DEF Resign, treeVars
<1>6. CASE DirectUpdate \/ (\E r \in Servers : SeekApproval(r)) \/ Reviewer \/ Client
  BY <1>1, <1>6 DEF DirectUpdate, SeekApproval, Reviewer, Approve, Reject, Client, HangUp, RequestDead,
                    treeVars
<1>7. CASE Signer
  <2>1. UNCHANGED <<published, dropping>>
    BY <1>7 DEF Signer, SignStart, FindSignedZone, InsertSignedZone, Collect, SignFail, SignCommit, treeVars
  <2>2. CASE FindSignedZone
    <3>1. /\ UNCHANGED signed
          /\ \/ signer' = [signer EXCEPT !.phase = "collect", !.target = signed[signer.version[1]]]
             \/ /\ signed[signer.version[1]] = 0
                /\ signer' = [signer EXCEPT !.phase = "insert", !.seen = signed]
      BY <2>2 DEF FindSignedZone, treeVars
    <3>2. DOMAIN signer = {"phase", "version", "source", "target", "seen", "body"}
      BY DEF TypeOK, SignerType
    <3> QED BY <2>1, <3>1, <3>2 DEF CopiesInHand
  <2>3. CASE InsertSignedZone
    <3>1. ~dropping.on
      BY <2>3 DEF InsertSignedZone, CopiesOverlap
    <3>2. signer'.phase = "collect"
      BY <2>3 DEF InsertSignedZone, TypeOK, SignerType
    <3> QED BY <2>1, <3>1, <3>2 DEF CopiesInHand
  <2>4. CASE SignStart \/ Collect \/ SignFail \/ SignCommit
    <3>1. UNCHANGED signed
      BY <2>4 DEF SignStart, Collect, SignFail, SignCommit, treeVars
    <3>2. signer'.phase # "insert"
      <4>1. IdleSigner.phase = "idle" /\ DOMAIN IdleSigner = {"phase", "version", "source", "target", "seen", "body"}
        BY DEF IdleSigner
      <4>2. DOMAIN signer = {"phase", "version", "source", "target", "seen", "body"}
        BY DEF TypeOK, SignerType
      <4>3. CASE SignStart
        BY <4>1, <4>3 DEF SignStart
      <4>4. CASE Collect
        BY <4>1, <4>2, <4>4 DEF Collect
      <4> QED BY <2>4, <4>1, <4>3, <4>4 DEF SignFail, SignCommit
    <3> QED BY <2>1, <3>1, <3>2 DEF CopiesInHand
  <2> QED BY <1>7, <2>2, <2>3, <2>4 DEF Signer
<1>8. CASE PublishSwap
  <2>1. UNCHANGED <<signed, signer>>
    BY <1>8 DEF PublishSwap
  <2>2. CASE UNCHANGED <<published, dropping>>
    BY <1>1, <2>1, <2>2
  <2>3. ASSUME NEW y \in Zones, published' = [published EXCEPT ![y] = signed[y]],
               dropping' = [on |-> TRUE, tree |-> [signed EXCEPT ![y] = 0]]
        PROVE  CopiesInHand'
    BY <2>1, <2>3 DEF CopiesInHand, TypeOK, TreeType, Tree
  <2>4. Head(queue["PS"])[1] \in Zones
    BY <1>8 DEF PublishSwap, TypeOK, ChannelType, Version, Units
  <2> QED BY <1>8, <2>2, <2>3, <2>4 DEF PublishSwap
<1>9. CASE DropSigned
  BY <1>9 DEF DropSigned, CopiesInHand, CopiesOverlap
<1> QED BY <1>2, <1>3, <1>4, <1>5, <1>6, <1>7, <1>8, <1>9 DEF Next

LEMMA InHandLosesNone ==
  ASSUME TypeOK, CopiesInHand, [Next]_vars
  PROVE  \A z \in Zones : signed[z] # 0 /\ signed'[z] # signed[z] => published[z] = signed[z]
<1>1. UNCHANGED signed \/ InsertSignedZone \/ DropSigned
  BY TreeSteps DEF SignCommit, PublishSwap
<1>2. CASE InsertSignedZone
  BY <1>2 DEF InsertSignedZone, Extended, CopiesInHand, TypeOK, TreeType, Tree
<1>3. CASE DropSigned
  BY <1>3 DEF DropSigned, CopiesInHand
<1> QED BY <1>1, <1>2, <1>3

(* "Move the zone from the signed collection to the published collection": a signed zone *)
(* leaves the signed tree other than by its publication only if the signer and the       *)
(* publication server have a copy of the tree in their hands at a time.                  *)
THEOREM OnlyOverlapsUndo == Spec /\ [](~CopiesOverlap) => SignedLeavesByPublishing
<1>1. Init => CopiesInHand
  BY DEF Init, CopiesInHand, IdleSigner
<1>2. TypeOK /\ CopiesInHand /\ ~CopiesOverlap /\ [Next]_vars => CopiesInHand'
  BY StepInHand
<1>3. TypeOK /\ CopiesInHand /\ [Next]_vars =>
        [\A z \in Zones : signed[z] # 0 /\ signed'[z] # signed[z] => published[z] = signed[z]]_vars
  BY InHandLosesNone
<1> QED BY <1>1, <1>2, <1>3, TypeCorrect, PTL DEF Spec, SignedLeavesByPublishing
-----------------------------------------------------------------------------
(***************************************************************************)
(* The way of a signed version from its signing to its publication         *)
(***************************************************************************)

\* x is among what a channel holds.
Waits(channel, x) == \E i \in 1 .. Len(channel) : channel[i] = x

\* A signed version between the signer and the approval of RS2 ...
UnderReview(v) ==
  \/ Waits(updates, [kind |-> "ZoneSigned", version |-> v])
  \/ Waits(queue["RS2"], v)
  \/ pending["RS2"][v] # {}

\* ... and between that approval and the publication server.
Accepted(v) ==
  \/ Waits(updates, [kind |-> "SignedZoneApproved", version |-> v])
  \/ Waits(queue["PS"], v)

LEMMA WaitsAppend ==
  ASSUME NEW S, NEW s \in Seq(S), NEW x \in S, NEW y
  PROVE  Waits(Append(s, x), y) <=> Waits(s, y) \/ y = x
<1>1. Len(Append(s, x)) = Len(s) + 1 /\ Len(s) \in Nat
  OBVIOUS
<1>2. \A i \in 1 .. Len(s) : Append(s, x)[i] = s[i]
  OBVIOUS
<1>3. Append(s, x)[Len(s) + 1] = x
  OBVIOUS
<1> QED BY <1>1, <1>2, <1>3 DEF Waits

LEMMA WaitsTail ==
  ASSUME NEW S, NEW s \in Seq(S), s # <<>>, NEW y
  PROVE  Waits(s, y) <=> y = Head(s) \/ Waits(Tail(s), y)
<1>1. Len(Tail(s)) = Len(s) - 1 /\ Len(s) \in Nat \ {0}
  OBVIOUS
<1>2. Head(s) = s[1] /\ \A i \in 1 .. Len(Tail(s)) : Tail(s)[i] = s[i + 1]
  OBVIOUS
<1>3. ASSUME Waits(s, y) PROVE y = Head(s) \/ Waits(Tail(s), y)
  <2>1. PICK i \in 1 .. Len(s) : s[i] = y
    BY <1>3 DEF Waits
  <2>2. CASE i = 1
    BY <1>2, <2>1, <2>2
  <2>3. CASE i # 1
    <3>1. i - 1 \in 1 .. Len(Tail(s)) /\ (i - 1) + 1 = i
      BY <1>1, <2>3
    <3> QED BY <1>2, <2>1, <3>1 DEF Waits
  <2> QED BY <2>2, <2>3
<1>4. y = Head(s) => Waits(s, y)
  BY <1>1, <1>2 DEF Waits
<1>5. ASSUME Waits(Tail(s), y) PROVE Waits(s, y)
  <2>1. PICK i \in 1 .. Len(Tail(s)) : Tail(s)[i] = y
    BY <1>5 DEF Waits
  <2>2. i + 1 \in 1 .. Len(s)
    BY <1>1, <2>1
  <2> QED BY <1>2, <2>1, <2>2 DEF Waits
<1> QED BY <1>3, <1>4, <1>5

LEMMA WaitsConcat ==
  ASSUME NEW S, NEW s \in Seq(S), NEW t \in Seq(S), NEW y, Waits(s \o t, y)
  PROVE  Waits(s, y) \/ \E i \in 1 .. Len(t) : t[i] = y
<1>1. PICK i \in 1 .. Len(s \o t) : (s \o t)[i] = y
  BY DEF Waits
<1>2. Len(s \o t) = Len(s) + Len(t) /\ Len(s) \in Nat /\ Len(t) \in Nat
  OBVIOUS
<1>3. CASE i <= Len(s)
  BY <1>1, <1>2, <1>3 DEF Waits
<1>4. CASE i > Len(s)
  <2>1. i - Len(s) \in 1 .. Len(t)
    BY <1>1, <1>2, <1>4
  <2>2. (s \o t)[i] = t[i - Len(s)]
    BY <1>1, <1>2, <1>4
  <2> QED BY <1>1, <2>1, <2>2
<1> QED BY <1>1, <1>2, <1>3, <1>4

LEMMA WaitsLonger ==
  ASSUME NEW S, NEW s \in Seq(S), NEW t \in Seq(S), NEW y, Waits(s, y)
  PROVE  Waits(s \o t, y)
<1>1. PICK i \in 1 .. Len(s) : s[i] = y
  BY DEF Waits
<1>2. Len(s \o t) = Len(s) + Len(t) /\ Len(s) \in Nat /\ Len(t) \in Nat /\ (s \o t)[i] = s[i]
  BY <1>1
<1> QED BY <1>1, <1>2 DEF Waits

WayKept(v) == (UnderReview(v)' <=> UnderReview(v)) /\ (Accepted(v)' <=> Accepted(v))

\* Updates of the other kinds do not concern a signed version.
Unrelated == {u \in Update : u.kind \notin {"ZoneSigned", "SignedZoneApproved"}}

LEMMA WayPost ==
  ASSUME TypeOK, NEW new \in Seq(Unrelated), updates' = updates \o new,
         UNCHANGED <<queue, pending>>, NEW v
  PROVE  WayKept(v)
<1>1. updates \in Seq(Update) /\ new \in Seq(Update)
  <2>1. Unrelated \subseteq Update
    BY DEF Unrelated
  <2> QED BY <2>1, SeqMonotonic DEF TypeOK, ChannelType
<1>2. ASSUME NEW k \in {"ZoneSigned", "SignedZoneApproved"}
      PROVE  Waits(updates', [kind |-> k, version |-> v]) <=> Waits(updates, [kind |-> k, version |-> v])
  <2>1. \A i \in 1 .. Len(new) : new[i] \in Unrelated
    OBVIOUS
  <2>2. [kind |-> k, version |-> v] \notin Unrelated
    BY DEF Unrelated
  <2>3. \A i \in 1 .. Len(new) : new[i] # [kind |-> k, version |-> v]
    BY <2>1, <2>2
  <2>4. ASSUME Waits(updates', [kind |-> k, version |-> v])
        PROVE  Waits(updates, [kind |-> k, version |-> v])
    <3>1. Waits(updates \o new, [kind |-> k, version |-> v])
      BY <2>4
    <3> QED BY <1>1, <2>3, <3>1, WaitsConcat
  <2>5. ASSUME Waits(updates, [kind |-> k, version |-> v])
        PROVE  Waits(updates', [kind |-> k, version |-> v])
    <3>1. Waits(updates \o new, [kind |-> k, version |-> v])
      BY <1>1, <2>5, WaitsLonger
    <3> QED BY <3>1
  <2> QED BY <2>4, <2>5
<1> QED BY <1>2 DEF WayKept, UnderReview, Accepted

LEMMA WayStays ==
  ASSUME TypeOK, UNCHANGED <<updates, queue, pending>>, NEW v
  PROVE  WayKept(v)
  BY DEF WayKept, UnderReview, Accepted

LEMMA WayPostOne ==
  ASSUME TypeOK, NEW u \in Unrelated, updates' = Append(updates, u),
         UNCHANGED <<queue, pending>>, NEW v
  PROVE  WayKept(v)
<1>1. updates \in Seq(Update) /\ u \in Update
  BY DEF TypeOK, ChannelType, Unrelated
<1>2. updates' = updates \o <<u>>
  BY <1>1, AppendIsConcat
<1>3. <<u>> \in Seq(Unrelated)
  OBVIOUS
<1> QED BY <1>2, <1>3, WayPost

LEMMA UnrelatedMsg ==
  ASSUME NEW z \in Zones, NEW s \in Serial,
         NEW k \in UpdateKind \ {"ZoneSigned", "SignedZoneApproved"}
  PROVE  Msg(k, z, s) \in Unrelated
<1>1. Msg(k, z, s) \in Update
  BY MsgType
<1> QED BY <1>1 DEF Unrelated, Msg

LEMMA WayOperator ==
  ASSUME TypeOK, Operator, NEW v PROVE WayKept(v)
<1>1. PICK z \in Zones : (\E p \in {"bare", "ready"}, s \in Serial : ZoneAdd(z, p, s))
                         \/ ZoneRemove(z)
  BY DEF Operator
<1>2. UNCHANGED <<queue, pending>>
  BY <1>1 DEF ZoneAdd, ZoneRemove, reviewVars
<1>3. CASE ZoneRemove(z)
  <2>1. Msg("Changed", z, 0) \in Unrelated
    BY UnrelatedMsg, BlankType DEF UpdateKind
  <2> QED BY <1>2, <1>3, <2>1, WayPostOne DEF ZoneRemove, Post
<1>4. ASSUME NEW p \in {"bare", "ready"}, NEW s \in Serial, ZoneAdd(z, p, s)
      PROVE  WayKept(v)
  <2> DEFINE loaded == IF s = 0 THEN <<>> ELSE <<Msg("UnsignedZoneUpdated", z, s)>>
  <2>1. Msg("Changed", z, 0) \in Unrelated /\ Msg("UnsignedZoneUpdated", z, s) \in Unrelated
    BY UnrelatedMsg, BlankType DEF UpdateKind
  <2>2. ChangesOfAdd(z, p) \in Seq(Unrelated) /\ loaded \in Seq(Unrelated)
    BY <2>1 DEF ChangesOfAdd
  <2>3. ChangesOfAdd(z, p) \o loaded \in Seq(Unrelated)
    BY <2>2, ConcatProperties
  <2>4. updates' = updates \o (ChangesOfAdd(z, p) \o loaded)
    <3>1. updates' = updates \o ChangesOfAdd(z, p) \o loaded
      BY <1>4 DEF ZoneAdd
    <3>2. Unrelated \subseteq Update
      BY DEF Unrelated
    <3>3. ChangesOfAdd(z, p) \in Seq(Update) /\ loaded \in Seq(Update)
      BY <2>2, <3>2, SeqMonotonic
    <3>4. updates \in Seq(Update)
      BY DEF TypeOK, ChannelType
    <3> HIDE DEF loaded
    <3> QED BY <3>1, <3>3, <3>4, TwoPosts
  <2> HIDE DEF loaded
  <2> QED BY <1>2, <2>3, <2>4, WayPost
<1> QED BY <1>1, <1>3, <1>4

LEMMA WayLoader ==
  ASSUME TypeOK, Loader \/ \E z \in Zones : Resign(z), NEW v PROVE WayKept(v)
<1>1. PICK z \in Zones : TransferBegin(z) \/ TransferFail(z) \/ TransferCommit(z)
                         \/ Activate(z) \/ Resign(z)
  BY DEF Loader
<1>2. UNCHANGED <<queue, pending>>
  BY <1>1 DEF TransferBegin, TransferFail, TransferCommit, Activate, Resign, reviewVars
<1>3. incoming[z] \in Serial
  BY DEF TypeOK, LoaderType
<1>4. /\ Msg("UnsignedZoneUpdated", z, incoming[z]) \in Unrelated
      /\ Msg("ResignZone", z, 0) \in Unrelated
  BY <1>3, UnrelatedMsg, BlankType DEF UpdateKind
<1>5. CASE TransferCommit(z)
  BY <1>2, <1>4, <1>5, WayPostOne DEF TransferCommit, Post
<1>6. CASE Resign(z)
  BY <1>2, <1>4, <1>6, WayPostOne DEF Resign, Post
<1>7. CASE TransferBegin(z) \/ TransferFail(z) \/ Activate(z)
  BY <1>2, <1>7, WayStays DEF TransferBegin, TransferFail, Activate
<1> QED BY <1>1, <1>5, <1>6, <1>7

LEMMA WayDirectUpdate ==
  ASSUME TypeOK, DirectUpdate, NEW v PROVE WayKept(v)
<1>1. pending' = pending
  BY DEF DirectUpdate, reviewVars
<1>2. updates \in Seq(Update) /\ updates # <<>> /\ updates' = Tail(updates)
  BY DEF TypeOK, ChannelType, DirectUpdate
<1>3. PICK u \in Update : u = Head(updates)
  BY <1>2, HeadTailProperties
<1>4. \A y : Waits(updates, y) <=> y = u \/ Waits(updates', y)
  BY <1>2, <1>3, WaitsTail
<1>5. \A k : u = [kind |-> k, version |-> v] <=> u.kind = k /\ u.version = v
  BY DEF Update
<1>6. CASE u.kind = "Changed"
  <2>1. queue' = queue
    BY <1>3, <1>6 DEF DirectUpdate
  <2> QED BY <1>1, <1>4, <1>5, <1>6, <2>1 DEF WayKept, UnderReview, Accepted
<1>7. CASE u.kind # "Changed"
  <2>1. Target(u.kind) \in Units /\ u.version \in Version
    BY <1>7 DEF Update, UpdateKind, Target, Units
  <2>2. queue' = [queue EXCEPT ![Target(u.kind)] = Append(@, u.version)]
    BY <1>3, <1>7 DEF DirectUpdate
  <2>3. \A unit \in Units : queue'[unit] =
          IF unit = Target(u.kind) THEN Append(queue[unit], u.version) ELSE queue[unit]
    BY <2>1, <2>2 DEF TypeOK, ChannelType
  <2>4. \A unit \in Units : queue[unit] \in Seq(Version)
    BY DEF TypeOK, ChannelType
  <2>5. \A unit \in Units :
          Waits(queue'[unit], v) <=> Waits(queue[unit], v) \/ (unit = Target(u.kind) /\ v = u.version)
    BY <2>1, <2>3, <2>4, WaitsAppend
  <2>6. /\ Target(u.kind) = "RS2" <=> u.kind = "ZoneSigned"
        /\ Target(u.kind) = "PS" <=> u.kind = "SignedZoneApproved"
    BY <1>7 DEF Update, UpdateKind, Target
  <2>7. "RS2" \in Units /\ "PS" \in Units
    BY DEF Units
  <2> QED BY <1>1, <1>4, <1>5, <2>5, <2>6, <2>7 DEF WayKept, UnderReview, Accepted
<1> QED BY <1>6, <1>7

\* How a step may take a signed version along: it starts under review as the signer
\* commits it, is accepted by a review alone, and then leaves to be published.
WayForward(v) ==
  /\ UnderReview(v)' => UnderReview(v) \/ (SignCommit /\ v = signer.version)
  /\ Accepted(v)' => \/ Accepted(v)
                     \/ UnderReview(v) /\ (Hooks["RS2"] = 0 \/ v \in approved'["RS2"])
  /\ Accepted(v) => Accepted(v)' \/ (PublishSwap /\ v = Head(queue["PS"]))
  /\ v \in approved["RS2"] => v \in approved'["RS2"]
  /\ v \in approved'["RS2"] => v \in approved["RS2"] \/ (Accepted(v)' /\ UnderReview(v))

LEMMA WayKeptForward ==
  ASSUME NEW v, WayKept(v), approved' = approved PROVE WayForward(v)
  BY DEF WayKept, WayForward

LEMMA WayTake ==
  ASSUME TypeOK, NEW unit \in Units, queue[unit] # <<>>,
         queue' = [queue EXCEPT ![unit] = Tail(@)], NEW v
  PROVE  /\ Waits(queue[unit], v) <=> v = Head(queue[unit]) \/ Waits(queue'[unit], v)
         /\ \A q \in Units : q # unit => queue'[q] = queue[q]
<1>1. queue[unit] \in Seq(Version) /\ queue'[unit] = Tail(queue[unit])
  BY DEF TypeOK, ChannelType
<1>2. \A q \in Units : q # unit => queue'[q] = queue[q]
  BY DEF TypeOK, ChannelType
<1> QED BY <1>1, <1>2, WaitsTail

\* What the announcement of an approval adds to the updates.
LEMMA WayAnnounce ==
  ASSUME TypeOK, NEW r \in Servers, NEW w \in Version,
         updates' = Append(updates, [kind |-> Approval(r), version |-> w]), NEW v
  PROVE  /\ Waits(updates', [kind |-> "ZoneSigned", version |-> v])
              <=> Waits(updates, [kind |-> "ZoneSigned", version |-> v])
         /\ Waits(updates', [kind |-> "SignedZoneApproved", version |-> v])
              <=> \/ Waits(updates, [kind |-> "SignedZoneApproved", version |-> v])
                  \/ r = "RS2" /\ v = w
<1>1. updates \in Seq(Update)
  BY DEF TypeOK, ChannelType
<1>2. PICK u \in Update : u = [kind |-> Approval(r), version |-> w]
  BY DEF Approval, Update, UpdateKind
<1>3. \A y : Waits(updates', y) <=> Waits(updates, y) \/ y = u
  BY <1>1, <1>2, WaitsAppend
<1>4. u.kind = (IF r = "RS" THEN "UnsignedZoneApproved" ELSE "SignedZoneApproved") /\ u.version = w
  BY <1>2 DEF Approval
<1>5. \A k : [kind |-> k, version |-> v] = u <=> k = u.kind /\ v = u.version
  BY <1>2
<1>6. r = "RS" \/ r = "RS2"
  BY DEF Servers
<1> QED BY <1>3, <1>4, <1>5, <1>6

LEMMA WaySeekApproval ==
  ASSUME TypeOK, NEW r \in Servers, SeekApproval(r), NEW v \in Version PROVE WayForward(v)
<1>1. approved' = approved
  BY DEF SeekApproval
<1>2. /\ r \in Units /\ queue[r] # <<>> /\ queue' = [queue EXCEPT ![r] = Tail(@)]
      /\ "RS2" \in Units /\ "PS" \in Units /\ r # "PS" /\ "RS2" \in Servers
  BY DEF SeekApproval, Servers, Units
<1>3. PICK w \in Version : w = Head(queue[r])
  BY <1>2, HeadTailProperties DEF TypeOK, ChannelType
<1>4. /\ Waits(queue[r], v) <=> v = w \/ Waits(queue'[r], v)
      /\ queue'["PS"] = queue["PS"]
      /\ r # "RS2" => queue'["RS2"] = queue["RS2"]
  BY <1>2, <1>3, WayTake
<1>5. Waits(queue'["RS2"], v) => Waits(queue["RS2"], v)
  BY <1>4
<1>6. r = "RS2" /\ v = w => Waits(queue["RS2"], v)
  BY <1>4
<1>7. pending'["RS2"][v] # {} => pending["RS2"][v] # {} \/ (r = "RS2" /\ v = w)
  <2>1. pending' = pending \/ \E tokens : pending' = [pending EXCEPT ![r][w] = tokens]
    BY <1>3 DEF SeekApproval
  <2>2. ASSUME NEW tokens, pending' = [pending EXCEPT ![r][w] = tokens]
        PROVE  ~(r = "RS2" /\ v = w) => pending'["RS2"][v] = pending["RS2"][v]
    BY <1>2, <2>2 DEF TypeOK, ReviewType
  <2> QED BY <2>1, <2>2
<1>8. CASE updates' = updates
  BY <1>1, <1>4, <1>5, <1>6, <1>7, <1>8 DEF WayForward, UnderReview, Accepted
<1>9. CASE updates' # updates
  <2>1. /\ updates' = Append(updates, [kind |-> Approval(r), version |-> w])
        /\ Hooks[r] = 0
    BY <1>3, <1>9 DEF SeekApproval, Announce
  <2>2. /\ Waits(updates', [kind |-> "ZoneSigned", version |-> v])
             => Waits(updates, [kind |-> "ZoneSigned", version |-> v])
        /\ Waits(updates', [kind |-> "SignedZoneApproved", version |-> v])
             <=> \/ Waits(updates, [kind |-> "SignedZoneApproved", version |-> v])
                 \/ r = "RS2" /\ v = w
    BY <2>1, WayAnnounce
  <2> QED BY <1>1, <1>4, <1>5, <1>6, <1>7, <2>1, <2>2 DEF WayForward, UnderReview, Accepted
<1> QED BY <1>8, <1>9

LEMMA WayReviewer ==
  ASSUME TypeOK, Reviewer, NEW v \in Version PROVE WayForward(v)
<1>1. PICK r \in Servers, w \in Version : \E t \in pending[r][w] :
        Approve(r, w, t) \/ Reject(r, w, t)
  BY DEF Reviewer
<1>2. PICK t \in pending[r][w] : Approve(r, w, t) \/ Reject(r, w, t)
  BY <1>1
<1>3. queue' = queue
  BY <1>2 DEF Approve, Reject
<1>4. "RS2" \in Servers
  BY DEF Servers
<1>5. pending'["RS2"][v] # {} => pending["RS2"][v] # {}
  <2>1. PICK rest : pending' = [pending EXCEPT ![r][w] = rest] /\ rest \subseteq pending[r][w]
    BY <1>2 DEF Approve, Reject
  <2> QED BY <1>4, <2>1 DEF TypeOK, ReviewType
<1>6. CASE UNCHANGED <<updates, approved>>
  BY <1>3, <1>5, <1>6 DEF WayForward, UnderReview, Accepted
<1>7. CASE ~UNCHANGED <<updates, approved>>
  <2>1. /\ updates' = Append(updates, [kind |-> Approval(r), version |-> w])
        /\ approved' = [approved EXCEPT ![r] = @ \cup {w}]
    BY <1>2, <1>7 DEF Approve, Reject, Announce
  <2>2. /\ Waits(updates', [kind |-> "ZoneSigned", version |-> v])
             => Waits(updates, [kind |-> "ZoneSigned", version |-> v])
        /\ Waits(updates', [kind |-> "SignedZoneApproved", version |-> v])
             <=> \/ Waits(updates, [kind |-> "SignedZoneApproved", version |-> v])
                 \/ r = "RS2" /\ v = w
    BY <2>1, WayAnnounce
  <2>3. approved'["RS2"] = IF r = "RS2" THEN approved["RS2"] \cup {w} ELSE approved["RS2"]
    BY <1>4, <2>1 DEF TypeOK, ReviewType
  <2>4. r = "RS2" /\ v = w => pending["RS2"][v] # {}
    BY <1>2
  <2> QED BY <1>3, <1>5, <2>2, <2>3, <2>4 DEF WayForward, UnderReview, Accepted
<1> QED BY <1>6, <1>7

LEMMA WaySigner ==
  ASSUME TypeOK, Signer, NEW v \in Version PROVE WayForward(v)
<1>1. UNCHANGED <<pending, approved>>
  BY DEF Signer, SignStart, FindSignedZone, InsertSignedZone, Collect, SignFail, SignCommit, reviewVars
<1>2. CASE SignStart
  <2>1. /\ "ZS" \in Units /\ queue["ZS"] # <<>>
        /\ queue' = [queue EXCEPT !["ZS"] = Tail(@)] /\ updates' = updates
    BY <1>2 DEF SignStart, Units
  <2>2. queue'["RS2"] = queue["RS2"] /\ queue'["PS"] = queue["PS"]
    BY <2>1, WayTake DEF Units
  <2>3. WayKept(v)
    BY <1>1, <2>1, <2>2 DEF WayKept, UnderReview, Accepted
  <2> QED BY <1>1, <2>3, WayKeptForward
<1>3. CASE SignCommit
  <2>1. PICK z \in Zones, s \in Serial : signer.version = <<z, s>>
    BY DEF TypeOK, SignerType, Version
  <2>2. Msg("ZoneSigned", z, s) \in Update /\ updates \in Seq(Update)
    BY MsgType DEF UpdateKind, TypeOK, ChannelType
  <2>3. updates' = Append(updates, Msg("ZoneSigned", z, s)) /\ queue' = queue
    BY <1>3, <2>1 DEF SignCommit, Post
  <2>4. \A y : Waits(updates', y) <=> Waits(updates, y) \/ y = Msg("ZoneSigned", z, s)
    BY <2>2, <2>3, WaitsAppend
  <2>5. /\ [kind |-> "ZoneSigned", version |-> v] = Msg("ZoneSigned", z, s) => v = signer.version
        /\ [kind |-> "SignedZoneApproved", version |-> v] # Msg("ZoneSigned", z, s)
    BY <2>1 DEF Msg
  <2> QED BY <1>1, <1>3, <2>3, <2>4, <2>5 DEF WayForward, UnderReview, Accepted
<1>4. CASE FindSignedZone \/ InsertSignedZone \/ Collect \/ SignFail
  <2>1. UNCHANGED <<updates, queue>>
    BY <1>4 DEF FindSignedZone, InsertSignedZone, Collect, SignFail
  <2> QED BY <1>1, <2>1, WayStays, WayKeptForward
<1> QED BY <1>2, <1>3, <1>4 DEF Signer

LEMMA WayPublish ==
  ASSUME TypeOK, PublishSwap, NEW v \in Version PROVE WayForward(v)
<1>1. UNCHANGED <<updates, pending, approved>>
  BY DEF PublishSwap, reviewVars
<1>2. /\ "PS" \in Units /\ "RS2" \in Units /\ queue["PS"] # <<>>
      /\ queue' = [queue EXCEPT !["PS"] = Tail(@)]
  BY DEF PublishSwap, Units
<1>3. /\ Waits(queue["PS"], v) <=> v = Head(queue["PS"]) \/ Waits(queue'["PS"], v)
      /\ queue'["RS2"] = queue["RS2"]
  BY <1>2, WayTake
<1> QED BY <1>1, <1>3 DEF WayForward, UnderReview, Accepted

LEMMA WayStep ==
  ASSUME TypeOK, [Next]_vars, NEW v \in Version PROVE WayForward(v)
<1>1. CASE Operator
  <2>1. approved' = approved
    BY <1>1 DEF Operator, ZoneAdd, ZoneRemove, reviewVars
  <2> QED BY <1>1, <2>1, WayOperator, WayKeptForward
<1>2. CASE Loader \/ \E z \in Zones : Resign(z)
  <2>1. approved' = approved
    BY <1>2 DEF Loader, TransferBegin, TransferFail, TransferCommit, Activate, Resign, reviewVars
  <2> QED BY <1>2, <2>1, WayLoader, WayKeptForward
<1>3. CASE DirectUpdate
  <2>1. approved' = approved
    BY <1>3 DEF DirectUpdate, reviewVars
  <2> QED BY <1>3, <2>1, WayDirectUpdate, WayKeptForward
<1>4. CASE (\E r \in Servers : SeekApproval(r)) \/ Reviewer
  BY <1>4, WaySeekApproval, WayReviewer
<1>5. CASE Signer
  BY <1>5, WaySigner
<1>6. CASE PublishSwap
  BY <1>6, WayPublish
<1>7. CASE DropSigned \/ Client \/ UNCHANGED vars
  <2>1. UNCHANGED <<updates, queue, pending, approved>>
    BY <1>7 DEF DropSigned, Client, HangUp, RequestDead, vars, reviewVars
  <2> QED BY <2>1, WayStays, WayKeptForward
<1> QED BY <1>1, <1>2, <1>3, <1>4, <1>5, <1>6, <1>7 DEF Next

\* There is a signed copy of the zone for the publication server to find, or one that
\* it found before.
Held(z) == signed[z] # 0 \/ published[z] # 0

WayInv ==
  /\ \A v \in Version :
       /\ v \in approved["RS2"] => Accepted(v) \/ published[v[1]] # 0
       /\ UnderReview(v) \/ Accepted(v) => Held(v[1])
  /\ signer.phase \in {"collect", "sign"} => Held(signer.version[1])

LEMMA HeldStays ==
  ASSUME TypeOK, CopiesInHand, ~CopiesOverlap, [Next]_vars, NEW z \in Zones
  PROVE  /\ Held(z) => Held(z)'
         /\ published[z] # 0 => published'[z] # 0
<1>1. UNCHANGED <<signed, published>> \/ InsertSignedZone \/ DropSigned \/ PublishSwap
  BY TreeSteps DEF SignCommit
<1>2. CASE UNCHANGED <<signed, published>>
  BY <1>2 DEF Held
<1>3. CASE InsertSignedZone
  BY <1>3 DEF InsertSignedZone, Extended, NextCopy, CopiesInHand, CopiesOverlap, Held, TypeOK, TreeType, Tree
<1>4. CASE DropSigned
  BY <1>4 DEF DropSigned, CopiesInHand, Held
<1>5. CASE PublishSwap
  <2>1. signed' = signed
    BY <1>5 DEF PublishSwap
  <2>2. published'[z] = published[z] \/ (published'[z] = signed[z] /\ signed[z] # 0)
    BY <1>5 DEF PublishSwap, TypeOK, TreeType, Tree
  <2> QED BY <2>1, <2>2 DEF Held
<1> QED BY <1>1, <1>2, <1>3, <1>4, <1>5

\* A signing operation that collects the records has an object to sign into.
LEMMA SignsWhatIsHeld ==
  ASSUME TypeOK, WayInv, CopiesInHand, ~CopiesOverlap, [Next]_vars,
         signer'.phase \in {"collect", "sign"}, NEW z, z = signer'.version[1]
  PROVE  Held(z)'
<1>1. signer.version \in Version /\ signer.version[1] \in Zones
  BY DEF TypeOK, SignerType, Version
<1>2. DOMAIN signer = {"phase", "version", "source", "target", "seen", "body"}
      /\ DOMAIN IdleSigner = {"phase", "version", "source", "target", "seen", "body"}
      /\ IdleSigner.phase = "idle"
  BY DEF TypeOK, SignerType, IdleSigner
<1>3. UNCHANGED signer \/ Signer
  BY SignerSteps
<1>4. ASSUME signer.phase \in {"collect", "sign"}, signer'.version = signer.version
      PROVE  Held(z)'
  <2>1. z \in Zones /\ Held(z)
    BY <1>1, <1>4 DEF WayInv
  <2> QED BY <2>1, HeldStays
<1>5. CASE UNCHANGED signer
  BY <1>4, <1>5
<1>6. CASE FindSignedZone
  <2>1. /\ UNCHANGED signed
        /\ \/ /\ signed[signer.version[1]] # 0
              /\ signer' = [signer EXCEPT !.phase = "collect", !.target = signed[signer.version[1]]]
           \/ signer' = [signer EXCEPT !.phase = "insert", !.seen = signed]
    BY <1>6 DEF FindSignedZone, treeVars
  <2>2. signer'.version = signer.version
    BY <1>2, <2>1
  <2>3. signed[signer.version[1]] # 0
    BY <1>2, <2>1
  <2> QED BY <2>1, <2>2, <2>3 DEF Held
<1>7. CASE InsertSignedZone
  <2>1. signer'.version = signer.version
    BY <1>2, <1>7 DEF InsertSignedZone
  <2>2. signer.seen \in Tree /\ copies \in [Zones -> Seq(Content)]
    BY DEF TypeOK, SignerType, TreeType
  <2>3. signed'[signer.version[1]] = Len(copies[signer.version[1]]) + 1
    BY <1>1, <1>7, <2>2 DEF InsertSignedZone, Extended, NextCopy, Tree
  <2>4. Len(copies[signer.version[1]]) \in Nat
    BY <1>1, <2>2
  <2>5. signed'[z] # 0
    BY <2>1, <2>3, <2>4
  <2> QED BY <2>5 DEF Held
<1>8. CASE Collect
  <2>1. signer.phase = "collect"
    BY <1>8 DEF Collect
  <2>2. signer' = IdleSigner \/ \E b : signer' = [signer EXCEPT !.phase = "sign", !.body = b]
    BY <1>8 DEF Collect
  <2>3. signer'.version = signer.version
    BY <1>2, <2>2
  <2> QED BY <1>4, <2>1, <2>3
<1>9. CASE SignStart
  <2>1. signer' = signer \/ signer'.phase = "lookup"
    BY <1>2, <1>9 DEF SignStart
  <2>2. signer.phase = "idle"
    BY <1>9 DEF SignStart
  <2> QED BY <2>1, <2>2
<1>10. CASE SignFail \/ SignCommit
  BY <1>2, <1>10 DEF SignFail, SignCommit
<1> QED BY <1>3, <1>5, <1>6, <1>7, <1>8, <1>9, <1>10 DEF Signer

LEMMA WayInvStep ==
  ASSUME TypeOK, WayInv, CopiesInHand, ~CopiesOverlap, [Next]_vars PROVE WayInv'
<1>1. ASSUME NEW v \in Version, UnderReview(v)' \/ Accepted(v)' PROVE Held(v[1])'
  <2>1. v[1] \in Zones
    BY DEF Version
  <2>2. Held(v[1]) => Held(v[1])'
    BY <2>1, HeldStays
  <2>3. CASE SignCommit /\ v = signer.version
    BY <2>2, <2>3 DEF SignCommit, WayInv
  <2>4. CASE ~(SignCommit /\ v = signer.version)
    <3>1. UnderReview(v) \/ Accepted(v)
      BY <1>1, <2>4, WayStep DEF WayForward
    <3> QED BY <2>2, <3>1 DEF WayInv
  <2> QED BY <2>3, <2>4
<1>2. ASSUME NEW v \in Version, v \in approved'["RS2"]
      PROVE  Accepted(v)' \/ published'[v[1]] # 0
  <2>1. v[1] \in Zones
    BY DEF Version
  <2>2. CASE v \notin approved["RS2"]
    BY <1>2, <2>2, WayStep DEF WayForward
  <2>3. CASE published[v[1]] # 0
    BY <2>1, <2>3, HeldStays
  <2>4. CASE Accepted(v) /\ published[v[1]] = 0
    <3>1. Accepted(v)' \/ (PublishSwap /\ v = Head(queue["PS"]))
      BY <2>4, WayStep DEF WayForward
    <3>2. signed[v[1]] # 0
      BY <2>4 DEF WayInv, Held
    <3>3. CASE PublishSwap /\ v = Head(queue["PS"])
      BY <2>1, <3>2, <3>3 DEF PublishSwap, TypeOK, TreeType, Tree
    <3> QED BY <3>1, <3>3
  <2> QED BY <2>2, <2>3, <2>4 DEF WayInv
<1>3. ASSUME signer'.phase \in {"collect", "sign"} PROVE (Held(signer.version[1]))'
  <2>1. \A z : z = signer'.version[1] => Held(z)'
    BY <1>3, SignsWhatIsHeld
  <2> QED BY <2>1 DEF Held
<1> QED BY <1>1, <1>2, <1>3 DEF WayInv

LEMMA WayInit == Init => WayInv
<1> SUFFICES ASSUME Init PROVE WayInv
  OBVIOUS
<1>1. signer.phase = "idle"
  BY DEF Init, IdleSigner
<1>2. updates = <<>> /\ queue["RS2"] = <<>> /\ queue["PS"] = <<>>
  BY DEF Init, Units
<1>3. \A v \in Version : pending["RS2"][v] = {} /\ v \notin approved["RS2"]
  BY DEF Init, Servers
<1>4. \A x : ~Waits(<<>>, x)
  BY DEF Waits
<1> QED BY <1>1, <1>2, <1>3, <1>4 DEF WayInv, UnderReview, Accepted

\* The approval of the version is still to become a command, or the command waits for a
\* publication server that lives.
StillToBePublished(v) ==
  \/ \E i \in 1 .. Len(updates) : updates[i] = [kind |-> "SignedZoneApproved", version |-> v]
  \/ "PS" \notin dead /\ \E i \in 1 .. Len(queue["PS"]) : queue["PS"][i] = v

\* A signed version that a reviewer has approved is published, or its approval or the
\* command to publish it is under way and will find a signed zone, or the command waits
\* for a publication server that died.
ApprovedOnItsWay ==
  \A v \in Version :
    /\ v \in approved["RS2"] =>
         published[v[1]] # 0 \/ StillToBePublished(v) \/ DiesUnpublished(v)
    /\ StillToBePublished(v) => Held(v[1])

\* Two things alone make the pipeline forget an approved zone between its review and its
\* publication: copies of the signed tree that overlap, and the death of the publication
\* server while the command waits for it.  A later version or a re-signing of the zone, a
\* rejection, a removal or the death of any other unit does not.
THEOREM OnlyOverlapsForgetApproved == Spec /\ [](~CopiesOverlap) => []ApprovedOnItsWay
<1>1. Init => CopiesInHand /\ WayInv
  BY WayInit DEF Init, CopiesInHand, IdleSigner
<1>2. TypeOK /\ CopiesInHand /\ WayInv /\ ~CopiesOverlap /\ [Next]_vars => CopiesInHand' /\ WayInv'
  BY StepInHand, WayInvStep
<1>3. WayInv => ApprovedOnItsWay
  BY DEF WayInv, ApprovedOnItsWay, Accepted, Waits, StillToBePublished, DiesUnpublished
<1> QED BY <1>1, <1>2, <1>3, TypeCorrect, PTL DEF Spec
-----------------------------------------------------------------------------
(***************************************************************************)
(* What it takes to publish a version that was rejected                    *)
(***************************************************************************)

\* The publication server has published the zone's object and not yet stored the signed
\* tree without it.
BeingStored(z) == dropping.on /\ signed[z] # 0 /\ published[z] = signed[z]

\* A signed version of the zone is on its way to the reader.
OnItsWay(z) == BeingStored(z) \/ \E v \in Version : v[1] = z /\ (UnderReview(v) \/ Accepted(v))

\* A zone is signed anew while a signed version of it is on its way.
SigningOvertakes == signer.phase # "idle" /\ OnItsWay(signer.version[1])

\* With a review of signed zones, what a reader finds is what was approved.
PublishedWasApproved ==
  \A z \in Zones :
    published[z] # 0 => Hooks["RS2"] = 0 \/ <<z, PublishedSoa(z)>> \in approved["RS2"]

\* Zones that are signed one version after the other: the object under review is the one
\* that the signed tree holds, and nobody rewrites it.
TurnInv ==
  /\ \A z \in Zones : signed[z] # 0 /\ published[z] = signed[z]
                        => dropping.on /\ dropping.tree[z] = 0
  /\ signer.phase \in {"collect", "sign"} =>
       signed[signer.version[1]] # 0 /\ signer.target = signed[signer.version[1]]
  /\ \A v \in Version :
       /\ Accepted(v) => Hooks["RS2"] = 0 \/ v \in approved["RS2"]
       /\ UnderReview(v) \/ Accepted(v) =>
            signed[v[1]] = 0 \/ copies[v[1]][signed[v[1]]].soa = v[2]
  /\ PublishedWasApproved

\* What the lemmas assume of a step.
InTurn == TypeOK /\ NewestInv /\ CopiesInHand /\ TurnInv /\ ~CopiesOverlap /\ ~SigningOvertakes

LEMMA SignsOneZone ==
  ASSUME TypeOK
  PROVE  \E z \in Zones, s \in Serial : signer.version = <<z, s>>
  BY DEF TypeOK, SignerType, Version

\* What the insertion of a new object leaves.
LEMMA TreesAfterInsert ==
  ASSUME TypeOK, CopiesInHand, InsertSignedZone, NEW z \in Zones
  PROVE  /\ UNCHANGED <<published, dropping>>
         /\ z # signer.version[1] => signed'[z] = signed[z] /\ copies'[z] = copies[z]
         /\ z = signer.version[1] =>
              /\ signed'[z] = Len(copies[z]) + 1 /\ signed'[z] # 0
              /\ published[z] # signed'[z]
<1>1. signed' = [signed EXCEPT ![signer.version[1]] = Len(copies[signer.version[1]]) + 1]
  BY DEF InsertSignedZone, Extended, NextCopy, CopiesInHand
<1>2. copies' = [copies EXCEPT ![signer.version[1]] = Append(@, Blank)] /\ UNCHANGED <<published, dropping>>
  BY DEF InsertSignedZone
<1>3. Len(copies[z]) \in Nat /\ published[z] \in 0 .. Len(copies[z])
  BY DEF TypeOK, TreeType, ReferencesExist, Object
<1>4. /\ z # signer.version[1] => signed'[z] = signed[z] /\ copies'[z] = copies[z]
      /\ z = signer.version[1] => signed'[z] = Len(copies[z]) + 1
  BY <1>1, <1>2 DEF TypeOK, TreeType, Tree
<1> QED BY <1>2, <1>3, <1>4

\* What the commit of a signed zone leaves.
LEMMA TreesAfterCommit ==
  ASSUME InTurn, SignCommit, NEW z \in Zones
  PROVE  /\ UNCHANGED <<signed, published, dropping>>
         /\ z # signer.version[1] => copies'[z] = copies[z]
         /\ z = signer.version[1] =>
              /\ signed[z] # 0 /\ copies'[z][signed[z]].soa = signer.version[2]
              /\ published[z] # signed[z]
              /\ published[z] # 0 => copies'[z][published[z]] = copies[z][published[z]]
<1>1. /\ UNCHANGED <<signed, published, dropping>>
      /\ copies' = [copies EXCEPT ![signer.version[1]][signer.target] =
                      [soa |-> signer.version[2], body |-> signer.body]]
  BY DEF SignCommit
<1>2. copies \in [Zones -> Seq(Content)]
  BY DEF InTurn, TypeOK, TreeType
<1>3. z # signer.version[1] => copies'[z] = copies[z]
  BY <1>1, <1>2
<1>4. ASSUME z = signer.version[1]
      PROVE  /\ signed[z] # 0 /\ copies'[z][signed[z]].soa = signer.version[2]
             /\ published[z] # signed[z]
             /\ published[z] # 0 => copies'[z][published[z]] = copies[z][published[z]]
  <2>1. signed[z] # 0 /\ signer.target = signed[z] /\ signer.phase = "sign"
    BY <1>4 DEF InTurn, TurnInv, SignCommit
  <2>2. published[z] # signed[z]
    BY <1>4, <2>1 DEF InTurn, TurnInv, SigningOvertakes, OnItsWay, BeingStored
  <2>3. copies[z] \in Seq(Content) /\ signed[z] \in 1 .. Len(copies[z])
        /\ published[z] \in 0 .. Len(copies[z])
    BY <1>2, <2>1, LenProperties DEF InTurn, TypeOK, ReferencesExist, Object
  <2>4. copies'[z] = [copies[z] EXCEPT ![signed[z]] = [soa |-> signer.version[2], body |-> signer.body]]
    BY <1>1, <1>2, <1>4, <2>1
  <2>5. DOMAIN copies[z] = 1 .. Len(copies[z])
    BY <2>3
  <2>6. copies'[z][signed[z]].soa = signer.version[2]
    BY <2>3, <2>4, <2>5
  <2>7. published[z] # 0 => copies'[z][published[z]] = copies[z][published[z]]
    BY <2>2, <2>3, <2>4, <2>5
  <2> QED BY <2>1, <2>2, <2>6, <2>7
<1> QED BY <1>1, <1>3, <1>4

\* What a publication leaves.
LEMMA TreesAfterSwap ==
  ASSUME TypeOK, PublishSwap, NEW z \in Zones
  PROVE  /\ UNCHANGED <<copies, signed>> /\ ~dropping.on
         /\ \/ published'[z] = published[z]
            \/ /\ z = Head(queue["PS"])[1] /\ signed[z] # 0
               /\ published'[z] = signed[z] /\ dropping'.on /\ dropping'.tree[z] = 0
<1>1. UNCHANGED <<copies, signed>> /\ ~dropping.on
  BY DEF PublishSwap
<1>2. PICK y \in Zones : y = Head(queue["PS"])[1]
  BY HeadTailProperties DEF PublishSwap, TypeOK, ChannelType, Version, Units
<1>3. CASE UNCHANGED <<published, dropping>>
  BY <1>1, <1>3
<1>4. CASE /\ signed[y] # 0 /\ published' = [published EXCEPT ![y] = signed[y]]
           /\ dropping' = [on |-> TRUE, tree |-> [signed EXCEPT ![y] = 0]]
  BY <1>1, <1>2, <1>4 DEF TypeOK, TreeType, Tree
<1> QED BY <1>2, <1>3, <1>4 DEF PublishSwap

\* What the store of the signed tree leaves.
LEMMA TreesAfterDrop ==
  ASSUME TypeOK, NewestInv, DropSigned, NEW z \in Zones
  PROVE  /\ UNCHANGED <<copies, published>> /\ dropping.on
         /\ signed'[z] = dropping.tree[z]
         /\ signed'[z] = 0 \/ signed'[z] = signed[z]
  BY DEF DropSigned, NewestInv

\* The objects that are shared, and the object signed into.
LEMMA TurnShared ==
  ASSUME InTurn, [Next]_vars, NEW z \in Zones, signed'[z] # 0, published'[z] = signed'[z]
  PROVE  dropping'.on /\ dropping'.tree[z] = 0
<1>1. CASE UNCHANGED <<copies, signed, published, dropping>>
  BY <1>1 DEF InTurn, TurnInv
<1>2. CASE InsertSignedZone
  BY <1>2, TreesAfterInsert DEF InTurn, TurnInv
<1>3. CASE SignCommit
  BY <1>3, TreesAfterCommit DEF InTurn, TurnInv
<1>4. CASE PublishSwap
  BY <1>4, TreesAfterSwap DEF InTurn, TurnInv
<1>5. CASE DropSigned
  BY <1>5, TreesAfterDrop DEF InTurn, TurnInv
<1> QED BY <1>1, <1>2, <1>3, <1>4, <1>5, TreeSteps

LEMMA TurnTarget ==
  ASSUME InTurn, [Next]_vars, signer'.phase \in {"collect", "sign"},
         NEW z, z = signer'.version[1]
  PROVE  signed'[z] # 0 /\ signer'.target = signed'[z]
<1>1. signer.version \in Version /\ signer.version[1] \in Zones
  BY DEF InTurn, TypeOK, SignerType, Version
<1>2. DOMAIN signer = {"phase", "version", "source", "target", "seen", "body"}
      /\ DOMAIN IdleSigner = {"phase", "version", "source", "target", "seen", "body"}
      /\ IdleSigner.phase = "idle"
  BY DEF InTurn, TypeOK, SignerType, IdleSigner
<1>3. UNCHANGED signer \/ Signer
  BY SignerSteps
<1>4. CASE UNCHANGED signer
  <2>1. z \in Zones /\ z = signer.version[1] /\ signer.phase \in {"collect", "sign"}
    BY <1>1, <1>4
  <2>2. signed[z] # 0 /\ signer.target = signed[z]
    BY <2>1 DEF InTurn, TurnInv
  <2>3. signed'[z] = signed[z]
    <3>1. CASE DropSigned
      <4>1. published[z] # signed[z]
        BY <2>1, <2>2, <3>1 DEF DropSigned, InTurn, SigningOvertakes, OnItsWay, BeingStored
      <4> QED BY <2>1, <3>1, <4>1, TreesAfterDrop DEF InTurn, CopiesInHand
    <3>2. CASE InsertSignedZone
      BY <2>1, <3>2 DEF InsertSignedZone
    <3>3. CASE PublishSwap \/ SignCommit \/ UNCHANGED <<copies, signed, published, dropping>>
      BY <3>3 DEF PublishSwap, SignCommit
    <3> QED BY <3>1, <3>2, <3>3, TreeSteps
  <2> QED BY <1>4, <2>2, <2>3
<1>5. CASE FindSignedZone
  <2>1. /\ UNCHANGED signed
        /\ \/ /\ signed[signer.version[1]] # 0
              /\ signer' = [signer EXCEPT !.phase = "collect", !.target = signed[signer.version[1]]]
           \/ signer' = [signer EXCEPT !.phase = "insert", !.seen = signed]
    BY <1>5 DEF FindSignedZone, treeVars
  <2>2. signer'.version = signer.version
    BY <1>2, <2>1
  <2>3. signed[signer.version[1]] # 0 /\ signer'.target = signed[signer.version[1]]
    BY <1>2, <2>1
  <2> QED BY <2>1, <2>2, <2>3
<1>6. CASE InsertSignedZone
  <2>1. signer' = [signer EXCEPT !.phase = "collect", !.target = Len(copies[signer.version[1]]) + 1,
                                 !.seen = EmptyTree]
    BY <1>6 DEF InsertSignedZone, NextCopy
  <2>2. signer'.version = signer.version /\ signer'.target = Len(copies[signer.version[1]]) + 1
    BY <1>2, <2>1
  <2>3. z = signer.version[1] /\ z \in Zones
    BY <1>1, <2>2
  <2> QED BY <1>6, <2>2, <2>3, TreesAfterInsert DEF InTurn
<1>7. CASE Collect
  <2>1. signer.phase = "collect" /\ UNCHANGED signed
    BY <1>7 DEF Collect, treeVars
  <2>2. signer' = IdleSigner \/ \E b : signer' = [signer EXCEPT !.phase = "sign", !.body = b]
    BY <1>7 DEF Collect
  <2>3. signer'.version = signer.version /\ signer'.target = signer.target
    BY <1>2, <2>2
  <2> QED BY <2>1, <2>3 DEF InTurn, TurnInv
<1>8. CASE SignStart
  <2>1. signer' = signer \/ signer'.phase = "lookup"
    BY <1>2, <1>8 DEF SignStart
  <2>2. signer.phase = "idle"
    BY <1>8 DEF SignStart
  <2> QED BY <2>1, <2>2
<1>9. CASE SignFail \/ SignCommit
  BY <1>2, <1>9 DEF SignFail, SignCommit
<1> QED BY <1>3, <1>4, <1>5, <1>6, <1>7, <1>8, <1>9 DEF Signer

LEMMA TurnVersions ==
  ASSUME InTurn, [Next]_vars, NEW v \in Version
  PROVE  /\ Accepted(v)' => Hooks["RS2"] = 0 \/ v \in approved'["RS2"]
         /\ UnderReview(v)' \/ Accepted(v)' =>
              signed'[v[1]] = 0 \/ copies'[v[1]][signed'[v[1]]].soa = v[2]
<1>1. WayForward(v) /\ v[1] \in Zones
  BY WayStep DEF InTurn, Version
<1>2. Accepted(v)' => Hooks["RS2"] = 0 \/ v \in approved'["RS2"]
  BY <1>1 DEF WayForward, InTurn, TurnInv
<1>3. ASSUME UnderReview(v)' \/ Accepted(v)'
      PROVE  signed'[v[1]] = 0 \/ copies'[v[1]][signed'[v[1]]].soa = v[2]
  <2> DEFINE z == v[1]
  <2>1. CASE SignCommit /\ z = signer.version[1]
    <3>1. v = signer.version
      <4>1. ~(UnderReview(v) \/ Accepted(v))
        BY <2>1 DEF InTurn, SigningOvertakes, OnItsWay, SignCommit
      <4> QED BY <1>1, <1>3, <4>1 DEF WayForward
    <3> QED BY <1>1, <2>1, <3>1, TreesAfterCommit
  <2>2. CASE ~(SignCommit /\ z = signer.version[1])
    <3>1. UnderReview(v) \/ Accepted(v)
      BY <1>1, <1>3, <2>2 DEF WayForward
    <3>2. signed[z] = 0 \/ copies[z][signed[z]].soa = v[2]
      BY <3>1 DEF InTurn, TurnInv
    <3> HIDE DEF z
    <3>3. z \in Zones
      BY <1>1 DEF z
    <3>4. CASE InsertSignedZone
      <4>1. z # signer.version[1]
        BY <3>1, <3>4 DEF InTurn, SigningOvertakes, OnItsWay, InsertSignedZone, z
      <4>2. signed'[z] = signed[z] /\ copies'[z] = copies[z]
        BY <3>3, <3>4, <4>1, TreesAfterInsert DEF InTurn
      <4> QED BY <3>2, <4>2 DEF z
    <3>5. CASE SignCommit
      <4>1. signed'[z] = signed[z] /\ copies'[z] = copies[z]
        BY <2>2, <3>3, <3>5, TreesAfterCommit
      <4> QED BY <3>2, <4>1 DEF z
    <3>6. CASE PublishSwap
      <4>1. UNCHANGED <<copies, signed>>
        BY <3>6 DEF PublishSwap
      <4> QED BY <3>2, <4>1 DEF z
    <3>7. CASE DropSigned
      <4>1. UNCHANGED copies /\ (signed'[z] = 0 \/ signed'[z] = signed[z])
        BY <3>3, <3>7, TreesAfterDrop DEF InTurn
      <4> QED BY <3>2, <4>1 DEF z
    <3>8. CASE UNCHANGED <<copies, signed, published, dropping>>
      BY <3>2, <3>8 DEF z
    <3> QED BY <3>4, <3>5, <3>6, <3>7, <3>8, TreeSteps
  <2> QED BY <2>1, <2>2
<1> QED BY <1>2, <1>3

LEMMA TurnPublished ==
  ASSUME InTurn, [Next]_vars, NEW z \in Zones, published'[z] # 0
  PROVE  Hooks["RS2"] = 0 \/ <<z, PublishedSoa(z)'>> \in approved'["RS2"]
<1>1. \A v \in Version : v \in approved["RS2"] => v \in approved'["RS2"]
  BY WayStep DEF InTurn, WayForward
<1>2. ASSUME published'[z] = published[z], PublishedSoa(z)' = PublishedSoa(z)
      PROVE  Hooks["RS2"] = 0 \/ <<z, PublishedSoa(z)'>> \in approved'["RS2"]
  <2>1. Hooks["RS2"] = 0 \/ <<z, PublishedSoa(z)>> \in approved["RS2"]
    BY <1>2 DEF InTurn, TurnInv, PublishedWasApproved
  <2>2. approved["RS2"] \subseteq Version
    BY DEF InTurn, TypeOK, ReviewType, Servers
  <2> QED BY <1>1, <1>2, <2>1, <2>2
<1>3. CASE UNCHANGED <<copies, signed, published, dropping>>
  BY <1>2, <1>3 DEF PublishedSoa
<1>4. CASE InsertSignedZone
  BY <1>2, <1>4, ShownAfterInsert DEF InTurn, InsertSignedZone
<1>5. CASE SignCommit
  <2>1. PublishedSoa(z)' = PublishedSoa(z)
    BY <1>5, TreesAfterCommit DEF PublishedSoa
  <2> QED BY <1>2, <1>5, <2>1 DEF SignCommit
<1>6. CASE PublishSwap
  <2>1. UNCHANGED copies
    BY <1>6 DEF PublishSwap
  <2>2. CASE published'[z] = published[z]
    BY <1>2, <2>1, <2>2 DEF PublishedSoa
  <2>3. CASE published'[z] # published[z]
    <3>1. PICK v \in Version : v = Head(queue["PS"]) /\ Accepted(v)
      <4>1. queue["PS"] \in Seq(Version) /\ queue["PS"] # <<>>
        BY <1>6 DEF PublishSwap, InTurn, TypeOK, ChannelType, Units
      <4>2. Head(queue["PS"]) \in Version
        BY <4>1, HeadTailProperties
      <4>3. Waits(queue["PS"], Head(queue["PS"]))
        BY <4>1, WaitsTail
      <4> QED BY <4>2, <4>3 DEF Accepted
    <3>2. z = v[1] /\ signed[z] # 0 /\ published'[z] = signed[z]
      BY <1>6, <2>3, <3>1, TreesAfterSwap DEF InTurn
    <3>3. copies[z][signed[z]].soa = v[2]
      BY <3>1, <3>2 DEF InTurn, TurnInv
    <3>4. PublishedSoa(z)' = v[2]
      BY <2>1, <3>2, <3>3 DEF PublishedSoa
    <3>5. <<z, PublishedSoa(z)'>> = v
      BY <3>1, <3>2, <3>4 DEF Version
    <3>6. Hooks["RS2"] = 0 \/ v \in approved["RS2"]
      BY <3>1 DEF InTurn, TurnInv
    <3> QED BY <1>1, <3>5, <3>6
  <2> QED BY <2>2, <2>3
<1>7. CASE DropSigned
  BY <1>2, <1>7 DEF DropSigned, PublishedSoa
<1> QED BY <1>3, <1>4, <1>5, <1>6, <1>7, TreeSteps

LEMMA TurnStep == InTurn /\ [Next]_vars => TurnInv'
<1> SUFFICES ASSUME InTurn, [Next]_vars PROVE TurnInv'
  OBVIOUS
<1>1. (signer.phase \in {"collect", "sign"} =>
         signed[signer.version[1]] # 0 /\ signer.target = signed[signer.version[1]])'
  BY TurnTarget
<1>2. PublishedWasApproved'
  <2>1. \A z \in Zones : PublishedSoa(z)' = (PublishedSoa(z))'
    OBVIOUS
  <2> QED BY <2>1, TurnPublished DEF PublishedWasApproved
<1> QED BY <1>1, <1>2, TurnShared, TurnVersions DEF TurnInv

LEMMA TurnInit == Init => TurnInv
<1> SUFFICES ASSUME Init PROVE TurnInv
  OBVIOUS
<1>1. signer.phase = "idle" /\ \A z \in Zones : signed[z] = 0 /\ published[z] = 0
  BY DEF Init, IdleSigner, EmptyTree
<1>2. updates = <<>> /\ queue["RS2"] = <<>> /\ queue["PS"] = <<>>
  BY DEF Init, Units
<1>3. \A v \in Version : pending["RS2"][v] = {}
  BY DEF Init, Servers
<1>4. \A x : ~Waits(<<>>, x)
  BY DEF Waits
<1> QED BY <1>1, <1>2, <1>3, <1>4 DEF TurnInv, UnderReview, Accepted, PublishedWasApproved

\* Without a review of signed zones nobody rejects any.
UnreviewedInv ==
  Hooks["RS2"] = 0 => rejected = {} /\ \A v \in Version : pending["RS2"][v] = {}

LEMMA UnreviewedStep == TypeOK /\ UnreviewedInv /\ [Next]_vars => UnreviewedInv'
<1> SUFFICES ASSUME TypeOK, UnreviewedInv, [Next]_vars, Hooks["RS2"] = 0
             PROVE  rejected' = {} /\ \A v \in Version : pending'["RS2"][v] = {}
  BY DEF UnreviewedInv
<1>1. rejected = {} /\ \A v \in Version : pending["RS2"][v] = {}
  BY DEF UnreviewedInv
<1>2. UNCHANGED <<pending, rejected>> \/ (\E r \in Servers : SeekApproval(r)) \/ Reviewer
  <2>1. CASE Operator
    <3>1. ASSUME NEW z \in Zones, NEW p, NEW s, ZoneAdd(z, p, s)
          PROVE  UNCHANGED <<pending, rejected>>
      BY <3>1 DEF ZoneAdd, reviewVars
    <3>2. ASSUME NEW z \in Zones, ZoneRemove(z)
          PROVE  UNCHANGED <<pending, rejected>>
      BY <3>2 DEF ZoneRemove, reviewVars
    <3> QED BY <2>1, <3>1, <3>2 DEF Operator
  <2>2. CASE Loader
    BY <2>2 DEF Loader, TransferBegin, TransferFail, TransferCommit, Activate, reviewVars
  <2>3. CASE \E z \in Zones : Resign(z)
    BY <2>3 DEF Resign, reviewVars
  <2>4. CASE DirectUpdate \/ Client
    BY <2>4 DEF DirectUpdate, Client, HangUp, RequestDead, reviewVars
  <2>5. CASE SignStart \/ FindSignedZone \/ InsertSignedZone
    BY <2>5 DEF SignStart, FindSignedZone, InsertSignedZone, reviewVars
  <2>6. CASE Collect \/ SignFail \/ SignCommit
    BY <2>6 DEF Collect, SignFail, SignCommit, reviewVars
  <2>7. CASE PublishSwap \/ DropSigned \/ UNCHANGED vars
    BY <2>7 DEF PublishSwap, DropSigned, vars, reviewVars
  <2> QED BY <2>1, <2>2, <2>3, <2>4, <2>5, <2>6, <2>7 DEF Next, Signer
<1>3. ASSUME NEW r \in Servers, SeekApproval(r)
      PROVE  rejected' = {} /\ \A v \in Version : pending'["RS2"][v] = {}
  <2>1. rejected' = rejected
    BY <1>3 DEF SeekApproval
  <2>2. CASE pending' = pending
    BY <1>1, <2>1, <2>2
  <2>3. CASE pending' # pending
    <3>1. Hooks[r] > 0 /\ \E w, tokens : pending' = [pending EXCEPT ![r][w] = tokens]
      BY <1>3, <2>3 DEF SeekApproval
    <3>2. r # "RS2"
      BY <3>1
    <3>3. pending'["RS2"] = pending["RS2"]
      BY <3>1, <3>2 DEF TypeOK, ReviewType, Servers
    <3> QED BY <1>1, <2>1, <3>3
  <2> QED BY <2>2, <2>3
<1>4. CASE Reviewer
  <2>1. PICK r \in Servers, w \in Version : \E t \in pending[r][w] :
          Approve(r, w, t) \/ Reject(r, w, t)
    BY <1>4 DEF Reviewer
  <2>2. PICK t \in pending[r][w] : Approve(r, w, t) \/ Reject(r, w, t)
    BY <2>1
  <2>3. r # "RS2"
    BY <1>1, <2>2
  <2>4. rejected' = rejected /\ \E rest : pending' = [pending EXCEPT ![r][w] = rest]
    BY <2>2, <2>3 DEF Approve, Reject
  <2>5. pending'["RS2"] = pending["RS2"]
    BY <2>3, <2>4 DEF TypeOK, ReviewType, Servers
  <2> QED BY <1>1, <2>4, <2>5
<1> QED BY <1>1, <1>2, <1>3, <1>4

\* "If review is required and the hook fails, the zone will not be propagated": what is
\* published was approved, and was not only rejected, unless a zone is signed anew while
\* a signed version of it is on its way, or copies of the signed tree overlap.
THEOREM OnlyOvertakingPublishesRejected ==
  Spec /\ [](~SigningOvertakes) /\ [](~CopiesOverlap)
    => [](PublishedWasApproved /\ RejectedNotPublished)
<1> DEFINE Base == TypeOK /\ NewestInv /\ UnreviewedInv
           Both == PublishedWasApproved /\ RejectedNotPublished
<1>1. Spec => []Base
  <2>1. Init => UnreviewedInv
    BY DEF Init, UnreviewedInv, Servers
  <2> QED BY <2>1, UnreviewedStep, TypeCorrect, SignedTreeHoldsTheNewest, PTL DEF Spec
<1>2. Init => CopiesInHand /\ TurnInv
  BY TurnInit DEF Init, CopiesInHand, IdleSigner
<1>3. Base /\ CopiesInHand /\ TurnInv /\ ~SigningOvertakes /\ ~CopiesOverlap /\ [Next]_vars
        => CopiesInHand' /\ TurnInv'
  BY StepInHand, TurnStep DEF InTurn
<1>4. Base /\ TurnInv => Both
  BY DEF TurnInv, PublishedWasApproved, RejectedNotPublished, UnreviewedInv
<1> HIDE DEF Base, Both
<1>5. Spec /\ [](~SigningOvertakes) /\ [](~CopiesOverlap) => []Both
  BY <1>1, <1>2, <1>3, <1>4, PTL DEF Spec
<1> QED BY <1>5 DEF Both
=============================================================================
