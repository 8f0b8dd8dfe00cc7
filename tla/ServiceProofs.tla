--------------------------- MODULE ServiceProofs ---------------------------
(***************************************************************************)
(* Proofs about the services that are modelled as one process each, for    *)
(* any values of their constants: BlueprintWatcher, the supervisor of the  *)
(* pxe-stack (names with Pxe) and the artifacts gateway (with Gateway).    *)
(* No theorem speaks of two of them.                                       *)
(***************************************************************************)
EXTENDS BlueprintWatcher, PxeSupervisor, ArtifactsGateway, FiniteSetTheorems,
        SequenceTheorems, WellFoundedInduction, TLAPS

-----------------------------------------------------------------------------
(* BlueprintWatcher                                                        *)
-----------------------------------------------------------------------------
(* What is announced of a snapshot has the type of an announcement. *)
LEMMA CountsType ==
  ASSUME NEW files \in [Root -> Tree]
  PROVE  Counts(files) \in [Root -> 0 .. Cardinality(Path)]
<1>1. SUFFICES ASSUME NEW r \in Root
               PROVE  Cardinality(Present(files[r])) \in 0 .. Cardinality(Path)
  BY DEF Counts
<1>2. Present(files[r]) \subseteq Path /\ IsFiniteSet(Path)
  BY WatcherAssumption DEF Present
<1>3. /\ IsFiniteSet(Present(files[r]))
      /\ Cardinality(Present(files[r])) <= Cardinality(Path)
  BY <1>2, FS_Subset
<1> QED BY <1>2, <1>3, FS_CardinalityType

LEMMA AnnouncementType ==
  ASSUME NEW s \in [version : Nat, files : [Root -> Tree]]
  PROVE  Announcement(s) \in Announcements
BY CountsType DEF Announcement, Announcements

(* Install leaves the snapshot alone, or replaces it by the next version.  *)
LEMMA CurrentType ==
  ASSUME TypeOK
  PROVE  /\ Current \in [version : Nat, files : [Root -> Tree]]
         /\ Current.version > 0
         /\ \/ Current = snapshot
            \/ /\ Changed
               /\ Current.version = snapshot.version + 1
BY DEF TypeOK, Watcher, Current, Changed

LEMMA Initially == Init => IInv
<1> SUFFICES ASSUME Init PROVE IInv
  OBVIOUS
<1>1. NoCurrent \in Announcements
  <2>1. Cardinality(Path) \in Nat
    BY WatcherAssumption, FS_CardinalityType
  <2> QED BY <2>1 DEF NoCurrent, Announcements
<1>2. Empty \in Tree
  BY DEF Empty, Tree
<1>3. Reading(TRUE) \in Watcher /\ Reading(TRUE).todo = {}
  BY <1>1, <1>2 DEF Reading, Watcher, Root
<1>4. TypeOK
  <2>1. edits \in 0 .. MaxEdits /\ faults \in 0 .. MaxFaults
    BY WatcherAssumption DEF Init
  <2>2. snapshot \in [version : Nat, files : [Root -> Tree]]
    BY <1>2 DEF Init
  <2> QED BY <1>3, <2>1, <2>2 DEF Init, TypeOK
<1> QED BY <1>4 DEF Init, IInv, SyncingOK, PublishingOK, Reading

LEMMA Inductive == IInv /\ [Next]_vars => IInv'
<1> SUFFICES ASSUME IInv, [Next]_vars PROVE IInv'
  OBVIOUS
<1>1. TypeOK /\ watcher \in Watcher
  BY DEF IInv, TypeOK
<1>2. CASE Tick
  <2>1. NoCurrent \in Announcements
    <3>1. Cardinality(Path) \in Nat
      BY WatcherAssumption, FS_CardinalityType
    <3> QED BY <3>1 DEF NoCurrent, Announcements
  <2>2. Reading(FALSE) \in Watcher /\ Reading(FALSE).todo = {}
    BY <2>1 DEF Reading, Watcher, Root, Empty, Tree
  <2>3. TypeOK'
    BY <1>1, <1>2, <2>2 DEF Tick, TypeOK
  <2> QED BY <1>2, <2>3 DEF Tick, IInv, SyncingOK, PublishingOK, Reading, Told
<1>3. CASE EndCancelled
  BY <1>1, <1>3 DEF EndCancelled, GoTo, IInv, TypeOK, Watcher, SyncingOK, PublishingOK
<1>4. CASE List
  BY <1>1, <1>4 DEF List, IInv, TypeOK, Watcher, SyncingOK, PublishingOK, Present, Told
<1>5. CASE ReadFile
  <2> DEFINE p == Min(watcher.todo)
             data == disk[watcher.root][p]
  <2>1. CASE data = NoContent
    BY <1>1, <1>5, <2>1 DEF ReadFile, GoTo, IInv, TypeOK, Watcher, SyncingOK, PublishingOK
  <2>2. CASE data # NoContent
    <3> HIDE DEF p
    <3>1. watcher' = [watcher EXCEPT !.todo = @ \ {p}, !.read[watcher.root][p] = data]
      BY <1>5, <2>2 DEF ReadFile, p
    <3>2. p \in Path => data \in Content \cup {NoContent}
      BY <1>1 DEF TypeOK, Watcher, Tree
    <3>3. [watcher.read EXCEPT ![watcher.root][p] = data] \in [Root -> Tree]
      BY <1>1, <3>2 DEF Watcher, Tree
    <3>4. watcher' \in Watcher /\ watcher'.pc = "files" /\ watcher'.force = watcher.force
      BY <1>1, <1>5, <3>1, <3>3 DEF Watcher, ReadFile
    <3>5. TypeOK'
      BY <1>1, <1>5, <3>4 DEF TypeOK, ReadFile
    <3> QED BY <1>1, <1>5, <3>4, <3>5 DEF ReadFile, IInv, SyncingOK, PublishingOK, Told
  <2> QED BY <2>1, <2>2
<1>6. CASE EndOfTree
  <2>1. /\ watcher' \in Watcher
        /\ watcher'.pc \in {"list", "install"} /\ watcher.pc = "files"
        /\ watcher'.force = watcher.force /\ watcher'.todo = {}
    BY <1>1, <1>6 DEF EndOfTree, GoTo, Watcher, Root
  <2>2. TypeOK'
    BY <1>1, <1>6, <2>1 DEF EndOfTree, TypeOK
  <2> QED BY <1>6, <2>1, <2>2
          DEF EndOfTree, IInv, SyncingOK, PublishingOK, Told, Announcement, Counts
<1>7. CASE ReadFails
  <2>1. watcher' \in Watcher /\ watcher'.pc = "ended"
    BY <1>1, <1>7 DEF ReadFails, GoTo, Watcher
  <2>2. faults' \in 0 .. MaxFaults
    BY <1>1, <1>7, WatcherAssumption DEF ReadFails, Fault, TypeOK
  <2> QED BY <1>1, <1>7, <2>1, <2>2
          DEF ReadFails, IInv, TypeOK, SyncingOK, PublishingOK
<1>8. CASE Install
  <2>1. /\ Current \in [version : Nat, files : [Root -> Tree]]
        /\ Current.version > 0
        /\ Current = snapshot \/ Changed
    BY <1>1, CurrentType
  <2>2. Announcement(Current) \in Announcements
    BY <2>1, AnnouncementType
  <2>3. /\ watcher' \in Watcher
        /\ watcher'.pc = IF Changed \/ watcher.force THEN "publish" ELSE "idle"
        /\ watcher'.current = Announcement(Current) /\ watcher'.todo = watcher.todo
    BY <1>1, <1>8, <2>2 DEF Install, Watcher
  <2>4. TypeOK'
    BY <1>1, <1>8, <2>1, <2>3 DEF Install, TypeOK
  <2>5. Announcement(snapshot)' = Announcement(Current)
    BY <1>8 DEF Install, Announcement, Counts
  <2>6. PublishingOK'
    BY <1>8, <2>1, <2>3, <2>5 DEF Install, PublishingOK
  <2>7. watcher'.pc = "idle" => Told'
    BY <1>8, <2>1, <2>3, <2>5 DEF Install, IInv, SyncingOK, Told
  <2> QED BY <2>3, <2>4, <2>6, <2>7 DEF IInv, SyncingOK
<1>9. CASE Publish
  <2>1. TypeOK'
    BY <1>1, <1>9 DEF Publish, GoTo, TypeOK, Watcher
  <2>2. watcher'.pc = "idle" /\ Told'
    BY <1>1, <1>9 DEF Publish, GoTo, IInv, PublishingOK, Told, Announcement, Counts, Watcher
  <2> QED BY <2>1, <2>2 DEF IInv, SyncingOK, PublishingOK
<1>10. CASE PublishFails
  <2>1. TypeOK' /\ watcher'.pc = "ended"
    <3>1. watcher' \in Watcher /\ watcher'.pc = "ended"
      BY <1>1, <1>10 DEF PublishFails, GoTo, Watcher
    <3>2. faults' \in 0 .. MaxFaults
      BY <1>1, <1>10, WatcherAssumption DEF PublishFails, Fault, TypeOK
    <3>3. announced' \subseteq Announcements
      BY <1>1, <1>10 DEF PublishFails, TypeOK, Watcher
    <3> QED BY <1>1, <1>10, <3>1, <3>2, <3>3 DEF PublishFails, TypeOK
  <2> QED BY <2>1 DEF IInv, SyncingOK, PublishingOK
<1>11. ASSUME NEW r \in Root, NEW p \in Path, NEW data \in Content \cup {NoContent},
              Edit(r, p, data)
       PROVE  IInv'
  <2>1. disk' \in [Root -> Tree]
    BY <1>1, <1>11 DEF Edit, TypeOK, Tree
  <2>2. edits' \in 0 .. MaxEdits
    BY <1>1, <1>11, WatcherAssumption DEF Edit, TypeOK
  <2> QED BY <1>1, <1>11, <2>1, <2>2
          DEF Edit, IInv, TypeOK, SyncingOK, PublishingOK, Told, Announcement, Counts
<1>12. CASE Cancel
  BY <1>12 DEF Cancel, IInv, TypeOK, SyncingOK, PublishingOK, Told, Announcement, Counts
<1>13. CASE UNCHANGED vars
  BY <1>13 DEF vars, IInv, TypeOK, SyncingOK, PublishingOK, Told, Announcement, Counts
<1> QED BY <1>2, <1>3, <1>4, <1>5, <1>6, <1>7, <1>8, <1>9, <1>10, <1>11, <1>12, <1>13
        DEF Next, Sync

(* The inductive invariant holds of every behaviour. *)
THEOREM Invariance == Spec => []IInv
BY Initially, Inductive, PTL DEF Spec

(* The watcher's state is well formed: in particular a sync only ever has  *)
(* files to read that it has listed.                                       *)
THEOREM TypeCorrect == Spec => []TypeOK
<1>1. IInv => TypeOK
  BY DEF IInv
<1> QED BY <1>1, Invariance, PTL

(* Whenever the watcher waits for its ticker, the version that Snapshot()  *)
(* returns has been announced (sync publishes all that it installs).       *)
THEOREM NothingLeftUntold == Spec => []IdleIsAnnounced
<1>1. IInv => IdleIsAnnounced
  BY DEF IInv, IdleIsAnnounced, Told
<1> QED BY <1>1, Invariance, PTL

-----------------------------------------------------------------------------
(* Install installs the next version only once the last one was told, or   *)
(* there was none; or it changes nothing.                                  *)
LEMMA InstallRefines ==
  ASSUME IInv, Install
  PROVE  Abstract!Next \/ UNCHANGED Abstract!vars
<1>1. TypeOK /\ watcher.pc = "install"
  BY DEF IInv, Install
<1>2. CASE Current = snapshot
  BY <1>2 DEF Install, Abstract!vars, Announcement, Counts
<1>3. CASE Changed /\ Current.version = snapshot.version + 1
  <2>1. Current.files \in [Root -> Tree]
    BY <1>1, CurrentType
  <2>2. Counts(Current.files) \in [Root -> 0 .. Cardinality(Path)]
    BY <2>1, CountsType
  <2>3. Announcement(snapshot)' = [version |-> snapshot.version + 1,
                                   counts |-> Counts(Current.files)]
    BY <1>3 DEF Install, Announcement, Counts
  <2>4. Announcement(snapshot).version = snapshot.version
    BY DEF Announcement
  <2>5. Announcement(snapshot).version = 0 \/ Announcement(snapshot) \in announced
    BY <1>1, <2>4 DEF IInv, SyncingOK, Told
  <2>6. Abstract!Install(Counts(Current.files))
    BY <2>3, <2>4, <2>5 DEF Install, Abstract!Install
  <2> QED BY <2>2, <2>6 DEF Abstract!Next
<1> QED BY <1>1, <1>2, <1>3, CurrentType

(* Every step of the watcher is one of BlueprintVersions, or none there.   *)
LEMMA StepRefines ==
  ASSUME IInv, [Next]_vars
  PROVE  Abstract!Next \/ UNCHANGED Abstract!vars
<1>1. CASE Install
  BY <1>1, InstallRefines
<1>2. CASE Publish \/ PublishFails
  <2>1. snapshot' = snapshot /\ Announcement(snapshot)' = Announcement(snapshot)
    BY <1>2 DEF Publish, PublishFails, Announcement, Counts
  <2>2. watcher.current = Announcement(snapshot) /\ snapshot.version > 0
    BY <1>2 DEF Publish, PublishFails, IInv, PublishingOK
  <2>3. Announcement(snapshot).version = snapshot.version
    BY DEF Announcement
  <2>4. CASE announced' = announced \cup {watcher.current}
    BY <2>1, <2>2, <2>3, <2>4 DEF Abstract!Next, Abstract!Tell
  <2>5. CASE announced' = announced
    BY <2>1, <2>5 DEF Abstract!vars
  <2> QED BY <1>2, <2>4, <2>5 DEF Publish, PublishFails
<1>3. CASE snapshot' = snapshot /\ announced' = announced
  BY <1>3 DEF Abstract!vars, Announcement, Counts
<1> QED BY <1>1, <1>2, <1>3
        DEF Next, Sync, Tick, EndCancelled, List, ReadFile, EndOfTree, ReadFails,
            Edit, Cancel, vars

(* The watcher implements BlueprintVersions: it installs a version before  *)
(* it announces it, announces what is true of it, and replaces none that   *)
(* it has not announced, whatever is edited meanwhile and whatever fails.  *)
THEOREM Refines == Spec => ImplementsVersions
<1>1. Init => Abstract!Init
  BY DEF Init, Abstract!Init, Announcement
<1>2. IInv /\ [Next]_vars => [Abstract!Next]_(Abstract!vars)
  BY StepRefines
<1> QED BY <1>1, <1>2, Invariance, PTL DEF Spec, ImplementsVersions, Abstract!Spec

-----------------------------------------------------------------------------
(* ArtifactsGateway                                                        *)
-----------------------------------------------------------------------------
(* The product of an acceptable number of seconds, cut at MaxTtl, stays    *)
(* within the limit, and does not wrap.                                    *)
LEMMA ProductFits ==
  ASSUME NEW n \in 1 .. MaxTtl
  PROVE  n * Second \in 1 .. MaxTtl * Second /\ MaxTtl * Second < Half
<1>1. /\ n \in Nat /\ MaxTtl \in Nat /\ Second \in Nat
      /\ 1 <= n /\ n <= MaxTtl /\ 1 <= Second
  BY GatewayAssumption, DurationAssumption
<1>2. n * Second >= 1 * Second
  BY <1>1
<1>3. n * Second <= MaxTtl * Second
  BY <1>1
<1> QED BY <1>1, <1>2, <1>3, GatewayAssumption

LEMMA SmallModulo ==
  ASSUME NEW n \in Nat, NEW m \in Nat, n < m
  PROVE  n % m = n
OBVIOUS

LEMMA NoWrap ==
  ASSUME Half \in Nat, NEW n \in Nat, n < Half
  PROVE  Wrap(n) = n
<1>1. n + Half \in Nat /\ 2 * Half \in Nat /\ n + Half < 2 * Half
  OBVIOUS
<1>2. (n + Half) % (2 * Half) = n + Half
  BY <1>1, SmallModulo
<1> QED BY <1>2 DEF Wrap

LEMMA AcceptableFits ==
  ASSUME NEW q \in Query, Acceptable(q)
  PROVE  /\ Duration(ttlSeconds(q)) = ttlSeconds(q) * Second
         /\ Duration(ttlSeconds(q)) \in 1 .. MaxTtl * Second
<1>1. Half \in Nat /\ MaxTtl \in Nat /\ MaxTtl >= 1 /\ Second \in Nat
  BY GatewayAssumption, DurationAssumption
<1>2. ttlSeconds(q) \in 1 .. MaxTtl
  <2>1. CASE q.given = "none"
    BY <2>1, GatewayAssumption DEF ttlSeconds
  <2>2. CASE q.given # "none"
    <3>1. q.given = "number" /\ q.ttl \in Int /\ q.ttl > 0
      BY <1>1, <2>2 DEF Acceptable, Query, Int64
    <3> QED BY <1>1, <2>2, <3>1 DEF ttlSeconds
  <2> QED BY <2>1, <2>2
<1> DEFINE n == ttlSeconds(q) * Second
<1>3. n \in 1 .. MaxTtl * Second /\ MaxTtl * Second < Half
  BY <1>2, ProductFits
<1>4. n \in Nat /\ n < Half
  BY <1>1, <1>3
<1>5. Wrap(n) = n
  BY <1>1, <1>4, NoWrap
<1> QED BY <1>3, <1>5 DEF Duration

(* How many seconds that is. *)
LEMMA AskedFor ==
  ASSUME NEW q \in Query, Acceptable(q)
  PROVE  /\ q.key /\ q.given \in {"none", "number"}
         /\ q.given = "none" => ttlSeconds(q) = DefaultTtl
         /\ q.given = "number" =>
              /\ q.ttl > 0
              /\ q.ttl <= MaxTtl => ttlSeconds(q) = q.ttl
              /\ q.ttl > MaxTtl => ttlSeconds(q) = MaxTtl
<1>1. q.given = "number" => q.ttl \in Int
  BY DurationAssumption DEF Query, Int64
<1>2. MaxTtl \in Int
  BY GatewayAssumption
<1> QED BY <1>1, <1>2 DEF Acceptable, Query, ttlSeconds

LEMMA PresignKeeps ==
  ASSUME GatewayIInv, NEW r \in Request, Presign(r)
  PROVE  GatewayIInv'
<1> DEFINE q == request[r].query
<1>1. /\ request[r].pc = "open" /\ q \in Query
      /\ DOMAIN request = Request
  <2>1. request[r].pc = "open"
    BY DEF Presign
  <2>2. request[r] \in [pc : {"open"}, query : Query]
    BY <2>1 DEF GatewayIInv, GatewayTypeOK, NoRequest
  <2> QED BY <2>1, <2>2 DEF GatewayIInv, GatewayTypeOK
<1>2. CASE Acceptable(q)
  <2> DEFINE url == [pc |-> "url", query |-> q, expires |-> Duration(ttlSeconds(q))]
  <2>1. request' = [request EXCEPT ![r] = url]
    BY <1>1, <1>2 DEF Presign
  <2>2. /\ url.pc = "url" /\ url.query = q
        /\ url.expires = ttlSeconds(q) * Second
        /\ url.expires \in 1 .. MaxTtl * Second
    BY <1>1, <1>2, AcceptableFits
  <2>3. 1 .. MaxTtl * Second \subseteq Int64
    BY GatewayAssumption, DurationAssumption DEF Int64
  <2>4. url \in [pc : {"url"}, query : Query, expires : Int64]
    BY <1>1, <2>2, <2>3
  <2> HIDE DEF url, q
  <2>5. UrlLifetime'
    <3>1. LivesAsAsked(url)
      BY <1>1, <1>2, <2>2, AskedFor DEF LivesAsAsked
    <3>2. ASSUME NEW x \in Request, request'[x].pc = "url"
          PROVE  LivesAsAsked(request'[x])
      <4>1. request'[x] = IF x = r THEN url ELSE request[x]
        BY <1>1, <2>1
      <4>2. CASE x = r
        BY <3>1, <4>1, <4>2
      <4>3. CASE x # r
        BY <3>2, <4>1, <4>3 DEF GatewayIInv, UrlLifetime
      <4> QED BY <4>2, <4>3
    <3> QED BY <3>2 DEF UrlLifetime
  <2>6. GatewayTypeOK'
    BY <1>1, <2>1, <2>4 DEF GatewayIInv, GatewayTypeOK, Presign
  <2> QED BY <2>5, <2>6 DEF GatewayIInv
<1>3. CASE ~ Acceptable(q)
  <2>1. request' = [request EXCEPT ![r] = [pc |-> "rejected"]]
    BY <1>1, <1>3 DEF Presign
  <2> QED BY <1>1, <2>1 DEF GatewayIInv, GatewayTypeOK, UrlLifetime, Presign
<1> QED BY <1>2, <1>3

LEMMA RequestsKeep ==
  ASSUME GatewayIInv, NEW r \in Request,
         \/ \E query \in Query : Accept(r, query)
         \/ PresignFails(r) \/ Finish(r)
  PROVE  GatewayIInv'
<1>1. CASE \E query \in Query : Accept(r, query)
  <2>1. PICK query \in Query : Accept(r, query)
    BY <1>1
  <2>2. [pc |-> "open", query |-> query].pc # "url"
    OBVIOUS
  <2>3. GatewayTypeOK'
    BY <2>1, GatewayAssumption DEF GatewayIInv, GatewayTypeOK, Accept
  <2>4. UrlLifetime'
    BY <2>1, <2>2 DEF GatewayIInv, GatewayTypeOK, UrlLifetime, Accept
  <2> QED BY <2>3, <2>4 DEF GatewayIInv
<1>2. CASE PresignFails(r)
  BY <1>2 DEF GatewayIInv, GatewayTypeOK, UrlLifetime, PresignFails
<1>3. CASE Finish(r)
  BY <1>3 DEF GatewayIInv, GatewayTypeOK, UrlLifetime, Finish,
              NoRequest
<1> QED BY <1>1, <1>2, <1>3

LEMMA GatewayInitially == GatewayInit => GatewayIInv
<1>1. SUFFICES ASSUME GatewayInit
               PROVE  GatewayIInv
  OBVIOUS
<1>2. GatewayTypeOK
  <2>1. request \in [Request -> {NoRequest}] /\ served \in 0 .. MaxRequests
    BY <1>1, GatewayAssumption DEF GatewayInit
  <2> QED BY <1>1, <2>1 DEF GatewayInit, GatewayTypeOK
<1>3. UrlLifetime
  BY <1>1 DEF GatewayInit, UrlLifetime, NoRequest
<1> QED BY <1>2, <1>3 DEF GatewayIInv

LEMMA GatewayInductive ==
  GatewayIInv /\ [GatewayNext]_gatewayVars => GatewayIInv'
<1>1. SUFFICES ASSUME GatewayIInv,
                      [GatewayNext]_gatewayVars
               PROVE  GatewayIInv'
  OBVIOUS
<1>2. CASE /\ UNCHANGED <<request, served>>
           /\ \/ Start \/ Interrupt \/ Shutdown
              \/ StopServing \/ ServeFails \/ EndProcess
              \/ UNCHANGED gatewayVars
  BY <1>1, <1>2 DEF GatewayIInv, GatewayTypeOK, UrlLifetime, Start,
     Interrupt, Shutdown, StopServing, ServeFails,
     EndProcess, gatewayVars
<1>3. CASE \E r \in Request :
             \/ \E query \in Query : Accept(r, query)
             \/ PresignFails(r) \/ Finish(r)
  BY <1>1, <1>3, RequestsKeep
<1>4. CASE \E r \in Request : Presign(r)
  BY <1>1, <1>4, PresignKeeps
<1> QED BY <1>1, <1>2, <1>3, <1>4
        DEF GatewayNext, Start, Interrupt, Shutdown,
            StopServing, ServeFails, EndProcess, gatewayVars

(* The gateway's state is well formed, and its URLs live as allowed. *)
THEOREM GatewayInvariance == GatewaySpec => []GatewayIInv
<1>1. GatewayInit => GatewayIInv
  BY GatewayInitially
<1>2. GatewayIInv /\ [GatewayNext]_gatewayVars => GatewayIInv'
  BY GatewayInductive
<1> QED BY <1>1, <1>2, PTL DEF GatewaySpec

(* A URL that is handed out lives for the seconds its query asked for: for *)
(* defaultTTLSeconds if it named none, and for maxTTLSeconds if it asked   *)
(* for more, whatever the product would wrap to (the presign handler).     *)
THEOREM UrlsLiveAsAllowed == GatewaySpec => []UrlLifetime
<1>1. GatewayIInv => UrlLifetime
  BY DEF GatewayIInv
<1> QED BY <1>1, GatewayInvariance, PTL

-----------------------------------------------------------------------------
(* Least numbers, and what Distinct computes                               *)
-----------------------------------------------------------------------------
(* Proofs by induction pick a least counterexample.  That there is one     *)
(* follows from the order of the initial segments, which are finite sets.  *)
LEMMA LeastNatural ==
  ASSUME NEW X, X \subseteq Nat, X # {}
  PROVE  \E n \in X : \A m \in X : n <= m
<1> DEFINE T == {1 .. n : n \in X}
<1>1. T \subseteq FiniteSubsetsOf(Nat) /\ T # {}
  <2>1. ASSUME NEW n \in X PROVE 1 .. n \in FiniteSubsetsOf(Nat)
    <3>1. n \in Int /\ 1 \in Int /\ 1 .. n \subseteq Nat
      OBVIOUS
    <3> QED BY <3>1, FS_Interval DEF FiniteSubsetsOf
  <2> QED BY <2>1
<1>2. IsWellFoundedOn(StrictSubsetOrdering(Nat), FiniteSubsetsOf(Nat))
  BY FS_StrictSubsetOrderingWellFounded
<1>3. PICK I \in T : \A J \in T : <<J, I>> \notin StrictSubsetOrdering(Nat)
  BY <1>1, <1>2, WFMin
<1>4. PICK n \in X : I = 1 .. n
  OBVIOUS
<1>5. ASSUME NEW m \in X, ~ (n <= m)
      PROVE  FALSE
  <2>1. 1 .. m \in T /\ 1 .. m \subseteq 1 .. n /\ n \in 1 .. n /\ n \notin 1 .. m
    BY <1>5
  <2>2. <<1 .. m, 1 .. n>> \in StrictSubsetOrdering(Nat)
    BY <2>1 DEF StrictSubsetOrdering
  <2> QED BY <1>3, <1>4, <2>1, <2>2
<1> QED BY <1>4, <1>5

LEMMA MinIsLeast ==
  ASSUME NEW X, X \subseteq Nat, X # {}
  PROVE  Min(X) \in X /\ \A m \in X : Min(X) <= m
BY LeastNatural DEF Min

LEMMA AppendContains ==
  ASSUME NEW S, NEW s \in Seq(S), NEW x \in S
  PROVE  /\ Append(s, x) \in Seq(S) /\ Len(Append(s, x)) = Len(s) + 1
         /\ Contains(Append(s, x), x)
         /\ \A y : Contains(s, y) => Contains(Append(s, x), y)
<1>1. /\ Append(s, x) \in Seq(S) /\ Len(Append(s, x)) = Len(s) + 1
      /\ Append(s, x)[Len(s) + 1] = x /\ Len(s) \in Nat
      /\ \A i \in 1 .. Len(s) : Append(s, x)[i] = s[i]
  OBVIOUS
<1> QED BY <1>1 DEF Contains

(* What Distinct does with the n-th element, having made d of those before.*)
Extend(s, wanted, d, n) ==
  IF s[n] \in wanted /\ ~ Contains(d, s[n]) THEN Append(d, s[n]) ELSE d

(* The function upTo of Distinct, up to k. *)
Extends(s, wanted, upTo, k) ==
  /\ upTo[0] = << >>
  /\ \A n \in 1 .. k : upTo[n] = Extend(s, wanted, upTo[n - 1], n)

LEMMA ExtendsExist ==
  ASSUME NEW S, NEW s \in Seq(S), NEW wanted, NEW k \in 0 .. Len(s)
  PROVE  \E u \in [0 .. k -> Seq(S)] : Extends(s, wanted, u, k)
<1> DEFINE Exists(j) == \E u \in [0 .. j -> Seq(S)] : Extends(s, wanted, u, j)
           X == {j \in 0 .. Len(s) : ~ Exists(j)}
<1>1. Len(s) \in Nat /\ \A n \in 1 .. Len(s) : s[n] \in S
  OBVIOUS
<1>2. SUFFICES ASSUME X # {} PROVE FALSE
  OBVIOUS
<1>3. X \subseteq Nat
  BY <1>1
<1> HIDE DEF X
<1>4. PICK j \in X : \A m \in X : j <= m
  BY <1>2, <1>3, LeastNatural
<1>5. j \in 0 .. Len(s) /\ j \in Nat /\ ~ Exists(j)
  BY <1>1, <1>4 DEF X
<1>6. CASE j = 0
  <2> DEFINE u == [n \in 0 .. 0 |-> << >>]
  <2>1. << >> \in Seq(S)
    OBVIOUS
  <2>2. u \in [0 .. 0 -> Seq(S)] /\ Extends(s, wanted, u, 0)
    BY <2>1 DEF Extends
  <2> QED BY <1>5, <1>6, <2>2
<1>7. CASE j # 0
  <2>1. j - 1 \in 0 .. Len(s) /\ j \in 1 .. Len(s) /\ s[j] \in S /\ j - 1 \notin X
    BY <1>1, <1>4, <1>5, <1>7
  <2>2. PICK u \in [0 .. j - 1 -> Seq(S)] : Extends(s, wanted, u, j - 1)
    BY <2>1 DEF X
  <2>3. u[j - 1] \in Seq(S)
    BY <1>5, <1>7, <2>2
  <2>4. Extend(s, wanted, u[j - 1], j) \in Seq(S)
    BY <2>1, <2>3, AppendContains DEF Extend
  <2> DEFINE v == [n \in 0 .. j |->
                     IF n = j THEN Extend(s, wanted, u[j - 1], j) ELSE u[n]]
  <2>5. v \in [0 .. j -> Seq(S)]
    BY <1>5, <2>2, <2>4
  <2>6. v[0] = << >>
    BY <1>5, <1>7, <2>2 DEF Extends
  <2>7. ASSUME NEW n \in 1 .. j
        PROVE  v[n] = Extend(s, wanted, v[n - 1], n)
    <3>1. n - 1 \in 0 .. j - 1 /\ v[n - 1] = u[n - 1]
      BY <1>5, <2>7
    <3>2. CASE n = j
      BY <1>5, <3>1, <3>2
    <3>3. CASE n # j
      <4>1. n \in 1 .. j - 1 /\ v[n] = u[n]
        BY <1>5, <2>7, <3>3
      <4> QED BY <2>2, <3>1, <4>1 DEF Extends
    <3> QED BY <3>2, <3>3
  <2>8. Extends(s, wanted, v, j)
    BY <2>6, <2>7 DEF Extends
  <2> QED BY <1>5, <2>5, <2>8
<1> QED BY <1>6, <1>7

(* The recursion of Distinct has a solution, which CHOOSE finds. *)
LEMMA DistinctUnfolds ==
  ASSUME NEW S, NEW s \in Seq(S), NEW wanted
  PROVE  \E u : /\ Extends(s, wanted, u, Len(s))
                /\ Distinct(s, wanted) = u[Len(s)]
<1> DEFINE Body(u) == [n \in 0 .. Len(s) |->
             IF n = 0 THEN << >>
             ELSE IF s[n] \in wanted /\ ~ Contains(u[n - 1], s[n])
                  THEN Append(u[n - 1], s[n])
                  ELSE u[n - 1]]
           upTo == CHOOSE u : u = Body(u)
<1>1. Distinct(s, wanted) = upTo[Len(s)]
  BY DEF Distinct
<1>2. Len(s) \in Nat
  OBVIOUS
<1>3. \E u : u = Body(u)
  <2>1. PICK u \in [0 .. Len(s) -> Seq(S)] : Extends(s, wanted, u, Len(s))
    <3>1. Len(s) \in 0 .. Len(s)
      BY <1>2
    <3> QED BY <3>1, ExtendsExist
  <2>2. ASSUME NEW n \in 0 .. Len(s)
        PROVE  u[n] = Body(u)[n]
    <3>1. CASE n = 0
      BY <2>1, <3>1 DEF Extends
    <3>2. CASE n # 0
      <4>1. n \in 1 .. Len(s)
        BY <1>2, <3>2
      <4> QED BY <2>1, <3>2, <4>1 DEF Extends, Extend
    <3> QED BY <3>1, <3>2
  <2> QED BY <2>1, <2>2
<1>4. upTo = Body(upTo)
  BY <1>3
<1> HIDE DEF upTo
<1>5. Extends(s, wanted, upTo, Len(s))
  <2>1. upTo[0] = << >>
    BY <1>2, <1>4
  <2>2. ASSUME NEW n \in 1 .. Len(s)
        PROVE  upTo[n] = Extend(s, wanted, upTo[n - 1], n)
    <3>1. n \in 0 .. Len(s) /\ n # 0
      BY <1>2
    <3> QED BY <1>4, <3>1 DEF Extend
  <2> QED BY <2>1, <2>2 DEF Extends
<1> QED BY <1>1, <1>5

(* d has what is wanted of the first n elements, each once, and in order. *)
Collected(S, s, wanted, d, n) ==
  /\ d \in Seq(S \cap wanted) /\ IsInjective(d) /\ InOrderOf(s, d)
  /\ \A x : Contains(d, x) <=> x \in wanted /\ \E i \in 1 .. n : s[i] = x

LEMMA ExtendKeeps ==
  ASSUME NEW S, NEW s \in Seq(S), NEW wanted, NEW n \in 1 .. Len(s), NEW d,
         Collected(S, s, wanted, d, n - 1)
  PROVE  Collected(S, s, wanted, Extend(s, wanted, d, n), n)
<1>5. /\ d \in Seq(S \cap wanted) /\ IsInjective(d) /\ InOrderOf(s, d)
      /\ \A x : Contains(d, x) <=> x \in wanted /\ \E i \in 1 .. n - 1 : s[i] = x
  BY DEF Collected
<1>1. /\ s[n] \in S /\ Len(s) \in Nat /\ n \in 1 .. n
      /\ \A i \in 1 .. n : i \in 1 .. n - 1 \/ i = n
      /\ \A i \in 1 .. n - 1 : i \in 1 .. n
  OBVIOUS
<1>2. CASE s[n] \in wanted /\ ~ Contains(d, s[n])
  <2> DEFINE e == Append(d, s[n])
  <2>1. /\ Extend(s, wanted, d, n) = e /\ e \in Seq(S \cap wanted)
        /\ Len(e) = Len(d) + 1 /\ Len(d) \in Nat /\ e[Len(d) + 1] = s[n]
        /\ \A i \in 1 .. Len(d) : e[i] = d[i]
    BY <1>1, <1>2, <1>5 DEF Extend
  <2> HIDE DEF e
  <2>2. ASSUME NEW a \in 1 .. Len(e), NEW b \in 1 .. Len(e), e[a] = e[b]
        PROVE  a = b
    <3>1. CASE a \in 1 .. Len(d) /\ b \in 1 .. Len(d)
      <4>1. IsInjective(d) /\ DOMAIN d = 1 .. Len(d) /\ d[a] = d[b]
        BY <1>5, <2>1, <2>2, <3>1
      <4> QED BY <3>1, <4>1 DEF IsInjective
    <3>2. CASE a = Len(d) + 1 /\ b \in 1 .. Len(d)
      BY <1>2, <2>1, <2>2, <3>2 DEF Contains
    <3>3. CASE b = Len(d) + 1 /\ a \in 1 .. Len(d)
      BY <1>2, <2>1, <2>2, <3>3 DEF Contains
    <3> QED BY <2>1, <2>2, <3>1, <3>2, <3>3
  <2>3. IsInjective(e)
    <3>1. DOMAIN e = 1 .. Len(e)
      BY <2>1
    <3> QED BY <2>2, <3>1 DEF IsInjective
  <2>4. ASSUME NEW x
        PROVE  Contains(e, x) <=> Contains(d, x) \/ x = s[n]
    <3>1. /\ \A i \in 1 .. Len(d) : i \in 1 .. Len(e)
          /\ Len(d) + 1 \in 1 .. Len(e)
          /\ \A i \in 1 .. Len(e) : i \in 1 .. Len(d) \/ i = Len(d) + 1
      BY <2>1
    <3> QED BY <2>1, <3>1 DEF Contains
  <2>5. \A x : Contains(e, x) <=> x \in wanted /\ \E i \in 1 .. n : s[i] = x
    BY <1>1, <1>2, <1>5, <2>4
  <2>6. ASSUME NEW a \in 1 .. Len(e), NEW b \in 1 .. Len(e), a < b
        PROVE  \E i \in 1 .. Len(s) : s[i] = e[a] /\ \A j \in 1 .. i : s[j] # e[b]
    <3>1. a \in 1 .. Len(d) /\ e[a] = d[a]
      BY <2>1, <2>6
    <3>2. CASE b \in 1 .. Len(d)
      <4>1. /\ e[b] = d[b] /\ DOMAIN d = 1 .. Len(d) /\ DOMAIN s = 1 .. Len(s)
            /\ InOrderOf(s, d)
        BY <1>5, <2>1, <3>2
      <4>2. \E i \in 1 .. Len(s) : s[i] = d[a] /\ \A j \in 1 .. i : s[j] # d[b]
        BY <2>6, <3>1, <3>2, <4>1 DEF InOrderOf
      <4> QED BY <3>1, <4>1, <4>2
    <3>3. CASE b = Len(d) + 1
      <4>1. Contains(d, d[a])
        BY <3>1 DEF Contains
      <4>2. PICK i \in 1 .. n - 1 : s[i] = d[a]
        BY <1>5, <4>1
      <4>3. \A j \in 1 .. n - 1 : s[j] # s[n]
        BY <1>2, <1>5
      <4>4. i \in 1 .. Len(s) /\ \A j \in 1 .. i : j \in 1 .. n - 1
        BY <1>1, <4>2
      <4> QED BY <2>1, <3>1, <3>3, <4>2, <4>3, <4>4
    <3> QED BY <2>1, <3>2, <3>3
  <2>7. InOrderOf(s, e)
    <3>1. DOMAIN e = 1 .. Len(e) /\ DOMAIN s = 1 .. Len(s)
      BY <2>1
    <3> QED BY <2>6, <3>1 DEF InOrderOf
  <2> QED BY <2>1, <2>3, <2>5, <2>7 DEF Collected
<1>3. CASE ~ (s[n] \in wanted /\ ~ Contains(d, s[n]))
  <2>1. Extend(s, wanted, d, n) = d
    BY <1>3 DEF Extend
  <2>2. \A x : Contains(d, x) <=> x \in wanted /\ \E i \in 1 .. n : s[i] = x
    BY <1>1, <1>3, <1>5
  <2> QED BY <1>5, <2>1, <2>2 DEF Collected
<1> QED BY <1>2, <1>3

LEMMA DistinctKeeps ==
  ASSUME NEW S, NEW s \in Seq(S), NEW wanted
  PROVE  /\ Distinct(s, wanted) \in Seq(S \cap wanted)
         /\ IsInjective(Distinct(s, wanted))
         /\ InOrderOf(s, Distinct(s, wanted))
         /\ ToSet(Distinct(s, wanted)) = ToSet(s) \cap wanted
<1>1. PICK u : /\ Extends(s, wanted, u, Len(s))
               /\ Distinct(s, wanted) = u[Len(s)]
  BY DistinctUnfolds
<1> DEFINE Holds(n) == Collected(S, s, wanted, u[n], n)
           X == {n \in 0 .. Len(s) : ~ Holds(n)}
<1>2. Len(s) \in Nat /\ DOMAIN s = 1 .. Len(s)
  OBVIOUS
<1>3. Holds(0)
  <2>1. u[0] = << >> /\ Len(<< >>) = 0 /\ DOMAIN << >> = {}
    BY <1>1 DEF Extends
  <2>2. << >> \in Seq(S \cap wanted)
    OBVIOUS
  <2> QED BY <2>1, <2>2 DEF Collected, IsInjective, Contains, InOrderOf
<1>4. ASSUME NEW n \in 1 .. Len(s), Holds(n - 1)
      PROVE  Holds(n)
  <2>1. u[n] = Extend(s, wanted, u[n - 1], n)
    BY <1>1 DEF Extends
  <2> QED BY <1>4, <2>1, ExtendKeeps
<1> HIDE DEF Holds
<1>5. X = {}
  <2>1. SUFFICES ASSUME X # {} PROVE FALSE
    OBVIOUS
  <2>2. X \subseteq Nat
    BY <1>2
  <2> HIDE DEF X
  <2>3. PICK n \in X : \A m \in X : n <= m
    BY <2>1, <2>2, LeastNatural
  <2>4. n \in 0 .. Len(s) /\ ~ Holds(n)
    BY <2>3 DEF X
  <2>5. n \in 1 .. Len(s) /\ n - 1 \in 0 .. Len(s) /\ ~ (n <= n - 1)
    BY <1>2, <1>3, <2>4
  <2>6. Holds(n - 1)
    BY <2>3, <2>5 DEF X
  <2> QED BY <1>4, <2>4, <2>5, <2>6
<1>6. Holds(Len(s))
  <2>1. Len(s) \in 0 .. Len(s)
    BY <1>2
  <2> QED BY <1>5, <2>1
<1>7. /\ u[Len(s)] \in Seq(S \cap wanted) /\ IsInjective(u[Len(s)])
      /\ InOrderOf(s, u[Len(s)])
      /\ \A x : Contains(u[Len(s)], x)
                  <=> x \in wanted /\ \E i \in 1 .. Len(s) : s[i] = x
  BY <1>6 DEF Holds, Collected
<1>8. ToSet(u[Len(s)]) = ToSet(s) \cap wanted
  <2>1. DOMAIN u[Len(s)] = 1 .. Len(u[Len(s)])
    BY <1>7
  <2>2. \A x : x \in ToSet(u[Len(s)]) <=> Contains(u[Len(s)], x)
    BY <2>1 DEF ToSet, Contains
  <2>3. \A x : x \in ToSet(s) <=> \E i \in 1 .. Len(s) : s[i] = x
    BY <1>2 DEF ToSet
  <2> QED BY <1>7, <2>2, <2>3
<1> QED BY <1>1, <1>7, <1>8

-----------------------------------------------------------------------------
(* PxeSupervisor: the configuration it starts with                         *)
-----------------------------------------------------------------------------
(* Bytes have a largest one. *)
LEMMA LargestByte ==
  /\ Max(Byte) \in Nat
  /\ \A b \in Byte : b \in Nat /\ b <= Max(Byte)
<1>1. PICK max \in Byte : \A b \in Byte : b <= max
  BY PxeConfigAssumption
<1>2. Byte \subseteq Nat
  BY PxeConfigAssumption
<1>3. \A b \in Byte : max >= b
  BY <1>1, <1>2
<1>4. Max(Byte) \in Byte /\ \A b \in Byte : Max(Byte) >= b
  BY <1>3 DEF Max
<1> QED BY <1>2, <1>4

(* Lexicographic order of the bytes is the order of the numbers. *)
LEMMA OrderOfNumbers ==
  ASSUME NEW m \in Nat, NEW a1 \in 0 .. m, NEW a2 \in 0 .. m,
         NEW b1 \in 0 .. m, NEW b2 \in 0 .. m,
         a1 < b1 \/ (a1 = b1 /\ a2 <= b2)
  PROVE  a1 * (m + 1) + a2 <= b1 * (m + 1) + b2
<1>1. CASE a1 < b1
  <2>1. (a1 + 1) * (m + 1) <= b1 * (m + 1)
    BY <1>1
  <2>2. (a1 + 1) * (m + 1) = a1 * (m + 1) + (m + 1)
    OBVIOUS
  <2> QED BY <2>1, <2>2
<1>2. CASE a1 = b1 /\ a2 <= b2
  BY <1>2
<1> QED BY <1>1, <1>2

LEMMA CompareIsLexicographic ==
  ASSUME NEW a \in IPv4, NEW b \in IPv4,
         bytesCompare(a, b) <= 0
  PROVE  a[1] < b[1] \/ (a[1] = b[1] /\ a[2] <= b[2])
<1> DEFINE differ == {j \in DOMAIN a : a[j] # b[j]}
<1>1. /\ a \in [1 .. 2 -> Byte] /\ b \in [1 .. 2 -> Byte]
      /\ a[1] \in Nat /\ a[2] \in Nat /\ b[1] \in Nat /\ b[2] \in Nat
  <2>1. Byte \subseteq Nat
    BY PxeConfigAssumption
  <2>2. a \in [1 .. 2 -> Byte] /\ b \in [1 .. 2 -> Byte]
    BY DEF IPv4
  <2>3. a[1] \in Byte /\ a[2] \in Byte /\ b[1] \in Byte /\ b[2] \in Byte
    BY <2>2
  <2> QED BY <2>1, <2>2, <2>3
<1>2. CASE a = b
  BY <1>1, <1>2
<1>3. CASE a # b
  <2>1. 1 \in differ \/ 2 \in differ
    BY <1>1, <1>3
  <2>2. a[Min(differ)] < b[Min(differ)]
    BY <1>3 DEF bytesCompare
  <2>3. CASE 1 \in differ
    <3>1. Min(differ) = 1
      BY <1>1, <2>3 DEF Min
    <3> QED BY <2>2, <3>1
  <2>4. CASE 1 \notin differ
    <3>1. differ = {2} /\ a[1] = b[1]
      BY <1>1, <2>1, <2>4
    <3>2. Min(differ) = 2
      BY <3>1 DEF Min
    <3> QED BY <1>1, <2>2, <3>1, <3>2
  <2> QED BY <2>3, <2>4
<1> QED BY <1>2, <1>3

(* A list of ports that is not refused is used as it was given. *)
LEMMA PortsAsGiven ==
  ASSUME NEW S, NEW parts \in Seq(S), parsePortList(parts) # Bad
  PROVE  /\ parsePortList(parts) \in Seq(1 .. MaxPort)
         /\ IsInjective(parsePortList(parts))
         /\ InOrderOf(parts, parsePortList(parts))
         /\ ToSet(parsePortList(parts)) = ToSet(parts)
         /\ ToSet(parts) \subseteq 1 .. MaxPort
<1> DEFINE d == Distinct(parts, 1 .. MaxPort)
<1>1. parsePortList(parts) = d /\ ToSet(parts) \subseteq 1 .. MaxPort
  BY DEF parsePortList
<1>2. /\ d \in Seq(S \cap 1 .. MaxPort) /\ IsInjective(d) /\ InOrderOf(parts, d)
      /\ ToSet(d) = ToSet(parts) \cap 1 .. MaxPort
  BY DistinctKeeps
<1> HIDE DEF d
<1>3. d \in Seq(1 .. MaxPort)
  <2>1. S \cap 1 .. MaxPort \subseteq 1 .. MaxPort
    OBVIOUS
  <2> QED BY <1>2, <2>1, SeqMonotonic
<1> QED BY <1>1, <1>2, <1>3

(* auto, or nothing, is asked for. *)
AsksForAuto(spec) ==
  (\E n \in DOMAIN spec : spec[n] = "auto") \/ (\A n \in DOMAIN spec : spec[n] = "")

(* An interface that is found is one of the host's, and the right one. *)
LEMMA InterfaceFound ==
  ASSUME host \in Host, NEW S, NEW spec \in Seq(S), NEW ip,
         resolveDHCPInterface(spec, ip) # Bad
  PROVE  /\ \E i \in DOMAIN host :
              /\ host[i].name = resolveDHCPInterface(spec, ip)
              /\ AsksForAuto(spec) => ip \in host[i].addrs
         /\ ~ AsksForAuto(spec) => \E n \in DOMAIN spec :
              /\ spec[n] = resolveDHCPInterface(spec, ip)
              /\ \A k \in 1 .. n - 1, i \in DOMAIN host : host[i].name # spec[k]
<1> DEFINE r == resolveDHCPInterface(spec, ip)
           trimmed == {n \in DOMAIN spec : spec[n] # ""}
           there == {n \in trimmed : \E i \in DOMAIN host : host[i].name = spec[n]}
           with == {i \in DOMAIN host : ip \in host[i].addrs}
           auto == trimmed = {} \/ \E n \in trimmed : spec[n] = "auto"
<1>1. /\ r = IF auto THEN IF ip = Unset THEN Bad ELSE interfaceByIP(ip)
              ELSE IF there = {} THEN Bad ELSE spec[Min(there)]
      /\ interfaceByIP(ip) =
            IF with = {} THEN Bad ELSE host[Min(with)].name
  BY DEF resolveDHCPInterface, interfaceByIP
<1>2. host \in Seq([name : STRING \ {""}, addrs : SUBSET IPv4])
  BY PxeConfigAssumption
<1> DEFINE Interface == [name : STRING \ {""}, addrs : SUBSET IPv4]
<1>8. \A i \in Interface : i.name # ""
  OBVIOUS
<1>3. /\ DOMAIN spec = 1 .. Len(spec) /\ Len(spec) \in Nat /\ DOMAIN spec \subseteq Nat
      /\ DOMAIN host \subseteq Nat /\ \A i \in DOMAIN host : host[i].name # ""
  <2>1. host \in Seq(Interface)
    BY <1>2
  <2> HIDE DEF Interface
  <2>2. /\ DOMAIN host = 1 .. Len(host) /\ Len(host) \in Nat
        /\ \A i \in 1 .. Len(host) : host[i] \in Interface
    BY <2>1, LenProperties, ElementOfSeq
  <2>3. DOMAIN spec = 1 .. Len(spec) /\ Len(spec) \in Nat
    OBVIOUS
  <2>4. \A i \in DOMAIN host : host[i].name # ""
    BY <1>8, <2>2, Zenon
  <2>5. DOMAIN spec \subseteq Nat /\ DOMAIN host \subseteq Nat
    BY <2>2, <2>3
  <2> QED BY <2>3, <2>4, <2>5
<1>4. auto <=> AsksForAuto(spec)
  BY DEF AsksForAuto
<1>6. CASE auto
  <2>1. with # {} /\ r = host[Min(with)].name
    BY <1>1, <1>6
  <2>2. Min(with) \in with
    BY <1>3, <2>1, MinIsLeast
  <2> QED BY <1>4, <1>6, <2>1, <2>2
<1>7. CASE ~ auto
  <2>1. there # {} /\ r = spec[Min(there)]
    BY <1>1, <1>7
  <2> DEFINE n == Min(there)
  <2>2. n \in there /\ \A k \in there : n <= k
    <3>1. there \subseteq Nat
      BY <1>3
    <3> QED BY <2>1, <3>1, MinIsLeast
  <2> HIDE DEF n
  <2>3. n \in DOMAIN spec /\ \E i \in DOMAIN host : host[i].name = spec[n]
    BY <2>2
  <2>4. ASSUME NEW k \in 1 .. n - 1, NEW i \in DOMAIN host, host[i].name = spec[k]
        PROVE  FALSE
    <3>1. k \in DOMAIN spec /\ ~ (n <= k)
      <4>1. n \in 1 .. Len(spec) /\ Len(spec) \in Nat
        BY <1>3, <2>3
      <4>2. k \in 1 .. Len(spec) /\ ~ (n <= k)
        BY <2>4, <4>1
      <4> QED BY <1>3, <4>2
    <3>2. spec[k] # ""
      BY <1>3, <2>4
    <3>3. k \in there
      BY <2>4, <3>1, <3>2
    <3> QED BY <2>2, <3>1, <3>3
  <2>5. r = spec[n]
    BY <2>1 DEF n
  <2> QED BY <1>4, <1>7, <2>3, <2>4, <2>5
<1> QED BY <1>6, <1>7

InterfaceOf(e) ==
  resolveDHCPInterface(getEnv(e.interface, <<"eth0", "en0">>), e.server)

LEMMA WrapType ==
  ASSUME NEW n \in Int
  PROVE  Wrap(n) \in Int64
<1> DEFINE m == 2 * Half
<1>1. m \in Nat \ {0} /\ n + Half \in Int /\ Half \in Nat
  BY DurationAssumption
<1>2. (n + Half) % m \in 0 .. m - 1
  <2> HIDE DEF m
  <2> QED BY <1>1
<1> QED BY <1>1, <1>2 DEF Wrap, Int64

(* What the properties ask of the configuration that Load made of e. *)
LEMMA LoadedIsUsable ==
  ASSUME NEW e \in Environment,
         Loaded(e).state = "loaded"
  PROVE  /\ Loaded(e).lease \in Int64 /\ Loaded(e).port \in Int
         /\ Loaded(e).ports = parsePortList(e.fallbacks)
         /\ Loaded(e).ports # Bad
         /\ Loaded(e).interface = InterfaceOf(e) /\ InterfaceOf(e) # Bad
         /\ Loaded(e).enabled =>
              /\ e.start \in IPv4 /\ e.end \in IPv4
              /\ bytesCompare(e.start, e.end) <= 0
              /\ Loaded(e).mask # "none"
              /\ Loaded(e).router \in IPv4 \cup {V6}
<1> DEFINE on == getEnv(e.dhcp, TRUE)
           iface == InterfaceOf(e)
           list == parsePortList(e.fallbacks)
           lease == Duration(IF e.lease = Unset THEN 86400 ELSE e.lease)
           httpPort == getEnv(e.port, DefaultPort)
           router == IF on /\ e.router = Unset THEN e.server ELSE e.router
           c == [state |-> "loaded", enabled |-> on, interface |-> iface,
                 mask |-> subnetMask(e, on), router |-> router, lease |-> lease,
                 tftp |-> getEnv(e.tftp, TRUE), port |-> httpPort, ports |-> list]
           refused == \/ Bad \in {e.start, e.end, e.mask, e.router, e.server, e.next,
                                  iface, list} \cup ToSet(e.dns)
                      \/ e.lease = Bad \/ (e.lease # Unset /\ e.lease <= 0)
                      \/ on /\ ~ dhcpComplete(e)
<1>1. Loaded(e) = IF refused THEN LoadError ELSE c
  BY DEF Loaded, InterfaceOf
<1> HIDE DEF refused, c
<1>2. ~ refused /\ Loaded(e) = c
  <2>1. LoadError.state # "loaded"
    BY DEF LoadError
  <2> QED BY <1>1, <2>1
<1> HIDE DEF on, iface, list
<1>7. /\ Bad \notin {e.start, e.end, e.router, e.server, iface, list}
      /\ e.lease # Bad /\ ~ (e.lease # Unset /\ e.lease <= 0)
      /\ on => dhcpComplete(e)
  BY <1>2 DEF refused
<1>3. /\ {e.start, e.end, e.mask, e.router, e.server} \subseteq Address
      /\ e.lease \in Int \cup {Unset, Bad} /\ e.port \in Int \cup {Unset, Bad}
      /\ DefaultPort \in Int
  <2>1. DefaultPort \in 1 .. MaxPort /\ MaxPort \in Nat
    BY PxeConfigAssumption
  <2>2. /\ {e.start, e.end, e.mask, e.router, e.server, e.next} \subseteq Address
        /\ e.lease \in Int \cup {Unset, Bad} /\ e.port \in Int \cup {Unset, Bad}
    BY PxeConfigAssumption
  <2> QED BY <2>1, <2>2
<1>4. lease \in Int64
  <2> DEFINE seconds == IF e.lease = Unset THEN 86400 ELSE e.lease
  <2>1. seconds \in Int /\ Second \in Int
    BY <1>3, <1>7, DurationAssumption
  <2> HIDE DEF seconds
  <2>2. seconds * Second \in Int
    BY <2>1
  <2>3. Duration(seconds) \in Int64
    BY <2>2, WrapType DEF Duration
  <2> QED BY <2>3 DEF seconds
<1>5. httpPort \in Int
  BY <1>3 DEF getEnv
<1>6. ASSUME on
      PROVE  /\ e.start \in IPv4 /\ e.end \in IPv4
             /\ bytesCompare(e.start, e.end) <= 0
             /\ subnetMask(e, on) # "none"
             /\ router \in IPv4 \cup {V6}
  <2>1. dhcpComplete(e) /\ Bad \notin {e.start, e.end, e.router, e.server}
    BY <1>6, <1>7
  <2>2. e.start \in IPv4 /\ e.end \in IPv4 /\ e.server \in IPv4
    BY <1>3, <2>1 DEF dhcpComplete, Address
  <2>3. subnetMask(e, on) # "none"
    BY <1>6 DEF subnetMask
  <2>4. router \in IPv4 \cup {V6}
    BY <1>3, <1>6, <2>1, <2>2 DEF Address
  <2> QED BY <2>1, <2>2, <2>3, <2>4 DEF dhcpComplete
<1> HIDE DEF lease, httpPort, router
<1> QED BY <1>2, <1>4, <1>5, <1>6, <1>7 DEF c, list, iface

LEMMA LoadedState ==
  ASSUME NEW e
  PROVE  Loaded(e).state \in {"error", "loaded"}
BY DEF Loaded, LoadError

LEMMA LoadKeeps ==
  ASSUME ConfigOK, Load
  PROVE  ConfigTypeOK' /\ ConfigOK'
<1>1. /\ env \in Environment /\ env' = env /\ cfg' = Loaded(env)
      /\ host \in Host /\ host' = host
  BY DEF ConfigOK, Load
<1> DEFINE list == parsePortList(env.fallbacks)
<1>5. ASSUME IsLoaded'
      PROVE  /\ cfg'.ports \in Seq(1 .. MaxPort) /\ IsInjective(cfg'.ports)
             /\ InOrderOf(env.fallbacks, cfg'.ports)
             /\ ToSet(cfg'.ports) = ToSet(env.fallbacks)
             /\ ToSet(env.fallbacks) \subseteq 1 .. MaxPort
             /\ cfg'.lease \in Int64 /\ cfg'.port \in Int
             /\ cfg'.interface = InterfaceOf(env) /\ InterfaceOf(env) # Bad
  <2>1. Loaded(env).state = "loaded"
    BY <1>1, <1>5 DEF IsLoaded
  <2>2. /\ cfg'.ports = list /\ list # Bad
        /\ cfg'.lease \in Int64 /\ cfg'.port \in Int
        /\ cfg'.interface = InterfaceOf(env) /\ InterfaceOf(env) # Bad
    BY <1>1, <2>1, LoadedIsUsable
  <2>3. env.fallbacks \in Seq(Int \cup {Bad})
    BY <1>1, PxeConfigAssumption
  <2>4. /\ list \in Seq(1 .. MaxPort) /\ IsInjective(list)
        /\ InOrderOf(env.fallbacks, list)
        /\ ToSet(list) = ToSet(env.fallbacks)
        /\ ToSet(env.fallbacks) \subseteq 1 .. MaxPort
    BY <2>2, <2>3, PortsAsGiven
  <2> HIDE DEF list
  <2> QED BY <2>2, <2>4
<1> HIDE DEF list
<1>2. ConfigTypeOK'
  BY <1>1, <1>5, LoadedState DEF ConfigTypeOK, IsLoaded
<1>6. FallbacksAsGiven'
  <2>1. ASSUME IsLoaded'
        PROVE  /\ (ToSet(cfg.ports) = ToSet(env.fallbacks))'
               /\ IsInjective(cfg.ports)'
               /\ (ToSet(cfg.ports) \subseteq 1 .. MaxPort)'
    BY <1>1, <1>5, <2>1 DEF IsInjective, ToSet
  <2>2. ASSUME IsLoaded'
        PROVE  InOrderOf(env.fallbacks, cfg.ports)'
    BY <1>1, <1>5, <2>2 DEF InOrderOf
  <2> QED BY <2>1, <2>2 DEF FallbacksAsGiven
<1> DEFINE spec == IF env.interface = Unset THEN <<"eth0", "en0">> ELSE env.interface
<1>7. ASSUME IsLoaded'
      PROVE  /\ \E i \in DOMAIN host :
                  /\ host[i].name = cfg'.interface
                  /\ AsksForAuto(spec) => env.server \in host[i].addrs
             /\ ~ AsksForAuto(spec) => \E n \in DOMAIN spec :
                  /\ spec[n] = cfg'.interface
                  /\ \A k \in 1 .. n - 1, i \in DOMAIN host : host[i].name # spec[k]
  <2>1. env.interface = Unset \/ (env.interface \in Seq(STRING) /\ env.interface # Bad)
    BY <1>1, PxeConfigAssumption
  <2>2. \E S : spec \in Seq(S)
    <3>1. CASE env.interface = Unset
      <4>1. spec = <<"eth0", "en0">>
        BY <3>1
      <4>2. \A a, b : <<a, b>> \in Seq({a, b})
        OBVIOUS
      <4> HIDE DEF spec
      <4> QED BY <4>1, <4>2, Zenon
    <3>2. CASE env.interface # Unset
      BY <2>1, <3>2
    <3> QED BY <3>1, <3>2
  <2>4. spec = getEnv(env.interface, <<"eth0", "en0">>)
    BY <2>1 DEF getEnv
  <2>3. cfg'.interface = resolveDHCPInterface(spec, env.server) /\ cfg'.interface # Bad
    BY <1>5, <1>7, <2>4 DEF InterfaceOf
  <2> HIDE DEF spec
  <2> QED BY <1>1, <2>2, <2>3, InterfaceFound
<1>9. InterfaceIsOurs'
  BY <1>1, <1>7 DEF InterfaceIsOurs, AsksForAuto
<1>3. ASSUME DhcpOn'
      PROVE  /\ env.start[1] * (Max(Byte) + 1) + env.start[2]
                  <= env.end[1] * (Max(Byte) + 1) + env.end[2]
             /\ Loaded(env).mask # "none"
             /\ Loaded(env).router \in IPv4 \cup {V6}
  <2>1. /\ env.start \in IPv4 /\ env.end \in IPv4
        /\ bytesCompare(env.start, env.end) <= 0
        /\ Loaded(env).mask # "none"
        /\ Loaded(env).router \in IPv4 \cup {V6}
    BY <1>1, <1>3, LoadedIsUsable DEF DhcpOn, IsLoaded
  <2> DEFINE m == Max(Byte)
  <2>2. \A ip \in IPv4 : ip[1] \in Byte /\ ip[2] \in Byte
    BY DEF IPv4
  <2>3. /\ m \in Nat
        /\ env.start[1] \in 0 .. m /\ env.start[2] \in 0 .. m
        /\ env.end[1] \in 0 .. m /\ env.end[2] \in 0 .. m
    BY <2>1, <2>2, LargestByte
  <2>4. \/ env.start[1] < env.end[1]
        \/ env.start[1] = env.end[1] /\ env.start[2] <= env.end[2]
    BY <2>1, CompareIsLexicographic
  <2> HIDE DEF m
  <2>5. env.start[1] * (m + 1) + env.start[2] <= env.end[1] * (m + 1) + env.end[2]
    BY <2>3, <2>4, OrderOfNumbers
  <2> QED BY <2>1, <2>5 DEF m
<1>4. DhcpIsUsable'
  BY <1>1, <1>3 DEF DhcpIsUsable
<1> QED BY <1>1, <1>2, <1>4, <1>6, <1>9 DEF ConfigOK

(* What has been loaded stays until it is dropped, and then says nothing.  *)
LEMMA ConfStays ==
  ASSUME ConfigTypeOK, ConfigOK, UNCHANGED conf
  PROVE  ConfigTypeOK' /\ ConfigOK'
<1>1. env' = env /\ host' = host /\ cfg' = cfg
  BY DEF conf, configVars
<1>2. ConfigTypeOK'
  BY <1>1 DEF ConfigTypeOK, IsLoaded
<1>3. DhcpIsUsable'
  BY <1>1 DEF ConfigOK, DhcpIsUsable, DhcpOn, IsLoaded
<1>4. InterfaceIsOurs'
  BY <1>1 DEF ConfigOK, InterfaceIsOurs, IsLoaded
<1>5. FallbacksAsGiven'
  BY <1>1 DEF ConfigOK, FallbacksAsGiven, IsLoaded, IsInjective, ToSet
<1> QED BY <1>1, <1>2, <1>3, <1>4, <1>5 DEF ConfigOK, NotLoaded

LEMMA DropKeeps ==
  ASSUME Drop
  PROVE  ConfigTypeOK' /\ ConfigOK'
<1>1. cfg'.state = "used" /\ cfg' # NotLoaded
  BY DEF Drop, NotLoaded
<1> QED BY <1>1 DEF ConfigTypeOK, ConfigOK, IsLoaded, DhcpIsUsable,
               DhcpOn, InterfaceIsOurs, FallbacksAsGiven

(* A step that keeps its place in the list of ports keeps the list. *)
LEMMA PlaceStays ==
  ASSUME PortsOK, ports' = ports, main'.at = main.at,
         main'.pc \in {"listen", "sleep", "serve"} =>
           main.pc \in {"listen", "sleep", "serve"}
  PROVE  PortsOK'
BY DEF PortsOK, IsInjective

(* The list of ports is not empty, whatever the configuration says. *)
LEMMA SomePortToTry ==
  ASSUME NEW p \in Int, NEW fallbacks \in Seq(1 .. MaxPort)
  PROVE  /\ portsToTry(p, fallbacks) \in Seq(Nat \ {0})
         /\ IsInjective(portsToTry(p, fallbacks))
         /\ Len(portsToTry(p, fallbacks)) \in Nat \ {0}
<1> DEFINE tried == Distinct(<<p>> \o fallbacks, Nat \ {0})
<1>1. tried \in Seq(Int \cap (Nat \ {0})) /\ IsInjective(tried)
  <2>1. <<p>> \o fallbacks \in Seq(Int)
    <3>1. 1 .. MaxPort \subseteq Int
      OBVIOUS
    <3>2. fallbacks \in Seq(Int)
      BY <3>1, SeqMonotonic
    <3>3. <<p>> \in Seq(Int)
      OBVIOUS
    <3> QED BY <3>2, <3>3, ConcatProperties
  <2> QED BY <2>1, DistinctKeeps
<1>2. portsToTry(p, fallbacks) = IF tried = << >> THEN <<DefaultPort>> ELSE tried
  BY DEF portsToTry
<1> HIDE DEF tried
<1>3. tried \in Seq(Nat \ {0})
  <2>1. Int \cap (Nat \ {0}) \subseteq Nat \ {0}
    OBVIOUS
  <2> QED BY <1>1, <2>1, SeqMonotonic
<1>4. CASE tried = << >>
  <2>1. DefaultPort \in 1 .. MaxPort /\ MaxPort \in Nat
    BY PxeConfigAssumption
  <2>3. DefaultPort \in Nat \ {0}
    BY <2>1
  <2> QED BY <1>2, <1>4, <2>3 DEF IsInjective
<1>5. CASE tried # << >>
  BY <1>1, <1>2, <1>3, <1>5
<1> QED BY <1>4, <1>5

-----------------------------------------------------------------------------
(* PxeSupervisor: run and its servers                                      *)
-----------------------------------------------------------------------------
ProcessIInv == ProcessOK /\ ServersOK /\ PortsTried

(* The servers' goroutines report what they are, and what went wrong. *)
LEMMA ServerKeeps ==
  ASSUME ProcessIInv, NEW s \in Server,
         UNCHANGED conf,
         ServerBinds(s) \/ ServerFails(s) \/ ServerEnds(s)
  PROVE  ProcessIInv'
<1>1. /\ DOMAIN server = Server /\ DOMAIN ready = Server \cup {"http"}
      /\ enabled \subseteq Server /\ enabled' = enabled /\ main' = main
  BY DEF ProcessIInv, ProcessOK, conf, ServerBinds, ServerFails,
         ServerEnds
<1>2. CASE ServerBinds(s)
  <2>1. ProcessOK'
    BY <1>1, <1>2 DEF ProcessIInv, ProcessOK, ServerBinds, stopVars, envVars
  <2>2. ServersOK'
    BY <1>1, <1>2 DEF ProcessIInv, ServersOK, Exited, ServerBinds
  <2>3. PortsTried'
    BY <1>1, <1>2 DEF ProcessIInv, PortsTried, Exited, ServerBinds, envVars
  <2> QED BY <2>1, <2>2, <2>3 DEF ProcessIInv
<1>3. CASE ServerEnds(s)
  <2>1. ProcessOK'
    BY <1>1, <1>3 DEF ProcessIInv, ProcessOK, ServerEnds, stopVars, envVars
  <2>2. ServersOK'
    BY <1>1, <1>3 DEF ProcessIInv, ServersOK, Exited, ServerEnds
  <2>3. PortsTried'
    BY <1>1, <1>3 DEF ProcessIInv, PortsTried, Exited, ServerEnds, envVars
  <2> QED BY <2>1, <2>2, <2>3 DEF ProcessIInv
<1>4. CASE ServerFails(s)
  <2> DEFINE Sender == Server \cup {"http"}
  <2>1. errCh \in Seq(Sender) /\ Len(errCh) < ErrCap /\ errCh' = Append(errCh, s)
    BY <1>4 DEF ProcessIInv, ProcessOK, ServerFails
  <2>2. /\ errCh' \in Seq(Sender) /\ Len(errCh') = Len(errCh) + 1
        /\ Contains(errCh', s)
        /\ \A y : Contains(errCh, y) => Contains(errCh', y)
    BY <2>1, AppendContains
  <2>3. errCh' \in Seq(Sender) /\ Len(errCh') <= ErrCap
    BY <2>1, <2>2 DEF ErrCap
  <2>4. events' \in 0 .. MaxEvents
    BY <1>4, SupervisorAssumption DEF ProcessIInv, ProcessOK, ServerFails, Event
  <2>5. ProcessOK'
    BY <1>1, <1>4, <2>3, <2>4 DEF ProcessIInv, ProcessOK, ServerFails, stopVars
  <2>6. ServersOK'
    BY <1>1, <1>4, <2>2 DEF ProcessIInv, ServersOK, Exited, ServerFails
  <2>7. PortsTried'
    BY <1>1, <1>4 DEF ProcessIInv, PortsTried, Exited, ServerFails
  <2> QED BY <2>5, <2>6, <2>7 DEF ProcessIInv
<1> QED BY <1>2, <1>3, <1>4

(* While run has not ended, a step that leaves the servers alone leaves    *)
(* what is said of them.                                                   *)
LEMMA ServersStay ==
  ASSUME ServersOK, ~ Exited, enabled' = enabled, UNCHANGED serverVars
  PROVE  ServersOK'
BY DEF ServersOK, serverVars

(* run looks for a port. *)
LEMMA ListenKeeps ==
  ASSUME ProcessIInv, UNCHANGED conf,
         Listen \/ Backoff \/ Retry \/ GiveUpPort
  PROVE  ProcessIInv'
<1>1. /\ enabled' = enabled /\ UNCHANGED serverVars /\ ~ Exited
      /\ main \in Main
  BY DEF ProcessIInv, ProcessOK, conf, Exited, Listen, Backoff,
         Retry, GiveUpPort
<1>2. ServersOK'
  BY <1>1, ServersStay DEF ProcessIInv
<1>3. /\ main.at \in Nat /\ main.at >= 1 /\ timedOut = 1 .. main.at - 1
      /\ main.waited \in Nat /\ main.sleep \in Nat /\ main.delay \in Nat
      /\ main.waited + main.sleep <= MaxWait
      /\ main.sleep <= MaxDelay /\ main.delay <= MaxDelay
  BY <1>1 DEF ProcessIInv, PortsTried, Main
<1>4. /\ MaxWait \in Nat /\ InitialDelay \in Nat /\ MaxDelay \in Nat
      /\ InitialDelay <= MaxDelay
  BY SupervisorAssumption
<1>5. CASE Listen
  <2>1. main' = [main EXCEPT !.pc = "serve"] /\ shutdown' = "waiting"
    BY <1>5 DEF Listen
  <2>2. ProcessOK'
    BY <1>1, <1>5, <2>1 DEF ProcessIInv, ProcessOK, Main, Listen,
       serverVars, envVars
  <2>3. PortsTried'
    BY <1>1, <1>3, <1>5, <2>1 DEF PortsTried, Main, Listen, envVars
  <2> QED BY <1>2, <2>2, <2>3 DEF ProcessIInv
<1>6. CASE Backoff
  <2> DEFINE remaining == MaxWait - main.waited
             sleep == IF main.delay > remaining THEN remaining ELSE main.delay
  <2>1. main' = [main EXCEPT !.pc = "sleep", !.sleep = sleep] /\ main.waited < MaxWait
    BY <1>6 DEF Backoff
  <2>2. sleep \in Nat /\ sleep <= MaxDelay /\ main.waited + sleep <= MaxWait
    BY <1>3, <1>4, <2>1
  <2> HIDE DEF sleep
  <2>3. ProcessOK'
    BY <1>1, <1>6, <2>1, <2>2 DEF ProcessIInv, ProcessOK, Main, Backoff,
       serverVars, stopVars, envVars
  <2>4. PortsTried'
    BY <1>1, <1>3, <1>6, <2>1, <2>2 DEF PortsTried, Main, Backoff, envVars
  <2> QED BY <1>2, <2>3, <2>4 DEF ProcessIInv
<1>7. CASE Retry
  <2> DEFINE delay == IF 2 * main.delay > MaxDelay THEN MaxDelay ELSE 2 * main.delay
  <2>1. main' = [main EXCEPT !.pc = "listen", !.waited = main.waited + main.sleep,
                             !.sleep = 0, !.delay = delay]
    BY <1>1, <1>7 DEF Retry, Main
  <2>2. delay \in Nat /\ delay <= MaxDelay /\ main.waited + main.sleep \in Nat
    BY <1>3, <1>4
  <2> HIDE DEF delay
  <2>5. main' \in Main
    BY <1>1, <2>1, <2>2 DEF Main
  <2>3. ProcessOK'
    BY <1>1, <1>7, <2>5 DEF ProcessIInv, ProcessOK, Retry,
       serverVars, stopVars, envVars
  <2>4. PortsTried'
    BY <1>1, <1>3, <1>4, <1>7, <2>1, <2>2 DEF PortsTried, Main, Retry, envVars
  <2> QED BY <1>2, <2>3, <2>4 DEF ProcessIInv
<1>8. CASE GiveUpPort /\ main.at < Len(ports)
  <2>1. /\ main' = [pc |-> "listen", at |-> main.at + 1, waited |-> 0,
                    delay |-> InitialDelay, sleep |-> 0]
        /\ timedOut' = timedOut \cup {main.at}
    BY <1>8 DEF GiveUpPort
  <2>2. timedOut' = 1 .. main'.at - 1 /\ timedOut' \subseteq Nat
    BY <1>3, <2>1
  <2>3. ProcessOK'
    BY <1>1, <1>3, <1>4, <1>8, <2>1, <2>2 DEF ProcessIInv, ProcessOK, Main,
       GiveUpPort, serverVars, stopVars
  <2>4. PortsTried'
    BY <1>3, <1>4, <2>1, <2>2 DEF PortsTried
  <2> QED BY <1>2, <2>3, <2>4 DEF ProcessIInv
<1>9. CASE GiveUpPort /\ ~ (main.at < Len(ports))
  <2>1. main' = [main EXCEPT !.pc = "error"] /\ timedOut' = timedOut \cup {main.at}
    BY <1>9 DEF GiveUpPort, Exit
  <2>2. ProcessOK'
    BY <1>1, <1>3, <1>9, <2>1 DEF ProcessIInv, ProcessOK, Main,
       GiveUpPort, serverVars, stopVars
  <2>3. PortsTried'
    BY <1>1, <1>3, <2>1 DEF PortsTried, Exited, Main
  <2> QED BY <1>2, <2>2, <2>3 DEF ProcessIInv
<1> QED BY <1>5, <1>6, <1>7, <1>8, <1>9

(* run ends. *)
LEMMA EndKeeps ==
  ASSUME ProcessIInv, UNCHANGED conf,
         \/ Cancelled \/ ReturnError \/ ReturnOnSignal
         \/ InvalidPort \/ ListenFails
  PROVE  ProcessIInv'
<1>1. \E result \in {"ok", "error"} : main' = [main EXCEPT !.pc = result]
  BY DEF Exit, Cancelled, ReturnError, ReturnOnSignal, InvalidPort, ListenFails
<1>2. /\ main \in Main /\ main' \in Main /\ Exited'
      /\ main'.waited = main.waited /\ main'.sleep = main.sleep
      /\ main'.delay = main.delay
  BY <1>1 DEF ProcessIInv, ProcessOK, Main, Exited
<1>3. /\ enabled' = enabled /\ server' = server /\ ready' = ready /\ taken' = taken
      /\ signalled' = signalled /\ shutdown' = shutdown /\ timedOut' = timedOut
  BY DEF conf, serverVars, stopVars, envVars, Cancelled,
     ReturnError, ReturnOnSignal, InvalidPort, ListenFails
<1>4. events' \in 0 .. MaxEvents
  BY SupervisorAssumption DEF ProcessIInv, ProcessOK, envVars, Event,
     Cancelled, ReturnError, ReturnOnSignal, InvalidPort, ListenFails
<1> DEFINE Sender == Server \cup {"http"}
<1>5. errCh' \in Seq(Sender) /\ Len(errCh') <= ErrCap
  <2>1. errCh \in Seq(Sender) /\ Len(errCh) <= ErrCap
    BY DEF ProcessIInv, ProcessOK
  <2>2. CASE errCh' = errCh
    BY <2>1, <2>2
  <2>3. CASE errCh # << >> /\ errCh' = Tail(errCh)
    BY <2>1, <2>3 DEF ErrCap
  <2> QED BY <2>2, <2>3 DEF serverVars, Cancelled, ReturnError,
             ReturnOnSignal, InvalidPort, ListenFails
<1>6. main'.pc \in {"ok", "error"}
  BY <1>2 DEF Exited
<1>7. ProcessOK'
  BY <1>2, <1>3, <1>4, <1>5, <1>6 DEF ProcessIInv, ProcessOK
<1>8. ServersOK'
  BY <1>2, <1>3 DEF ProcessIInv, ServersOK
<1>9. PortsTried'
  BY <1>2, <1>6 DEF ProcessIInv, PortsTried
<1> QED BY <1>7, <1>8, <1>9 DEF ProcessIInv

(* HTTP fails or is shut down; signals and ports come from outside. *)
LEMMA OthersKeep ==
  ASSUME ProcessIInv, UNCHANGED conf,
         \/ HttpFails \/ ShutdownHttp \/ Signal
         \/ \E p \in RealPort : Occupy(p)
  PROVE  ProcessIInv'
<1>1. /\ enabled' = enabled /\ main' = main /\ server' = server /\ ready' = ready
      /\ timedOut' = timedOut
  BY DEF conf, serverVars, stopVars, envVars, HttpFails,
     ShutdownHttp, Signal, Occupy
<1>2. /\ events' \in 0 .. MaxEvents /\ taken' \subseteq RealPort
      /\ signalled' \in BOOLEAN
      /\ shutdown' \in {"none", "waiting", "draining", "done"}
  <2>1. /\ events \in 0 .. MaxEvents /\ taken \subseteq RealPort
        /\ signalled \in BOOLEAN /\ MaxEvents \in Nat
        /\ shutdown \in {"none", "waiting", "draining", "done"}
    BY SupervisorAssumption DEF ProcessIInv, ProcessOK
  <2>2. CASE HttpFails
    BY <2>1, <2>2 DEF HttpFails, Event, stopVars
  <2>3. CASE ShutdownHttp
    BY <2>1, <2>3 DEF ShutdownHttp, envVars
  <2>4. CASE Signal
    BY <2>1, <2>4 DEF Signal, envVars
  <2>5. CASE \E p \in RealPort : Occupy(p)
    BY <2>1, <2>5 DEF Occupy, Event, stopVars
  <2> QED BY <2>2, <2>3, <2>4, <2>5
<1> DEFINE Sender == Server \cup {"http"}
<1>3. /\ errCh' \in Seq(Sender) /\ Len(errCh') <= ErrCap
      /\ \A y : Contains(errCh, y) => Contains(errCh', y)
  <2>1. errCh \in Seq(Sender) /\ Len(errCh) <= ErrCap
    BY DEF ProcessIInv, ProcessOK
  <2>2. CASE errCh' = errCh
    BY <2>1, <2>2
  <2>3. CASE Len(errCh) < ErrCap /\ errCh' = Append(errCh, "http")
    <3>1. /\ errCh' \in Seq(Sender) /\ Len(errCh') = Len(errCh) + 1
          /\ \A y : Contains(errCh, y) => Contains(errCh', y)
      BY <2>1, <2>3, AppendContains
    <3> QED BY <2>1, <2>3, <3>1 DEF ErrCap
  <2> QED BY <2>2, <2>3 DEF serverVars, HttpFails, ShutdownHttp, Signal,
             Occupy
<1>4. ProcessOK'
  BY <1>1, <1>2, <1>3 DEF ProcessIInv, ProcessOK
<1>5. ServersOK'
  BY <1>1, <1>3 DEF ProcessIInv, ServersOK, Exited
<1>6. PortsTried'
  BY <1>1 DEF ProcessIInv, PortsTried, Exited
<1> QED BY <1>4, <1>5, <1>6 DEF ProcessIInv

(* run loads the configuration and starts the servers it asks for. *)
LEMMA ConfigureKeeps ==
  ASSUME ProcessIInv, Configure
  PROVE  ProcessIInv'
<1>1. /\ main.pc = "configure" /\ main \in Main
      /\ main' = [main EXCEPT !.pc = "listen"]
      /\ DOMAIN ready = Server \cup {"http"}
  BY DEF ProcessIInv, ProcessOK, Configure
<1>2. /\ enabled' \subseteq Server
      /\ server' \in [Server -> {"starting", "off"}]
      /\ ready' = [s \in Server \cup {"http"} |-> s \notin enabled']
  BY <1>1 DEF Configure
<1>3. ProcessOK'
  BY <1>1, <1>2 DEF ProcessIInv, ProcessOK, Main, Configure, stopVars,
     envVars
<1>4. ServersOK'
  BY <1>2 DEF ServersOK
<1>5. PortsTried'
  BY <1>1 DEF ProcessIInv, PortsTried, Exited, Main, Configure, envVars
<1> QED BY <1>3, <1>4, <1>5 DEF ProcessIInv

LEMMA BeginKeeps ==
  ASSUME ProcessIInv, LoadConfig \/ ConfigureFails
  PROVE  ProcessIInv'
<1>1. \E pc \in {"configure", "error"} : main' = [main EXCEPT !.pc = pc]
  BY DEF LoadConfig, ConfigureFails, Exit
<1>2. /\ main \in Main /\ main' \in Main /\ main'.at = main.at
      /\ main'.waited = main.waited /\ main'.sleep = main.sleep
      /\ main'.delay = main.delay /\ ~ Exited
      /\ main'.pc \notin {"listen", "sleep", "serve"}
  BY <1>1 DEF ProcessIInv, ProcessOK, Main, Exited, LoadConfig,
     ConfigureFails
<1>8. main.at = 1
  BY DEF ProcessIInv, PortsTried, LoadConfig, ConfigureFails
<1>3. /\ enabled' = enabled /\ UNCHANGED serverVars /\ UNCHANGED stopVars
      /\ taken' = taken /\ timedOut' = timedOut
  BY DEF LoadConfig, ConfigureFails, envVars
<1>4. events' \in 0 .. MaxEvents
  BY SupervisorAssumption DEF ProcessIInv, ProcessOK, Event, LoadConfig,
     ConfigureFails, envVars
<1>5. ProcessOK'
  BY <1>2, <1>3, <1>4 DEF ProcessIInv, ProcessOK, serverVars, stopVars
<1>6. ServersOK'
  BY <1>2, <1>3, ServersStay DEF ProcessIInv
<1>7. PortsTried'
  BY <1>2, <1>3, <1>8 DEF ProcessIInv, PortsTried
<1> QED BY <1>5, <1>6, <1>7 DEF ProcessIInv

(* The ports stay, but where run lists them; it is then at the first, which *)
(* is there.                                                               *)
LEMMA PortsListed ==
  ASSUME ConfigTypeOK, ProcessIInv, Configure
  PROVE  PortsOK'
<1>1. ports' \in Seq(Nat \ {0}) /\ IsInjective(ports') /\ Len(ports') \in Nat \ {0}
  <2>1. cfg.port \in Int /\ cfg.ports \in Seq(1 .. MaxPort)
    BY DEF ConfigTypeOK, Configure
  <2> QED BY <2>1, SomePortToTry DEF Configure
<1>2. main'.at = 1
  BY DEF ProcessIInv, ProcessOK, PortsTried, Main, Configure
<1> QED BY <1>1, <1>2 DEF PortsOK, IsInjective

LEMMA PortsStay ==
  ASSUME PortsOK, ProcessIInv, UNCHANGED conf, RunStep \/ ListenFails
  PROVE  PortsOK'
<1>1. ports' = ports /\ main \in Main
  BY DEF conf, ProcessIInv, ProcessOK
<1>2. CASE GiveUpPort /\ main.at < Len(ports)
  <2>1. main'.at = main.at + 1 /\ main.at \in Nat /\ Len(ports) \in Nat
    BY <1>1, <1>2 DEF GiveUpPort, Main, PortsOK
  <2>2. main'.at \in 1 .. Len(ports)
    BY <1>2, <2>1
  <2> QED BY <1>1, <2>2 DEF PortsOK, IsInjective
<1>3. CASE \/ Listen \/ Backoff \/ Retry
  <2>1. main'.at = main.at /\ main.pc \in {"listen", "sleep", "serve"}
    BY <1>1, <1>3 DEF Main, Listen, Backoff, Retry
  <2> QED BY <1>1, <2>1, PlaceStays
<1>4. CASE \/ GiveUpPort /\ ~ (main.at < Len(ports))
           \/ Cancelled \/ ReturnError \/ ReturnOnSignal
           \/ InvalidPort \/ ListenFails
  <2>1. \E result \in {"ok", "error"} : main' = [main EXCEPT !.pc = result]
    BY <1>4 DEF Exit, GiveUpPort, Cancelled, ReturnError,
       ReturnOnSignal, InvalidPort, ListenFails
  <2>2. main'.at = main.at /\ main'.pc \notin {"listen", "sleep", "serve"}
    BY <1>1, <2>1 DEF Main
  <2> QED BY <1>1, <2>2, PlaceStays
<1> QED BY <1>2, <1>3, <1>4 DEF RunStep

LEMMA PxeInitially ==
  ASSUME PxeInit
  PROVE  PxeIInv
<1>1. ConfigTypeOK /\ ConfigOK
  BY DEF PxeInit, ConfigInit, ConfigTypeOK, ConfigOK, IsLoaded,
         DhcpIsUsable, DhcpOn, NotLoaded, InterfaceIsOurs,
         FallbacksAsGiven
<1>8. PortsOK
  BY DEF PxeInit, PortsOK, IsInjective
<1>2. InitialDelay \in Nat /\ MaxWait \in Nat /\ MaxDelay \in Nat /\ MaxEvents \in Nat
      /\ InitialDelay <= MaxDelay
  BY SupervisorAssumption
<1>3. main \in Main
  BY <1>2 DEF PxeInit, Main
<1>4. errCh \in Seq(Server \cup {"http"}) /\ Len(errCh) <= ErrCap
  BY DEF PxeInit, ErrCap
<1>5. ProcessOK
  <2>1. /\ server \in [Server -> {"off"}]
        /\ ready \in [Server \cup {"http"} -> {FALSE}]
        /\ events \in 0 .. MaxEvents /\ enabled \subseteq Server
    BY <1>2 DEF PxeInit
  <2> QED BY <1>3, <1>4, <2>1 DEF PxeInit, ProcessOK
<1>6. ServersOK
  BY DEF PxeInit, ServersOK
<1>7. PortsTried
  BY <1>2 DEF PxeInit, PortsTried
<1> QED BY <1>1, <1>5, <1>6, <1>7, <1>8 DEF PxeIInv, PxeTypeOK

LEMMA PxeInductive ==
  ASSUME PxeIInv,
         [PxeNext]_pxeVars
  PROVE  PxeIInv'
<1>1. ConfigTypeOK /\ ConfigOK /\ PortsOK /\ ProcessIInv
  BY DEF PxeIInv, PxeTypeOK, ProcessIInv
<1>10. ConfigTypeOK' /\ ConfigOK' /\ PortsOK' /\ ProcessIInv' => PxeIInv'
  BY DEF PxeIInv, PxeTypeOK, ProcessIInv
<1>2. CASE LoadConfig \/ ConfigureFails
  <2>1. PortsOK'
    <3>1. \E pc \in {"configure", "error"} : main' = [main EXCEPT !.pc = pc]
      BY <1>2 DEF LoadConfig, ConfigureFails, Exit
    <3>2. main \in Main /\ ports' = ports
      BY <1>1, <1>2 DEF ProcessIInv, ProcessOK, LoadConfig, ConfigureFails
    <3>3. main'.at = main.at /\ main'.pc \notin {"listen", "sleep", "serve"}
      BY <3>1, <3>2 DEF Main
    <3> QED BY <1>1, <3>2, <3>3, PlaceStays
  <2>2. ConfigTypeOK' /\ ConfigOK'
    BY <1>1, <1>2, LoadKeeps, DropKeeps DEF LoadConfig, ConfigureFails
  <2> QED BY <1>1, <1>2, <1>10, <2>1, <2>2, BeginKeeps
<1>3. CASE Configure
  BY <1>1, <1>3, <1>10, DropKeeps, ConfigureKeeps, PortsListed DEF Configure
<1>5. CASE UNCHANGED conf /\ ProcessIInv' /\ PortsOK'
  BY <1>1, <1>5, <1>10, ConfStays
<1>6. CASE UNCHANGED conf /\ (RunStep \/ ListenFails)
  BY <1>1, <1>5, <1>6, ListenKeeps, EndKeeps, PortsStay DEF RunStep
<1>11. CASE UNCHANGED conf /\ main' = main /\ ProcessIInv'
  <2>1. ports' = ports /\ main'.at = main.at /\ main'.pc = main.pc
    BY <1>11 DEF conf
  <2>2. PortsOK'
    BY <1>1, <2>1, PlaceStays
  <2> QED BY <1>5, <1>11, <2>2
<1>7. CASE /\ UNCHANGED conf
           /\ \/ HttpFails \/ ShutdownHttp \/ Signal
              \/ \E p \in RealPort : Occupy(p)
  <2>1. main' = main
    BY <1>7 DEF HttpFails, ShutdownHttp, Signal, Occupy
  <2> QED BY <1>1, <1>7, <1>11, <2>1, OthersKeep
<1>8. CASE /\ UNCHANGED conf
           /\ \E s \in Server :
                ServerBinds(s) \/ ServerFails(s) \/ ServerEnds(s)
  <2>1. main' = main
    BY <1>8 DEF ServerBinds, ServerFails, ServerEnds
  <2> QED BY <1>1, <1>8, <1>11, <2>1, ServerKeeps
<1>9. CASE UNCHANGED pxeVars
  <2>1. UNCHANGED conf /\ main' = main /\ ProcessIInv'
    BY <1>1, <1>9 DEF pxeVars, conf, serverVars, stopVars, envVars,
       ProcessIInv, ProcessOK, ServersOK, PortsTried, Exited
  <2> QED BY <1>11, <2>1
<1> QED BY <1>2, <1>3, <1>6, <1>7, <1>8, <1>9 DEF PxeNext, Begin, Gone

(* The inductive invariant of the supervisor: its state is well formed, a  *)
(* flag that is up was set by its server, an error waits until run ends,   *)
(* and the ports behind it are those it has given up.                      *)
THEOREM PxeInvariance == PxeSpec => []PxeIInv
<1>1. PxeInit => PxeIInv
  BY PxeInitially
<1>2. PxeIInv /\ [PxeNext]_pxeVars => PxeIInv'
  BY PxeInductive
<1> QED BY <1>1, <1>2, PTL DEF PxeSpec

(* When GET /readyz says yes, every enabled server has had its socket, and *)
(* one that failed since has an error waiting for run (main.go's flags and *)
(* channel).                                                               *)
THEOREM ReadyStackIsBound == PxeSpec => []ReadyMeansBound
<1>1. PxeIInv => ReadyMeansBound
  <2>1. SUFFICES ASSUME PxeIInv, ReadyOK, NEW s \in enabled
                 PROVE  /\ server[s] \in {"serving", "ended", "failed"}
                        /\ server[s] = "failed" => Contains(errCh, s)
    BY DEF ReadyMeansBound
  <2>2. ready[s] /\ ~ Exited
    BY <2>1 DEF PxeIInv, PxeTypeOK, ProcessOK, ReadyOK, Exited
  <2> QED BY <2>1, <2>2 DEF PxeIInv, ServersOK
<1> QED BY <1>1, PxeInvariance, PTL

(* HTTP is served on the first port that could be had, none is left before *)
(* its time is up, and none is waited for any longer (listenWithRetry and  *)
(* the loop over portsToTry).                                              *)
THEOREM PortsInOrder == PxeSpec => []FallbackInOrder
<1>1. PxeIInv => FallbackInOrder
  BY DEF PxeIInv, PortsTried, FallbackInOrder, Exited
<1> QED BY <1>1, PxeInvariance, PTL

(* A configuration that enables DHCP gives its server a range that is not  *)
(* empty as numbers, a mask and a router (Load, for any bytes).            *)
THEOREM DhcpConfigIsUsable == PxeSpec => []DhcpIsUsable
<1>1. PxeIInv => DhcpIsUsable
  BY DEF PxeIInv, ConfigOK
<1> QED BY <1>1, PxeInvariance, PTL

(* The state of the supervisor and of its configuration is well formed: the *)
(* ports to try are positive, each once, and run stands at one of them     *)
(* (portsToTry and its loop).                                               *)
THEOREM PxeTypeCorrect == PxeSpec => []PxeTypeOK
<1>1. PxeIInv => PxeTypeOK
  BY DEF PxeIInv
<1> QED BY <1>1, PxeInvariance, PTL

(* A configuration names an interface of the host: the first candidate that *)
(* is there, or the one that has the server's address (resolveDHCPInterface *)
(* for any tables of interfaces and any list of candidates).                *)
THEOREM InterfaceIsThere == PxeSpec => []InterfaceIsOurs
<1>1. PxeIInv => InterfaceIsOurs
  BY DEF PxeIInv, ConfigOK
<1> QED BY <1>1, PxeInvariance, PTL

(* A list of fallback ports that is accepted loses no port, repeats none    *)
(* and keeps their order (parsePortList for lists of any length).           *)
THEOREM FallbacksKept == PxeSpec => []FallbacksAsGiven
<1>1. PxeIInv => FallbacksAsGiven
  BY DEF PxeIInv, ConfigOK
<1> QED BY <1>1, PxeInvariance, PTL
=============================================================================
