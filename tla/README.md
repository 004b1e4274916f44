# Formal models of Open3D's RaycastingScene and WebRTC peer manager

This directory holds TLA+ models of two files:
- `src/cpp/open3d/t/geometry/RaycastingScene.cpp`;
- `src/cpp/open3d/visualization/webrtc_server/PeerConnectionManager.h`.

It also holds the TLC configurations that model-check them and TLAPS proofs of the main safety properties. Line numbers below refer to those two files.

## 1. The system

`RaycastingScene` wraps an Embree scene. Its components are:

| Component | Code | State | Operations |
|---|---|---|---|
| Scene lifecycle and geometry registry | `Impl` (198-205), ctor (383-394), `AddTriangles` (401-458) | Embree scene, `scene_committed`, `geometry_ptrs` | AddTriangles; the lazy `rtcCommitScene` at the head of each query (215-218, 295-298, 353-356) |
| Batch ray caster | `Impl::CastRays` (207-290) | `rayhits` batch vector, output tensors | the batch loop; translation of a hit into t/ids/uv/normal |
| Crossing counter | `CountIntersectionsFunc` (83-124), `Impl::CountIntersections` (292-346) | `intersections[]`, `previous_geom_prim_ID_tfar[]` per ray | the filter callback, once per candidate hit, in BVH traversal order |
| Nearest-point locator | `ClosestPointFunc` (140-190), `Impl::ComputeClosestPoints` (348-380) | `ClosestPointResult`, `query.radius` | the point-query callback, with a shrinking radius |
| Derived query layer | `ComputeDistance`, `ComputeSignedDistance`, `ComputeOccupancy` (536-618) | none of its own | composes the closest-point distance with the crossing-count parity |
| Argument validation | `AssertTensorDtypeLastDimDeviceMinNDim` (55-74) and the `Assert*` calls | none | throws before any state change |
| WebRTC peer manager | `PeerConnectionManager.h` | `peer_connectionobs_map_` (396-397), each observer's `deleting_`, `pc_`, `remote_channel_`; `report_` of the stats callback; the promises of the session observers | callbacks on WebRTC's signaling thread, the HTTP thread (getStats, HangUp), the detached HangUp thread (322-325), the destructor (251-260) |

The components interact as follows:
- Every query first commits the scene when `scene_committed` is false.
- `ClosestPointFunc` dereferences `geometry_ptrs[geomID]`, which relies on Embree's geometry ids matching the registry order.
- The signed distance and occupancy take the inside/outside sign from the parity of the crossing count.
- In the peer manager, three kinds of thread reach one `PeerConnectionObserver`: WebRTC's signaling thread (callbacks), the HTTP thread (getStats, HangUp) and the detached thread each failed connection starts. Only the map is under a mutex.

The manager's method bodies (`HangUp`, `Call`, `CreateOffer`, `setAnswer`) are in `PeerConnectionManager.cpp`, which is not in the repository. `HangUp` is modelled from its declaration (369) and the destructor it triggers; the callers of the session observers are modelled as requests started at any time.

Embree is outside the repository. The models treat what it does as nondeterminism:
- the order in which the BVH traversal hands hits or triangles to a callback;
- culling by bounding-box distance;
- errors reported through `ErrorFunction` (49-51), whose `LogError` throws out of the call.

## 2. Modules

### Scene (`Scene.tla`, proofs in `SceneProofs.tla`)

The state is:
- `attached`: geometries in id order;
- `geometry_ptrs`;
- `scene_committed`;
- `index`: what the last successful commit indexed;
- `lastQuery`: the index and the attached geometry seen by the last query that returned.

A mesh is a model value. The actions are:

- `AddTriangles(m, outcome)` models the whole call. The flag is cleared first (414). Then `rtcNewGeometry`, the buffers and the attach run (415-439), and last comes the `push_back` (442-444). The outcome is one of:
  - `ok`;
  - `provider_error`: an Embree error before the attach, so nothing is attached;
  - `registry_error`: the push_back throws after the attach. This is enabled by the constant `RegistryMayFail`.
- `CommitAndQuery` is the lazy commit followed by the query. It has three cases:
  - the flag is set, so the query answers from the index;
  - the commit succeeds: index the attached geometry, set the flag, answer;
  - the commit fails: the error throws, and the flag stays false.
- `CastRays`, `CountIntersections` and `ComputeClosestPoints` are each that action, because their effect on the lifecycle is the same.

The project keeps no abstract scene. With `geoms <- attached`, a refinement would only restate `QueryFresh`. It would also have to count a registry failure, a call that throws, as a successful registration, because the geometry stays attached. That divergence from spec section 4.1 is what the run scene_registry_failure shows.

### CrossingCounter (`CrossingCounter.tla`, proofs in `CrossingCounterProofs.tla`)

This module models one ray of `CountIntersections`. The initial state picks a scenario:
- up to `MaxCrossings` crossings of a surface;
- each crossing meets one triangle, two at a shared edge, or more at a shared vertex;
- all triangles of a crossing belong to one geometry and lie at one distance;
- with `TieJitter`, a triangle may report t one unit later, for last-bit float differences.

The action `CountIntersectionsFunc(h)` is the filter at lines 83-124:
- it applies the duplicate test of lines 115-117 (`CountsAsNew`);
- it increments the count and records the hit (118-119);
- it always rejects the hit, so `tfar` does not change (122).

Embree may deliver any candidate next (`Candidates`). With `AdjacentTraversal` it finishes the hits of one crossing before it starts another.

### RayBatch (`RayBatch.tla`, proofs in `RayBatchProofs.tla`)

This module models the batch loop shared by `Impl::CastRays` (223-289) and `Impl::CountIntersections` (315-345):
- `rayhits` has `min(num_rays, MAX_BATCH_SIZE)` slots, and `num_batches = DivUp(num_rays, size)`;
- CastRays gives ray `i` the batch-local id `i - start_idx` and writes at `id + start_idx`;
- CountIntersections gives it the global id `i`.

What Embree computes for ray `i` is `answer[i]`. For CountIntersections it is a crossing count. For CastRays it is an `RTCRayHit`: the `geomID` (or `INVALID_ID`) and the class of the float vector `Ng`. `HitOf` is the output loop body (264-286): a hit copies the id and the normalised normal, a miss writes the sentinel. `Normalized` is what `Ng * (1.f / sqrt(Ng.Ng))` gives in IEEE float:

| Ng | Ng.Ng | normal |
|---|---|---|
| regular | a normal float | unit |
| zero | 0 | 0 * inf = NaN |
| underflow (components below about 1e-23) | rounds to 0 | infinite |
| overflow (components above about 1e19) | rounds to +inf | zero |

The outputs start uninitialised (`Garbage`), except for `intersections`, which is zeroed.


### ClosestPoint (`ClosestPoint.tla`, proofs in `ClosestPointProofs.tla`) and VertexFetch (`VertexFetch.tla`)

`ClosestPoint` models one query point of `ComputeClosestPoints`:
- distances are naturals;
- `lb[x] <= dist[x]` is the bounding-box distance;
- `ClosestPointFunc(x)` (140-190) shrinks `radius` and records the triangle when `d < radius`;
- triangles whose bounds lie beyond the radius are culled (`Candidates`);
- the result starts as a `ClosestPointResult` with invalid ids and an uninitialised point (126-137).

`VertexFetch` models the index arithmetic of the same callback (158-170). The mesh is abstracted to its vertex count, its triangle count and the triangle Embree reports. Products are taken modulo `2^W` (`U`), with `W` the width of `unsigned int`. `AddTriangles` only accepts meshes with at most `2^W - 1` vertices (450). When a position wraps, the entry read is another triangle's index (`Wrapped`, any vertex).

### PeerObserver (`PeerObserver.tla`, proofs in `PeerObserverProofs.tla`)

The state is, per observer: `status` (unborn, alive, destroying inside the destructor, deleted), `peer` (`peerid_`), `deleting` (`deleting_`), `pcOpen`, `threads` (detached HangUp threads holding `this`), `iceEvents` and `remoteChannels` (DataChannelObservers made and not deleted). `peerMap` is `peer_connectionobs_map_`.

The actions are:
- `CreatePeerConnection(p, o)`: the constructor and the map entry;
- `OnIceConnectionChange(o)` (313-328): on a failed or closed state, a detached thread is started unless `deleting_`;
- `OnDataChannel(o)` (295-299): a new observer is stored in `remote_channel_`;
- `ClientHangUp(p)`: HangUp over the HTTP API, enabled by `ClientMayHangUp`;
- `HangUpThread(o)` (322-325): the detached thread reads `peerid_` through `this` and calls HangUp;
- `DestroyObserver(o)`: the rest of the destructor, `deleting_ = true` and `pc_->Close()` (257-258).

`HangUp` erases the map entry and starts the destructor, which deletes the channel observers (253-254). The destructor is split there, because a callback on another thread may run between its start and `deleting_ = true`.

### StatsPoll (`StatsPoll.tla`)

This models `getStats` (264-272) against `OnStatsDelivered` (160-170). A stats object is `<<request, id>>`. The actions are:
- `GetStats`: clear the report, ask WebRTC, and set `count = 10` (`Polls`);
- `PollReport`: one test of the loop condition, which ends the call on a non-empty report or when the count runs out;
- `OnStatsDelivered(r, e)`: store one stats object, replacing any entry with that id.

A delivery stays outstanding after its call gave up, so it may land during a later call.

### SessionDescription (`SessionDescription.tla`, proofs in `SessionDescriptionProofs.tla`)

This models the two observers at lines 79-151 and the promise each is handed. Per request: `op` (create an offer or answer, or set the remote description), `stage`, the promise's value `val` and the number of `set_value` calls `sets`. The connection has `hasLocal` and `hasRemote`. The actions are:
- `Request(r)`: a caller starts a request;
- `CreateObserverOnSuccess(r)`: SetLocalDescription with a new set-observer on the same promise;
- `CreateObserverOnFailure(r)` and `SetObserverOnFailure(r)`: `set_value(nullptr)`;
- `SetObserverOnSuccess(r)`: WebRTC has applied the description (`Applied`). The promise gets the local description if there is one, else the remote one.

## 3. Runs

| Run | Module / cfg | Expect | Shows |
|---|---|---|---|
| scene | MC_Scene / MC_Scene.cfg | pass | Through every sequence of AddTriangles, Embree errors and failed commits (3 geometries, 2 meshes), the flag is honest (`CommittedIndexCurrent`), every query uses an index of all attached geometry (`QueryFresh`), and the registry matches geometry ids (`RegistryCoversIndex`). |
| scene_registry_failure | MC_Scene_registry.cfg | violation | `RegistryCoversIndex` breaks when push_back throws after the attach. |
| crossings | MC_CrossingCounter / MC_CrossingCounter.cfg | pass | For every scenario of up to 3 crossings and 4 hits over 2 geometries and 3 triangles, with and without jitter, every crossing is counted (`CountNoLoss`). When hits are adjacent, exact and no two geometries touch, each crossing is counted exactly once (`CountExactWhenAdjacent`). |
| crossings_order | MC_CrossingCounter_order.cfg | violation | `ParityExact` breaks from traversal order alone. |
| batches | MC_RayBatch / MC_RayBatch.cfg | pass | For 0..5 rays in batches of 2, with every kind of hit and miss, each output holds its own ray's translated hit or count (`OrderPreserved`). |
| closest | MC_ClosestPoint / MC_ClosestPoint.cfg | pass | For every scene over 3 triangles, distances 0..2 and every traversal order, the result is a closest triangle and the first one reached at that distance (`ClosestIsFirstMinimal`). |
| vertex_fetch_wrap | VertexFetch / MC_VertexFetch_wrap.cfg | violation | With W = 4, a mesh of 6 triangles passes the vertex check, and `3 * primID + k` wraps (`VertexFetchExact`). |
| peer_teardown | MC_PeerObserver / MC_PeerObserver.cfg | pass | With client HangUps at any time and up to two failed/closed ICE events per connection, the map only ever holds live observers under their own ids (`MapHoldsLive`). Every connection whose ICE failed is eventually torn down (`FailedPeerHungUp`). |
| peer_dangling | MC_PeerObserver_dangling.cfg | violation | A client HangUp before the detached thread runs leaves the thread holding a deleted observer (`NoDanglingThread`). |
| stats_partial | MC_StatsPoll / MC_StatsPoll_partial.cfg | violation | getStats returns a partial report, or a late one of an earlier call (`ReturnedReportComplete`). |
| session_promises | SessionDescription / MC_SessionDescription.cfg | pass | Three concurrent requests: each promise is set at most once (`PromiseSetOnce`) and eventually (`PromiseSettled`). |

Each module also states a property for a defect that a unit test reaches directly. These have no run of their own; TLC finds each of them violated with the module's own cfg and the property as its invariant. They are listed as hazards:
- `EmptyBatchReturns` (RayBatch): an empty ray tensor divides by zero at line 227;
- `HitNormalPromised` (RayBatch): the normals shown in the table of section 2;
- `MissIsSentinel` (ClosestPoint): an empty scene returns the uninitialised point;
- `ChannelObserversReleased` (PeerObserver, with `MaxRemoteChannels = 2`): the first remote DataChannelObserver leaks;
- `RemoteRequestGetsRemote` (SessionDescription): see finding 6.

Why these bounds are enough:
- Three geometries let a failed registration be followed by a successful one and a commit. That is the shortest history in which a misaligned registry is observed.
- Three crossings and four hits allow a shared-edge crossing separated by a third crossing, plus shared-vertex triples.
- Five rays in batches of two give full batches, a partial last batch and the empty call. One geometry and the four Ng classes give every branch of the translation.
- In ClosestPoint, three triangles with distances 0..2 give ties and culling.
- VertexFetch picks the smallest width at which the vertex check admits a wrapping mesh. With a 5-bit width and meshes of up to 10 vertices and 4 triangles, nothing wraps and `VertexFetchExact` holds.
- Two peers and two observers let an observer be replaced by a new one for the same peer id. peer_teardown allows two failed or closed ICE events per observer, so two detached threads of one observer race with each other and with a client HangUp. peer_dangling needs only one. One remote channel per observer reaches every callback.
- Two getStats calls and two stats ids give a late delivery into the next call and a half-written report.
- Three session requests give a create and a set-remote in either order and overlapping.

### Fairness

- PeerObserver assumes weak fairness of each detached HangUp thread (the OS runs a started thread) and of the rest of a destructor that has started. Clients, the network and WebRTC callbacks are not assumed to do anything.
- SessionDescription assumes weak fairness of WebRTC's callback for each request. The WebRTC API promises that every accepted operation ends in `OnSuccess` or `OnFailure`.
- The other models state only safety properties and assume no fairness.

`CHECK_DEADLOCK FALSE` is set where the system really stops:
- traversal ends in CrossingCounter and ClosestPoint;
- the call returns in RayBatch, VertexFetch and StatsPoll;
- the pool of observer objects or requests is used up in PeerObserver and SessionDescription.

The Scene runs check deadlock, because a scene can always take another query.

### Findings

Shown by a run:
1. **Crossing dedupe depends on traversal order (line 115).** The filter compares a hit only with the last hit it counted. Embree delivers hits in BVH order, not in distance order. So the order (edge triangle A, another crossing, edge triangle B) counts one crossing twice. This flips the inside/outside parity that `ComputeSignedDistance` and `ComputeOccupancy` use. With `TieJitter`, a last-bit difference of t (line 117) does the same even when the hits arrive together.
2. **Registry shift (line 442).** A throwing `push_back` after `rtcAttachGeometry` leaves the registry one entry short. Every later geometry is then misaligned.
3. **32-bit vertex fetch (line 162).** `3 * primID + k` and `3 * index + j` wrap for meshes that the check at line 450 accepts.
4. **Detached HangUp thread after delete (line 323).** A client HangUp that runs before the thread deletes the observer. The thread then reads `peerid_` from freed memory.
5. **Unlocked stats poll (line 268).** getStats can return the first entries of a report still being written. It can also return a late delivery of an earlier call.

Stated as properties, and reachable by unit tests:

6. **Which description a set-observer returns (line 91).** The local description wins whenever one exists, even for a SetRemoteDescription.
7. **Empty ray batch (line 227).** `DivUp` divides by zero.
8. **Closest point on a miss (line 374).** `result.p` is never initialised.
9. **Unguarded normal normalisation (line 273).** A zero Ng gives a NaN normal, a tiny one an infinite normal, and a huge one a zero normal. The spec promises a unit normal, or the zero vector for a degenerate one.
10. **Leaked remote channel observer (line 298).** `remote_channel_` is overwritten without a delete.

A note on spec section 4.3: it describes the dedupe as "a hit counts when (geom, prim) changes". The code (115-117) also requires the t values to differ when the geometry is the same. That is what `CountsAsNew` models.

## 4. Proofs

Six modules hold proofs, for all values of the constants.

`SceneProofs.tla` rests on the assumptions in `Scene.tla`: `Meshes` is non-empty, `NoIndex` is not a sequence of meshes, `NoQuery` is not a query record, `MaxGeometries` is a natural, and `RegistryMayFail` is Boolean.

- `TypeCorrect`: `Spec => []TypeOK`. It follows from `InitType` and the one-step lemma `TypeStep`.
- `QueryFreshness`: `Spec => []QueryFresh`. `QueryFresh` is not inductive by itself, because a query answers from `index` whenever the flag is set. The inductive invariant `IInv` adds `CommittedIndexCurrent`. The argument has three parts:
  - AddTriangles clears the flag;
  - a successful commit sets `index` to `attached`;
  - a failed commit leaves the flag false.
- `CommittedIndexIsCurrent`: `Spec => []CommittedIndexCurrent`, from the same invariant `IInv`.
- `RegistryCovered`: `~RegistryMayFail => (Spec => []RegistryCoversIndex)`. The inductive invariant `RInv` has two parts:
  - `IndexPrefix`: the indexed geometry is a prefix of the attached geometry, since geometry is only appended;
  - `RegistryFollows`: without a throwing push_back, the registry equals the attached list.

`PeerObserverProofs.tla` proves `MapHoldsLiveHolds`: `Spec => []MapHoldsLive`. It has no hypothesis beyond `PeerAssumption`. Clients may hang up, ICE may fail any number of times, and a peer may reconnect while a stale thread is pending. The inductive invariant `MInv` adds `PeerKnown` to the types: a constructed observer has a peer id, and only a constructed observer has threads. So even a thread whose observer is freed calls HangUp with a real peer id.

The lemma `HangUpStep` covers both callers of HangUp. HangUp erases exactly one entry, and no other entry holds that observer, since each entry holds an observer under its own id. So the observer it starts destroying leaves the map. A stale thread finds its peer unmapped, or mapped to the newer observer of that peer, which is alive. It never finds an observer that is being destroyed.

`NoDanglingThread` is not proved. It holds only when clients cannot hang up and ICE fails at most once, and those hypotheses exclude both races it is about. The run peer_dangling shows it violated.

`SessionDescriptionProofs.tla` proves `PromiseSetOnceHolds`: `Spec => []PromiseSetOnce`. The inductive invariant `SetWhenDone` says a promise has been set exactly when its request is done. The lemma `SetSuccessSets` shows that `SetObserverOnSuccess` always takes a setting branch, because WebRTC applied the description before the callback.

`ClosestPointProofs.tla` proves `ClosestIsFirstMinimalHolds`: `Spec => []ClosestIsFirstMinimal`, from `ClosestPointAssumption`. The inductive invariant `CInv` has three parts besides the types and `lb <= dist`:
- `RadiusIsResult`: the radius is +inf exactly while no triangle is recorded; after that it is the distance of the recorded triangle, which was visited;
- `VisitedNotCloser`: no visited triangle is closer than the radius;
- every visited triangle at the radius comes at or after the recorded one.

When traversal ends every unvisited triangle was culled, so its bound and its distance lie beyond the radius. The radius is then the minimum (`CInvDone`).

`RayBatchProofs.tla` proves `OrderPreservedHolds`: `Spec => []OrderPreserved`, from `BatchAssumption`.

The inductive invariant is `BControl /\ OutFilled`:
- `BControl`: while the loop runs, batch `n` starts inside the rays; once it is done, the batches cover them.
- `OutFilled`: the outputs below `n * batch_size` hold their results, and the others are as allocated.

The proof rests on the lemma `DivUpCounts`: batch `k` is counted by `DivUp(N, b)` exactly when `k * b < N`. `BatchAdvance` shows that one iteration of either loop covers rays `StartIdx..EndIdx - 1`.

`CrossingCounterProofs.tla` proves two theorems from `CountConstantsAssumption`:
- `CountNoLossHolds`: `Spec => []CountNoLoss`.
- `CountExactWhenAdjacentHolds`: `Spec => []CountExactWhenAdjacent`.

`InitHits` shows that every scenario `Init` allows has separated hits. Two hits of one geometry on different crossings lie on disjoint triangles and at different positions. A jitter of 0 or 1 on `2 * pos` cannot make them report the same t.

`NewCrossingCounted` then shows that line 115 counts the first hit of every crossing. The stored triple (`PrevDelivered`) is either the initial one, with an invalid geometry, or that of a hit of another crossing.

The invariant `NInv` bounds the count below by the crossings delivered. `EInv` adds `ExactSoFar`: under adjacency and equal t, the count equals that number, and the stored triple belongs to the crossing delivered last. `DoneDeliveredAll` shows that the filter has seen every hit when traversal ends, because it rejects each one and tfar stays +inf.

The proof of the exact count does not use `NoTouching`. Two geometries meeting the ray at one distance are told apart by their geometry ids, so that hypothesis of the property is stronger than the count needs.

Each invariant was checked with TLC before it was proved. CInv was checked with distances up to 3 and BInv with 7 rays in batches of 3. NInv and EInv were checked on the instance of the crossings run, with and without adjacent traversal.

These are checked only by TLC:
- `VertexFetchExact` and `ParityExact`, which the runs show violated;
- the liveness properties `FailedPeerHungUp` and `PromiseSettled`. They need fairness and ENABLED, which are beyond the provers used here.

The proofs of ClosestPoint and CrossingCounter do not go by induction over data. They reason about the sequence of visited or delivered hits one append at a time, through the sequence and finite-set lemmas of the library.

## 5. Not modelled

- Argument validation throws before any state change, so in the models a rejected call is a stutter.
- Formatting, logging, JSON building and tensor layout are left out. So are t, primID and uv of a hit, which are copied without computation.
- The RaycastingScene destructor (396-399) only releases resources.
- **Derived layer** (536-618). It computes a norm and `x % 2` of a non-negative count. Its outputs are wrong exactly when the closest point (finding 4) or the parity (findings 1, 2) is wrong, and both are checked where they arise.
- **Concurrent queries on one scene** (215-217). They would race on `scene_committed`, but spec section 5 forbids them and puts mutual exclusion on the caller.
- **Ray ids beyond 2^32 (338)** and the `int` batch count (227). Both are noted as hazards. A faithful model needs the signature of `utility::DivUp`, which is outside the repository.
- **The manager's methods** defined in `PeerConnectionManager.cpp` (not in the repository): `Call`, `CreateOffer`, `setAnswer`, `AddIceCandidate`, and the streams. Their waits on the observers' promises, and so the dangling promise reference after a timeout (84), cannot be read from the code.
- **`VideoSink` and the `DataChannelObserver` bodies** only log and forward frames and messages.
