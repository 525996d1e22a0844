# Afd AI chat for Magento: a TLA+ verification project

The repository is a Magento 2 module (PHP: `Model`, `Controller`, `Cron`, ...), the Node gateway it
talks to (`ai-chat-server`) and the scripts of the storefront and of the support console
(`view/*/web/js`). Shoppers chat over a WebSocket with the gateway, which calls model providers and
Magento; support agents take a conversation over from Magento's backend. This directory models what
is concurrent or stateful in that: uploads and their quota, admission and capacity, a chat turn,
the tools a model calls, guest sessions and verification, the support desk, and the browsers'
handling of what arrives. The modules are translated from the code; TLC checks small instances,
TLAPS proves the theorems named below for every value of the constants.

    tlc -workers 2 -config Services.cfg MCServices     # one run; see "Runs"
    tlapm ServiceProofs.tla                            # one module of proofs; see "Proofs"

`PROJECT.json` lists every component with its files, the runs, the lines of code each definition
stands for, the disagreements found, and under `hazards` each place where this code is hard to test
with the property that covers it.

## Inventory

The parts that keep state, how they interact, what is hard about them, what makes them correct.

| Component (code) | State | Operations, and how it interacts | Hard part | Correct when | Module |
|---|---|---|---|---|---|
| Attachment upload (`Model/AttachmentUploadManagement.php`, `Model/Attachment/AttachmentRepository.php`, `Controller/Chat/Upload.php`) | three MySQL tables, files in `staged/` and `final/` | initiate, upload, complete: HTTP requests of several transactions and a file move | replays, concurrent completes, a crash between any two transactions | a reservation is settled once; the quota counts what exists | AttachmentUpload |
| Quota reconciler (`Model/Maintenance/AttachmentQuotaReconciler.php`) | the same tables and files | cron, every 15 minutes, under a lock uploads do not take | acts on a snapshot while uploads go on | stuck uploads are recovered, a fresh commit survives | AttachmentUpload |
| Capacity (`services/gateway/gateway-runtime.js`) | two Redis sorted sets shared by replicas | register, poll, acquire, renew, release, called from a chat turn | crashed replicas, lost answers, expiry | no more runs than leases; every waiter settles | GatewayCapacity |
| Chat turn, active runs (`services/gateway/message-handlers.js`, `services/conversation/active-run-controller.js`) | one handler per message, suspended at awaits; a `Map` from socket to run | admits, sets up, queues, streams, stores; calls capacity, database, provider | events between any two awaits; a superseded handler that ends late | one live turn per socket; a cancelled turn is silent and ends | ChatTurn |
| Connection lifecycle, logout, shutdown (`connection-lifecycle.js`, `session-revoker.js`, `graceful-shutdown.js`) | sockets and clients | close, error, revocation, stop; they cancel runs and release leases | a close between awaits | lost turns are marked; no lease outlives its socket | ChatTurn, WebSocketAdmission |
| WebSocket admission (`services/security/websocket-security.js`, `server.js`) | tickets, a replica's counters, two distributed leases | admit, renew, release | the socket closes during admission | limits hold over all replicas | WebSocketAdmission |
| Orchestrators and tool rounds (`services/orchestration/*`) | the tool flow's flags of one turn | guards, tool and control calls, recoveries of three adapters | a model that ignores what it is told | owed reads are made; the cards fit the answer | ToolFlow, ProviderTurn |
| Guest history (`guest-session-history.js`) | one JSON store per guest | read-modify-write under an expiring lock | lock expiry, unlocked fallback | operations are atomic while locked | GuestHistoryStore, GuestSessionHistory |
| Guest verification (`Model/Order/Guest*`, `verified-access-session.js`, `pending-verification-action.js`) | one row per e-mail and session, access per connection and session, a waiting request | request, verify, grant, resume | calls of one connection overlap at awaits | a code is compared a bounded number of times and grants once | GuestVerification |
| Cart bridge (`browser-cart-bridge.js`, `stream.js`) | pending requests per socket | request, resolve, timeout, abort | a late answer, a new socket | a reported success was made | BrowserCart |
| Address forms (`address-update-admission.js`, `order-address-stream.js`) | newest form per conversation, a lock per shopper, forms on pages | issue, copy, expire, submit, update | several tabs; a check before the lock; a call that outlives its timeout | updates land in order of admission | AddressForms |
| Support desk (`Model/Support/*`) | case, takeover lease, ticket messages | claim, heartbeat, release, close, reply, edit, mass update | agents, shopper and assistant act at once, some from stale rows | a closed case stays closed and read-only | SupportDesk |
| Storefront widget (`view/frontend/web/js/chat/*`) | transcript, streaming answer, requests under way | send, stop, continue, edit, pages, snapshots, switch | late pages and frames; indices that shift | each conversation shows its own messages | ChatWidget |
| Answer transcript (`message-parts.js`, `stream.js`, `conversation-history.js`) | two recordings of one answer | record, show, store, reload | two implementations of one fold | a reload shows what was shown | AnswerTranscript |
| Model history (`attachments.js`, `context-budget.js`, `conversation-history.js`) | the messages shown and stored, a catalogue memory | build, cut by count, size and budget | four cuts, in two programs | a question is sent with its context | ModelHistory |
| Live voice (`live-voice.js`, `live-voice-persistence.js`) | a call, its spoken turns, claims | dial, events, save, end | events out of order, a socket that goes | no turn is forgotten | LiveVoice |
| Pictures (`attachments.js`, `requests.js`, `message-parts.js`) | composer, messages being sent, rows | choose, upload, send, reuse | awaited steps while the shopper goes on | a message keeps its own pictures | UserImages |
| Support console (`view/adminhtml/web/js/support-*.js`) | list of a case, last id, requests under way | open, poll, reload, reply, delete | overlapping requests share one id | no message is skipped | AdminConsole |
| Configuration sync (`config-service.js`) | snapshot in Redis, on disk, in memory | push, read | two pushes at once | both are kept | not modelled |
| Circuit breaker, image guards (`services/providers`, `services/media`) | counters | single steps | many requests at once | - | not modelled |
| Attachment storage and cleaner, privacy and retention (`Model/ChatAttachmentStorage.php`, `Model/Maintenance/*`, `Model/Privacy/*`) | conversation files, references | store, clean, erase | references read before deletion | a referenced file is kept | not modelled |
| Catalog, commerce and guidance tools; knowledge, analytics, quality, telemetry; administration; request checks; setup patches and scripts | single rows | queries, forms, migrations | none of the above | - | not modelled |

## The modules

MCAttachmentUpload, MCChatTurn, MCProviderTurn, MCServices and MCBrowser give the constants values.
MCServices and MCBrowser hold several parts that share no state: a behaviour is one of one part,
chosen in its initial state.

### AttachmentUpload, AttachmentLedger

A worker serves one request; `pc[w]` says between which two transactions it stands, `job` and
`amount` are the attachment and the bytes it holds in local variables. A transaction is one action.

| Action | Code |
|---|---|
| `Reserve`, `RecordIssued`, `RecordReservation` | `initiate`: `AttachmentQuotaCounter::reserve`, `recordIssued`, `recordReservation` |
| `Receive`, `ClaimForUpload`, `StageFile` / `StageFileFails`, `RecordStaged` | `Upload::execute`: body to a temporary file, `claimForUpload`, rename (or `releaseUploadClaim`), `recordStaged` |
| `TryMarkFinalizing`, `FindFile`, `MoveToFinal`, `CommitFinalAttachment` | `complete`: `tryMarkFinalizing`, `isFile` on both paths, `moveFile`, `commitFinalAttachmentAtomic` |
| `ReconcileBegin`, `ReconcileCommit`, `ReconcileAborts` | `AttachmentQuotaReconciler::execute`, read phase, commit, rollback |
| `Crash`, `Tick` | a worker dies; time passes for tickets, finalizing leases and reservations |

`AttachmentLedger` is the abstract promise: a grant is given, and then used in the very step that
makes its attachment durable, or returned, never both. The refinement maps `res` to the grant and
`state = "committed"` to durability. `Bytes(f, S)` is what the members of `S` take in sum.

What the model takes from the code and a reader may not expect:

- The received size is bounded by the image limit only, never by the declared size.
- `FoundIn` is the path the code commits: the staged one after its own move failed, for any reason.
- The owner scan counts conversation files only; the files of uploads do not match it, and the scan
  for the module's row counts none. `used_bytes` is therefore reset to 0 by the reconciler, and only
  "never overcounts" holds. Owners whose quota row is younger than the snapshot are left alone.
- The nested condition of `tryMarkFinalizing` is modelled as its comment and shape intend
  (issued or staged, or finalizing for longer than 30 s); how the database adapter expands a nested
  array is library code.
- The branch of the reconciler for a row with a recorded `final_path` cannot be reached: that column
  is written together with `committed` only. So cannot the commit's branch for a row committed before.
- The reaper's rows are read inside the transaction and its updates are conditional; both are taken
  at the commit, which is the same unless a transaction outlasts the 600 s grace.
- Lock waits are not modelled. The reconciler locks quota rows first and the commit locks them last;
  the deadlock MySQL resolves is `ReconcileAborts` or a failed commit.

### GatewayCapacity

`queue` and `sem` are the two sorted sets; scores are ages (`wait`, since `startedAt`) and
times to expiry (`lease`), counted by `Tick`. The three Lua scripts are the operators `Registered`,
`Acquired` and `Renewed`.

| Action | Code |
|---|---|
| `Arrive`, `Register`, `CheckWait`, `Poll`, `TryAcquire`, `Dequeue` | `acquireCapacity`, one action per Redis call and for the loop's test; `LeaveQueue` is its finally block |
| `Renew`, `Release`, `Cancel` | the heartbeat, the handler's finally block, the abort signal |
| `RegisterFails`, `AcquireFails`, `DequeueFails`, `RenewFails`, `ReleaseFails` | a call that fails, before or after Redis ran it |
| `Crash`, `KeyExpires`, `Tick` | the replica dies; `PEXPIRE` drops a dead key; time |

Assumptions, all in `OnTime` or in the constants: a heartbeat that is not refused renews before the
lease runs out (it beats three times per lease; an event loop stalled for a whole lease is outside
the model), a registration reaches Redis within `SendDelay`, replicas' clocks agree, all use one
concurrency and one lease per namespace, and reading `now` and running the acquire script is one
step. A dead entry at the head of the queue blocks every waiter until a later registration purges it
or the key expires; they time out, which is what `WaiterSettles` allows. The memory mode runs the
same steps in one process; it purges with `>` where the scripts purge with `<=`, a boundary of one
millisecond.

### ChatTurn

One socket and its turns. Every await of `handleChat` separates two actions.

| Action | Code |
|---|---|
| `Route`, `RateLimited`, `CreateActiveRun` | `server.js` message handler, rate limit, `createActiveRun` (which cancels the run before) |
| `Admitted`, `AdmissionThrows`, `Reject`, `SaveUserMessage`, `StartRun`, `Diverted` | admission, early returns, setup of the conversation, support takeover |
| `AwaitCapacity`, `CapacityGranted`, `CapacityRefused`, `HeartbeatFails` | `acquireCapacity` and the lease's heartbeat |
| `SendPart`, `StreamEnds`, `StreamThrows`, `PersistAnswer`, `TouchConversation`, `PersistInterrupted`, `Finish` | the wrapped socket, the orchestrator's end, the stores, the catch and finally blocks |
| `CancelChat`, `RevokeSession`, `ConnectionDrops`, `Cleanup` | stop button, logout, the network, close and error events |

Any error may look like an abort to the catch block (`isAbortError`), which then stores an interrupted
answer. The provider's stream is abstracted to parts and the way it ends; ProviderTurn says what happens in
it. The capacity call is granted or refused at any time; GatewayCapacity says when. A crash of the
process is not modelled here: it ends every turn of its sockets.

### ToolFlow, ProviderTurn

`ToolFlow` is the state of `createProviderNeutralToolFlow` as a record and its guards and tool calls
as functions on it; `ProviderTurn` is the loop of the three adapters around it.

| Definition | Code |
|---|---|
| `Forces`, `Refused`, `Reserved` | `shouldForce*`, `reconcile`, and the check at the start of `execute` |
| `AdmittedSearches`, `SearchGuarded`, `SearchGuardedLate`, `SearchRefusals`, `SearchSettled` | the guards of a product search in their order, and what its result changes |
| `CategoriesAdmitted` ... `OtherRun` | the other tools: guard, then result |
| `NeedResolved`, `AnchorResolved` | the two control calls |
| `CallsTools`, `CallRefused`, `CallOverBudget`, `RunsTool`, `BatchEnds` | one round of tool calls, in the order of each adapter |
| `Recovers` | another request after prose that may not go out (an owed call, an empty answer, a wrong language), each kind a bounded number of times |
| `SendsAnswer`, `SendsNothing`, `ProviderFails`, `Cancelled` | the ends of a turn |

The model's arguments and Magento's answers are arbitrary within what the guards look at: a query, a
category, a price direction, a reference to earlier results. Languages, prices and texts are one bit
each where a guard asks for them. Which category names Magento has given matters only as whether there
is one (`known`): the page's signed context, a category list or a search in a category gives it. An
answer with products is taken to bring the HTML of their cards, without which an adapter shows none
(`product-presentation.js:10`). `SampleAssumption` says what the validated sample of searches must
contain; the proofs hold for every such set.

### WebSocketAdmission

| Action | Code |
|---|---|
| `Connect`, `ConfigUnavailable`, `ClaimTicket`, `TicketRefused`, `InstallLease`, `Serve` | the connection handler of `server.js`, one action per await |
| `AdmitLocally`, `CapRefuses`, `BackOut` | the counters of the replica |
| `AcquireGlobal`, `AcquireNetwork` and their failures, `RenewLease`, `RenewLeaseFails`, `LeasesAge` | the two scoped semaphores, renewal, expiry |
| `SocketCloses`, `Revoke`, `StopGateway`, `ReplicaDies` | the network, logout, shutdown, a crash |

`Attach` puts a close listener on a socket only while that is open: on one that has closed already
the listener is never called. That is the finding of `services_closed_socket`.

### GuestHistoryStore, GuestSessionHistory

`GuestHistoryStore` is one conversation and operations that each take effect at once.
`GuestSessionHistory` is the code: `Ask`, `TakeLock` or, after waiting too long, `GoUnlocked`,
`ReadStore`, `WriteStore`, `ReleaseLock`, with calls that fail, locks that run out under their holder
and replicas that die. `AtomicWhileLocked` is the refinement; the store's promise ends with the first
write by somebody who had no lock (any more), which the code allows by design.

### GuestVerification

Magento's row per e-mail and session under the lock of the e-mail (`WithLock`, `CreateChallenge`,
`CheckCode`, `CountAttempt`, `GrantAccess`, and the failures of a send), and the gateway's calls
around it (`RequestOtp`, `VerifyOtp`, `AnswerLost`, `RememberGuestOrderAccess`,
`HydrateGuestOrderAccess`), with the request that waits for a verification
(`RememberPendingVerificationAction`, `AdmitResumption`, `ResumePendingAction`,
`ClearPendingVerificationAction`). `OutcomeNotWritten` is an attempt that was compared and whose outcome
could not be written, at most `MaxLost` times per code: the lock is given back, the row is as it was and
the attempt is not counted, so the bound on comparisons allows for it. Time enters as what it allows: a code or an access may have
expired, a send may be refused, whenever it is looked at.

### BrowserCart

`RequestCartChange`, `TimesOut`, `Aborted`, `Resolve` and `SocketLost` are `request`, its timer and
abort listener, `resolve` and `rejectAll` of the gateway's bridge; `MutateBrowserCart`,
`StoreChangesCart`, `StoreRefuses`, `BrowserAnswers` and `Reconnects` are the browser, which answers on
the socket it has by then.

### SupportDesk

One case and its ticket. Agents `Claim`, `ReleaseCase`, `ReplyToCase` and edit or delete (`Mutates`)
under the lock of the row; `HeartbeatReadsClock` / `Heartbeat`, `MassStatusReads` / `MassStatusSaves`,
`CloseByConversationId` and the shopper's turn (`ShopperTurnReads`, `ShopperMessageStored`,
`ShopperTurnReadsAgain`, `AssistantAnswers`, `ShopperTurnEnds`) do not take it, or read before they
wait for it. Notifications, unread counters and e-mails are left out.

### ChatWidget

One tab. The transcript is a sequence of messages, each described by the conversation it was loaded
from and by the turns whose text was streamed into it; the answer is found by its index, as in the
code. What is shown need not be one conversation's: a snapshot of another tab may carry one
conversation's messages and another's id, and both a replacement for an unavailable conversation and a
saved voice turn set the active id under the pages that are shown. The history variable `relabelled`
records these, until the shopper opens a conversation, starts anew or a failed resend is reloaded;
`LoadedPagesInOwnConversation` speaks of everything before.

| Action | Code |
|---|---|
| `SendMessage`, `ResendMessage`, `ContinueStoppedResponse`, `StopCurrentResponse`, `VerificationResumes` | the functions of `stream.js` of those names (edit and regenerate are `ResendMessage`) |
| `SendSteps` | `sendMessagePayload` after its awaits: uploads, the socket, a payload too large |
| `Frames` | the cases of `handleStreamMessage`, with `shouldIgnoreStreamMessage` as their guard |
| `WatchdogFires`, `SocketDrops`, `SocketOpens` | `armResponseWatchdog`, `handleActiveRequestDisconnect`, `connectWebSocket` |
| `SwitchConversation`, `RefreshPassively`, `StartNewChat`, `LoadOlderMessages`, `RefreshSupportConversation`, `ConversationMessages`, `StaleMessages`, `CrossTabSnapshot` | `history.js`, `requests.js`, `connection.js` |
| `ConversationCreated` (one of `Frames`), `VoiceWords`, `VoiceTurnSaved` | the id of a new conversation; what is said in a call is shown, and its save names the conversation (LiveVoice has the call) |

### AnswerTranscript

The gateway's fold (`Record`, from `recordOutboundAssistantPart`) and the browser's (`Show`, from
`handleStreamMessage`) run side by side over the frames that `StartCall`, `FinishCall`, `WriteProse`,
`FinishTurn`, `FailTurn` and `CancelTurn` send; `Deliver` and `StopResponse` are the browser's side.
`StoragePayload` is what `buildAssistantStoragePayload` saves, of a timeline its first `StoredRows` rows
without repeated ids; `Reloaded` is what `normalizeStoredAssistantMessage` and `normalizeLoadedMessage`
make of the stored row.

### ModelHistory

`BuildModelHistory` (the browser's count), `TrimHistoryForModel`, `LatestMemory` and
`FitHistoryToBudget` (the gateway's) are the four cuts; `SendQuestion`, `Resend`, `ContinueLastAnswer`,
`RetryStoppedResponse`, `SeedLiveVoice` build a history, `AnswerEnds`, `AnswerStops`, `ReloadMessages`,
`ConversationGoes` change what is shown and stored. A text is its size, a grid is "small", "huge" or
none. MessageLists holds what it shares with UserImages and AnswerTranscript: JavaScript's `slice`, a
row's places kept by a condition (`filter`), and lists put one after the other (`flat`, `join`).

### LiveVoice

`DialCall` ... `ChannelCloses` are the states of the call, `UserTranscript`, `AssistantText` and
`ResponseDone` the provider's events, `Resolve`, `SaveUserText`, `SaveAssistantText`, `ReportSaved` and
`SaveFails` the storage on the gateway, `ReceiveSaved` and `ReceiveSaveError` its answers. A text is the
number of its pieces.

### UserImages

`SelectImages`, `ImagesRead` and `RemoveImageAttachment` are the composer; `SendComposed`,
`PrepareReference`, `UploadAttachment`, `SendInline`, `UploadAttachmentFails`, `PartsReady`,
`PartsTooLarge`, `SocketConnected`, `SocketUnavailable` are `sendMessagePayload` with
`prepareOutgoingUserParts`; `GatewayRefuses` and `TakeQuestion` the gateway; `ReusePictures`,
`PicturesReused`, `PicturesUnavailable`, `StopSending`, `ReloadTranscript` what the shopper does to a
message later.

### AdminConsole

`OpenCase`, `SelectTicket`, `TicketClicked`, `Poll`, `SubmitReply`, `DeleteMessage` and
`MutationAnnounced` start requests; `ReadTranscript` is Magento's answer to one as it is computed, and
`MessagesLoaded` / `NotLoaded` its arrival, in any order; `OthersWrite` is everybody else.

### AddressForms

| Action | Code |
|---|---|
| `StartAnswer`, `IssueForm`, `Activate`, `AnswerDone`, `AnswerDropped` | a tool's result brings a form; the key of the newest form is written without being awaited; the page adds the form when the answer is complete |
| `CopyPage`, `ReloadPage`, `TabLosesSocket`, `FormExpires`, `Submit` | snapshots between tabs, a reload, the socket, the timer, `submitOrderAddressForm` |
| `CheckForm`, `Admit`, `AdmissionFails` | `createAddressUpdateAdmission`: token and newest form, then limits and the shopper's lock |
| `Land`, `CallReturns`, `CallFails`, `ReleaseLock`, `LockLapses`, `GatewayStops` | the shop's change, which may land after the gateway gave the call up; the release that may fail |
| `ReceiveResult` | the frame with the result, applied to the last message's part of that form |

The page that adds several forms at once is written without a fold (`Added`): each form that is added
expires all others, so only the last one stays open.

## Runs

| Run | Module, cfg | Shows | Distinct states |
|---|---|---|---|
| attachment_quota | MCAttachmentUpload, AttachmentQuota | `TypeOK`, `ReservedCoversActive`, `UsedNeverOvercounts`, `UploadClaimExclusive` | 1,948,050 |
| attachment_life | MCAttachmentUpload, AttachmentLife | refinement of the ledger, `StagedBytesImmutable`, `ReservationSettles` | 39,080 |
| attachment_within_limits | MCAttachmentUpload, AttachmentWithinLimits | violated: usage passes the limit | |
| attachment_committed_file_served | MCAttachmentUpload, AttachmentCommittedFileIsServed | violated: a committed path without a file | |
| attachment_release_returns_quota | MCAttachmentUpload, AttachmentReleaseReturnsQuota | violated: released, still reserved | |
| chat_turn | MCChatTurn, ChatTurn | `TypeOK`, `OneLiveRun`, `CancelToldOnce`, `CancelSilences`, `CancelledNeverComplete`, `CancelledTurnEnds` | 345,372 |
| chat_lost_turn_marked | MCChatTurn, ChatLostTurnIsMarked | violated: a lost turn without a marker | |
| provider_turn | MCProviderTurn, ProviderTurn | `PricesComparedInScope`, `AnswerShowsFlowsCards`, `IdentityKeepsItsCard`, `OwedReadIsMade` | 921,092 |
| services | MCServices, Services | admission, guest history, desk, verification, cart, capacity: types and twelve properties | 495,422 |
| services_closed_socket | MCServices, ServicesClosedSocket | violated: leases renewed for a socket that has closed | |
| browser | MCBrowser, Browser | widget, console, answers, history, voice, pictures, address forms: types and nine properties | 1,005,023 |
| continuation_sees_answer | MCBrowser, ContinuationSeesAnswer | violated: Continue is sent without the answer it continues | |

The violated properties are statements of the repository's own docs and comments; `findings` in
`PROJECT.json` quotes them and tells what each counterexample does. No run is checked for deadlock
where a system may really stop: a socket closed with all its turns ended, a turn that has its answer,
a part of MCServices or MCBrowser whose bounded inputs are used up. The attachment runs are.

### Bounds, and why they are enough

Uploads: two attachments of one owner suffice for one upload to take, or be given, the bytes of
another, and two workers for every race on one attachment; an image of up to 2 bytes under a limit of
2 makes declared and received sizes differ and fills the quota with one file. Two owners share nothing
but the module's row, on which the two attachments of one owner meet as well. The life run keeps all
four timeouts distinct and in the code's order; in the larger run `FinalizeLease` and `ReaperGrace`
are 0, and a lease of 0 still excludes a second finalizer until time has passed.

Capacity: three requests give a holder, a head and one behind it; one lease is the hardest
concurrency, and the queue of two fills while a third is alive. Request 1 may be cancelled, request 2
may fail or crash, request 3 comes last. Ages stop counting (`AgeCap`, `SinceCap`, `WaitCap`) where no
guard tells them apart. Chat: two turns give a run and its successor, one part tells a silent stream
from one that spoke.

Provider turn: one turn of each adapter with as many requests as it takes for every recovery to be
used up, and a sample of searches that holds one of every kind the guards tell apart.

Admission: two connections of one address under a network limit of one, on one replica or on two (the
first on `r1`); a replica without connections does not stop. History: three writers that start in one
order, and a behaviour ends with the first write without a lock, after which the store promises
nothing. Desk: one ticket, two agents; agent `a` sends heartbeats, agent `b` updates in bulk, and
heartbeat, bulk update and shopper's turn do not overlap with each other (they overlap with
everything else). Verification: one e-mail, two overlapping messages of one connection, two attempts,
two codes, of which the first may have one outcome that is not written. Cart: two changes, two sockets.

Widget: two conversations, two turns, one page on its way; only the last turn replaces a branch, and
older pages come only before it begins. Other tabs and saved voice turns are heard, and what is shown
gets another conversation's id, before the first turn or while it runs and with no older page loaded;
what is said in a call comes into an empty transcript. Console: two cases of which one gets more than one message, three
messages, a page of two, two overlapping requests, two reloads; the second message may be deleted. Transcript: two operations in three calls, and two rows
stored, so that a timeline of three is cut; the first call is the one that draws pictures or asks for
access, the second the only one announced at its end. History: texts of two
sizes, a long text only in plain answers; the conversation goes, or is continued, at the start or with
two questions and answers. Voice: two calls and two spoken turns; a guest speaks one turn, a customer
two. Pictures: two are chosen first, then one; two messages; the network fails while the first is
prepared. Address forms: answers arrive in tab 1 and tab 2 copies it; a second form only for the
account; only the first submission may fail. The restrictions on combinations stand in MCServices and
MCBrowser, each with the reason next to it; they leave every action and disjunct enabled.

### Fairness

Attachments: time passes, the cron starts the reconciler every 15 minutes (`crontab.xml`) and it gets
through again and again (strong fairness: a single run may be aborted); workers may stop anywhere.
Capacity: Redis answers, time passes, heartbeats beat and runs end. Chat: database calls return;
provider and queue are obliged only once the run's signal is aborted, so `CancelledTurnEnds` does not
lean on a provider that answers. Widget: the awaited steps of a send return, and the turn settles by a
final frame or by the watchdog, whose timer runs when nothing more comes; nothing is assumed of the
shopper, of pages or of the socket.

## Proofs

| Theorem | Argument |
|---|---|
| `AttachmentUploadProofs!TypeCorrect` | `TypeInv`: a busy worker serves an attachment |
| `ClaimIsExclusive` | `ClaimInv`: an initiate in progress is alone on its fresh id, no ticket exists before the row, and no transition but the claimer's own leaves `uploading`; without the first two a late `RecordIssued` would reset a claimed row |
| `UploadImplementsLedger` | step by step: only the commit, under its guard, moves `res` to committed, together with the row; only the reconciler returns, and only active reservations. `ClaimInv` excludes a reissue of a committed row |
| `BytesStayAsStaged` | `FileInv`, beside `ClaimInv`: an unused ticket, and a claim that has not staged yet, has no file |
| `ReservedCorrect` | `CoverInv`: the counters cover the active grants and the amounts of initiates in progress; sums are cardinalities of sets of bytes, so that the theorems on finite sets say what a grant added, moved or reaped does to them. `ClaimInv` keeps two initiates from one attachment |
| `UsedCorrect` | `UsedInv`: a committed row has the size of its file and is never changed, and a file that a finalizer has found is neither lost nor replaced before its commit, so the commit charges what it records |
| `ServiceProofs!TypeCorrect` | directly |
| `RequestsExitClean` | `TokenInv`: which steps of a request may have a token in which set |
| `LiveRunsHoldLeases`, `ConcurrencyHolds` | `SemInv`: the semaphore's set never outgrows the concurrency, and every live run is in it with time left; the live runs are then a subset of it |
| `QueueStaysBounded`, `PlacesAreKept` | the register script purges first and counts after, and an entry it purges is older than the newcomer by `QueueWait`, so its own wait is over |
| `ChatTurnProofs!TypeCorrect` | directly |
| `AtMostOneLiveRun` | inductive as it stands, given types: registering cancels the run before, and clearing spares a successor |
| `ShopperIsToldOnce`, `CancellationSilences` | `ToldInv`: a told turn is cancelled or past its stream, which `SendPart` refuses |
| `LeaseIsGivenBack` | `SlotInv`: a lease is held only inside the guarded part of the handler |
| `CancelledIsNeverComplete` | `NoEarlyFinal`, and `Interrupted`: a turn cancelled while streaming only goes on to be interrupted, finished and ended |
| `ServiceProofs!AdmissionTypeCorrect` | directly |
| `OpenSocketsCorrect` | `LeaseInv`: as long as its socket is open, a handler past an acquisition holds that lease with time left (renewals are in time, releases follow the close), and the sets of lease holders are within their limits because acquiring tests the room; served sockets are a subset of the holders |
| `CartTypeCorrect`, `ReportedChangesCorrect` | `SuccessIsReal`: every answer on its way, and every settlement, that reports a success is about a change the store made |
| `HistoryTypeCorrect` | with `HistoryInvariant` |
| `HistoryImplementsStore` | `ReadsApplicable`, `InTimeHolds` (a writer in time is the holder of the lock), `SnapshotCurrent` (what the holder has read is what is stored): a write by the holder is then the atomic operation, every other step a stutter |
| `VerificationTypeCorrect`, `CodesBounded` | a call past `WithLock` is the only holder of its e-mail's lock, so the row it judged is the row it counts on, with attempts left; a comparison is in the row's count or in `lost` |
| `ResumedCorrect` | counting: a request is remembered before it waits, and taken from its place before it goes on |
| `ClosedCaseCorrect`, `ClosedReadOnlyCorrect` | closing ends the takeover in the same update, and every step that answers, claims or edits tests the row under its lock; a stale bulk update writes the status together with the takeover it ends. `AnswerHasRoom` ties an agent's answer to a case that is open |
| `ServicesTypeCorrect` | a behaviour of MCServices is one of each service (`ServicesParts`), so their type theorems hold in it |
| `ProviderTurnProofs!TurnTypeCorrect` | one lemma per step; a recovery is only taken while its allowance is not used up |
| `PricesCorrect`, `IdentityCorrect` | `PricesKept` and `IdentityKept` speak of the flow and of every outcome still open. A lemma `CallKeeps(f, g)` per tool says what any call keeps: a scope once opened, an identity once resolved and its card, an owed read or its being made; `LooseNeedsScope` says that the guards let a text's whole-store lowest search through only after categories were given |
| `AnswerCorrect` | `CopyKept`: the adapter's copy of the cards is the flow's, for the two adapters that replace it at every call |
| `OwedReadCorrect` | from the same lemmas, step by step |
| `BrowserProofs!WidgetTypeCorrect` | `WidgetShape`, `WidgetFlags` and `WidgetMarks`, one for each kind of state |
| `BrowserProofs!OwnConversationCorrect`, `StoppedAnswerCorrect` | `WidgetShape` (an index that streams points at an assistant message, pages on their way name their conversation) and `StepAccounted`: every message of the new transcript comes from an old one, a page of this conversation or the live turn. Where the active id changes without the transcript (`Renamed`), `relabelled` is set unless nothing was active or the id is the same |
| `VoiceTypeCorrect`, `VoiceCorrect` | `VoiceInv`: rows are stored by the save of their turn alone, the question before the answer (`RowsInv`), and a turn has a save as soon as it is marked, which every way out of it does or leaves to the next (`TurnsInv`) |
| `AddressTypeCorrect`, `UpdatesCorrect` | `AddressInv`: at most one submission holds the shopper's lock, it is the one admitted last, and it holds the lock while its call is under way, so what lands in time lands behind everything that landed before; what lands later was given up. A page says of a form only that it was updated by a change that landed (`PartsSound`), and a submission succeeds only if its change landed |
| `ConsoleTypeCorrect`, `MessagesCorrect` | `ConsoleInv`: the list, and what an answer under way will add to it, have no gap below the newest message known; a reload's answer is followed by what was asked meanwhile only if `mixed` says so |
| `BrowserTypeCorrect` | a behaviour of MCBrowser is one of each part (`BrowsersParts`), so their type theorems hold in it |
| `MessageProofs!ModelHistoryTypesHold`, `QuestionsHaveTheirContext` | `HistoryInv`: what the running question was sent with is what the screen gives (`TrimHistoryForModel` of `BuildModelHistory` of what is shown), stopped messages are answers, and an answer is only expected when there is a question, or an answer to go on with. The rest is about the operators: `ToldBeforeOf` (filter and map commute, `FilterOfMap`), `FitOf` (what `fitHistoryToBudget` returns is the end of the history, not empty, within the budget), `MemoryOf` and `LastMember` (the memory is the last ledger, and the last grid is the last member of a filter) |
| `ImagesTypeCorrect`, `PicturesCorrect` | `ImagesInv`: every part and attachment names its own picture's file or none (`OwnPart`), and a message on the screen or in the store shows the pictures of the message that was sent (`ScreenMessage`, `StoredMessage`). A step moves sent messages only forward and only adds files (`SendingMoves`, `Grows`), so what was so of them stays so. |
| `TranscriptProofs!TranscriptInvHolds` | `TranscriptInv`, below |
| `AnswersReloadAsShown`, `TranscriptTypesHold` | from `TranscriptInv`: what is stored are the recorded parts without repeated ids (`DistinctAlready`: there are none), and the record and the screen that saw the end are in `Sync`, so the lists of one are those of the other; of a stopped screen, it was in step with an earlier record, and no frame takes anything away from a record |

`TranscriptInv` compares two folds that run at different times: `recordOutboundAssistantPart` over
everything sent, `handleStreamMessage` over what arrived. Three predicates carry it.

- `Sync(parts, s, late)`: how a record and a screen that got the same frames compare. Prose, pictures,
  cards and forms are equal, with cards and forms still held back on the screen; the timelines have the
  same end of every operation, no id twice, and the row the next frame of an operation would go on with
  exists on the screen too. Unless an action was announced late, they are equal row by row.
- `Fits(parts, f, late)`: which frames the gateway may send after such a record. An action whose id is
  known goes on with the last row; while the last row runs, only its operation goes on; a picture has a
  new number; cards come once. What the gateway holds back and executes is described just so far
  (`GatewayInStep`) that every frame it sends fits. This is where `completePendingActivity` matters: a
  completion is released before another operation starts, never after.
- `Chain(A, fs, B, late)`: the frames still on their way lead from the record the screen is in step with
  to the record of now, each one fitting when its turn comes.

`FrameStep` is the heart: a frame that fits keeps `Sync`, shown by the kinds of frames and, for an
action, by whether it goes on with a row, follows one or starts one, on either side. `Deliver` takes the
first frame of the chain; a sending action starts a chain at a record that is in step, for `wire` is
empty then. At the end `Finished` is what remains of `Sync`, and a screen that was stopped is in step
with an earlier record (`Begun`). `StoredRows` is any positive number, so the theorem covers timelines
that are cut as well as those that are not.

They rest on the assumptions the modules name: `AttachmentAssumption` (among others
`FinalizeLease < StaleLease < TicketTTL`), `CapacityAssumption` (finitely many requests, a positive
wait and a lease of at least two units), `ChatAssumption`, `AdmissionAssumption`, `SampleAssumption`
and the other modules' assumptions that their bounds are numbers. Strengthened invariants were
model-checked on the instances of the runs before they were proved; of `TranscriptInv` all but `Chain`,
which quantifies over records and was checked by what it says of a `wire` that is delivered.

The library's induction theorems take an operator as a parameter, which no installed prover can
instantiate. ListProofs, on which MessageProofs and TranscriptProofs rest, does without: the lemmas
`Iterates` (every step from a set to itself can be iterated, so the recursive function exists), `UpTo`
and `StaysIn` (induction for a set of numbers) and `Largest` are proved once from the well-foundedness
of the order on numbers, by a smallest counterexample. That is why `slice`, `filter` and sums are
recursive functions (MessageLists) where a proof speaks of them.

Only model-checked are the liveness properties `ReservationSettles`, `WaiterSettles`, `LeaseEnds`, `CancelledTurnEnds` and
`LoadingTurnEnds`: fairness and ENABLED are out of the prover's reach. Every invariant and every other
property of the runs is stated by a theorem.

## Observed behaviour

What the code does, found while modelling it, and stated as no property because nothing in the
repository says otherwise, or because the models leave it out.

Uploads
- `complete` sent before `upload` wedges the upload until it is recovered as failed; a crash after the
  claim leaves `uploading` until reaped; the loser of two completes gets an error.
- The cleaner of conversation files reads the references once and deletes a batch after: a message
  saved in between loses its file.

Chat turn, capacity, runtime
- A run is created also on a socket that has closed meanwhile, and its answer is dropped; parts dropped
  on a closing socket may be missing from an answer stored as complete; the reason of an interruption
  is replaced by a later one; when the answer is stored, touching the conversation fails and the run
  was cancelled, a second assistant message is stored; an exception of the image admission leaves the
  run registered.
- The heartbeat of a capacity lease ignores the answer that its token is gone.
- Two configuration pushes at once: each reads the shared snapshot, adds itself and writes it back, and
  one is lost; a push without a tenant drops all tenants. The single-flight cache lets an older value
  overwrite a newer one when a loader outlives its lock or a waiter gives up. The circuit breaker lets
  every waiting request through after the cooldown. A request that one of several image limits refuses
  has used up the others.

Tools and orchestrators
- A refused follow-up search clears `anchoredProductRefreshRequired`, and a refinement refused late
  clears `catalogQueryRefinementRequired`; a follow-up on a result set never clears the former, so the
  search that is forced stays refused.
- A forced availability read that the budget or a duplicate refuses is asked for until the turn ends
  with an empty response; so are a forced `listCategories` while a refinement is owed, and a forced
  scoped search once an identity was resolved in an open scope.
- OpenAI's and Gemini's prose goes out while the resolution of an anchor is pending. Anthropic's own
  copy of the cards differs from the flow's after a discovery.
- Empty-query lowest searches and follow-ups on a result set are exempt from the price scope.

Guests, verification, cart
- A guest's history may lose a message after a write without the lock; truncation and appending use the
  session's id where creation and reading use the guest's identity.
- A code attempt whose outcome is not written (the update of `GuestOrderVerification.php:176` fails, or
  the process dies before it) is not counted, and the code may be compared once more.
- A failed e-mail deletes the row of a challenge together with its count of sends; a refused access in a
  stale tab resets the session's fresh one.
- An abort signal that has fired before a cart request is not noticed; a change reported as timed out
  may still be made, and a retry adds the product twice.

Address forms
- A stopped turn leaves an active form unshown, so the older one on the screen is refused as
  superseded. `busy` is not reset after the socket is lost or a frame refused for its rate until a
  snapshot, a reload or the expiry; a snapshot reopens a form that was successful or busy.
- A late result reopens an expired form, whose submission is then refused. A form that is superseded
  between its check and the lock may overwrite the newer form's update; an update whose call timed out
  may land later. An admission that throws gives no result. Snapshots lose line counts and required
  flags of fields; a reload from the server shows no forms.

Support desk and console
- After a release the shopper is told "The customer can use AI again" (`Release.php:24`) while the
  assistant stays silent until the case is closed. A turn that read the case open stores its message
  after the close; while the state cannot be read the assistant answers in a ticket. An identical reply
  within 30 s of a deleted one is reported as sent and not visible. A reply by another agent takes the
  case and keeps the old lease; a stale heartbeat can shorten a lease.
- In the console the composer is addressed to the case loaded before until the new one is loaded, and
  the draft of a failed reply returns into whatever case is shown.
- A request that a reload overtakes clears the polling flag when it ends (`support-modal.js:570`), so
  polls can be asked while the reload is under way. One brings a message, the next asks after it, and
  then the reload's answer arrives, which was read before that message was written: it empties the list,
  the second poll's answer joins it, and the message between is not asked for again until the next
  reload. The history variable `mixed` of AdminConsole marks these behaviours, and `NoMessageIsSkipped`
  excludes them; three messages in a case are the least that show it. So can a reload of a conversation
  longer than one page of 100 messages lose messages to a poll asked during it.

Widget, answers, history
- A tab may publish its messages under another conversation's id: `scheduleCrossTabConversationSync`
  (`connection.js:480-489`) takes the id when it is called and the messages when its timer fires, and the
  support frames (`connection.js:315` and `321`) call it with the frame's conversation, active or not.
  The other tab shows them under that id.
- When the requested conversation is not available the gateway announces a new one
  (`message-handlers.js:249-267`, `327-345`), and the widget takes its id while the old pages stay shown
  (`stream.js:1000-1003`). A voice turn's save does the same (`live-voice.js:378`): a shopper who has
  switched since is taken back to the call's conversation without its messages.
- A page appended while an answer streams shifts its index; a send suspended on an upload goes on after
  a stop or a switch, into the conversation active then; a page that answers during a turn clears
  `isLoading`, so a second send is possible; a lost answer to `load_conversation` leaves it set until
  Stop.
- An action announced only at its end does not end the row before it on the screen. Cards and forms in
  an answer that fails or is stopped are stored and not shown; failed pictures are only on the screen.
- Continue shows the model everything but the answer it continues (the finding of
  `continuation_sees_answer`), and continues the last answer, whichever is chosen; a live call is seeded
  without the last answer by the same cut. A catalogue ledger longer than its memory is cut in the
  middle and resolves nothing. A guest's restored transcript shows internal placeholders as prose.

Live voice
- What is said in a response before it calls a tool is saved at its end, what follows is shown and never
  stored. The assistant's words that precede the shopper's transcript go to the turn before. Two unsaved
  turns may open two conversations. A turn is claimed before it is saved, so a save that fails cannot be
  repeated, and its halves are saved one by one. Ending while the microphone is awaited still leads to
  "connected".

Pictures
- A failed upload loses the draft though the text asks to send it again; pictures chosen while a message
  is sent are replaced when that comes back. After a stop during an upload the numbers of the files go to
  whatever message is last, and a later resend of that message stores them with it (`misnumbered` in
  UserImages marks these behaviours). A message that mixes references and data stores the references only.

## Not modelled, and why

- Configuration synchronisation, circuit breaker, image guards: each function is one uninterrupted step;
  what is hard about them is said above and has no statement in the code to check.
- Attachment storage, the cleaner, privacy and retention: batches over directories and dates that nothing
  waits for.
- Rate limits (one atomic script each) and the single-flight cache of the runtime.
- Catalog, commerce and guidance tools, knowledge, analytics, quality and telemetry, administration,
  request checks, setup patches and scripts: sequential, without a protocol of their own.
- Of the modelled parts: rendering, wording, formats, images' bytes, e-mails, unread counters and the
  notifications of the support desk; the widget's second socket during a reconnect; address rows as the
  shop writes them; the composition of ChatTurn with GatewayCapacity, which meet only in a lease that
  is granted or refused.
