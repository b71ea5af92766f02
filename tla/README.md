# A verification project for Keppin CNG

`windowscng` keeps machine-scoped ECDSA P-256 keys in the Microsoft Software
Key Storage Provider (KSP). Its promises are about one thing: who may use a
key, from the moment it exists until it is removed, whatever fails on the way
and whoever else works on it. This directory holds TLA+ models of the code that
makes those promises, TLC configurations that check them on small instances,
and proofs, checked by TLAPS, of those that hold for every instance.

Paths below are relative to the repository; `src/windowscng/` is the package.

## The system

| Part | Code | State it keeps | Operations |
|---|---|---|---|
| policy engine | `policy_windows.go`, `policy.go` | handles of the call (`nativeKey`), result of the privilege check | `OpenWithPolicy`, `LoadOrCreateWithPolicy`, `ApplyPolicy`, and the `ForService` forms of each |
| original API | `cng_windows.go` | handles of the call | `Open`, `LoadOrCreate`, `Delete` |
| native key operations | `cng_windows.go`, `policy_windows.go` | ownership of provider and key handles | create, configure, finalize, clean up, make a signer, close |
| key storage provider | external (`ncrypt.dll`) | the persisted key of each name: its DACL, export policy and algorithm | `NCryptOpenKey`, `NCryptCreatePersistedKey`, `NCryptFinalizeKey`, `NCryptSetProperty`, `NCryptGetProperty`, `NCryptDeleteKey` |
| descriptor classifier | `sd.go` | none; a loop over the ACEs | `classifyDescriptorSID` |
| structural DACL walk | `cng_windows.go` | none | `verifyDACL` |
| descriptor parser | `sd.go` | none; offsets into the buffer | `parseSelfRelativeDACL`, `parseSID` |
| service SIDs | `policy.go`, `sd.go` | none | `ServiceSID`, `NewServicePolicy`, `validate`, `isServiceSID` |
| signer | `cng_windows.go`, `signer.go` | provider and key handle, public key | `Sign`, `Public`, `Close` |
| privilege check | `policy_windows.go` | none of its own; the token of the thread it runs on | `callerPrivileged` |
| native buffer reads | `cng_windows.go`, `dll_windows.go` | buffer and reported size, inside a call | `getSecurityDescriptor`, `exportPublicKey`, `systemDirectory`, `moduleFileName` |
| library binding | `dll_windows.go` | `sync.Once` and its error, module handles | `loadNativeAPIs`, `find`, `Call`, `loadSystemDLL`, `verifyModule` |
| examples | `examples/` | the signer they acquired | three programs: open, sign and verify, a disposable key |
| other platforms | `cng_other.go` | none | stubs that return an error |

Calls on keys run in different processes and share nothing but the KSP: there
is no lock, no lease and no transaction around an operation. Within one
operation every native call is an atomic interaction with the KSP, and
everything other processes do to the key may fall between two of them.
Goroutines of one process share signers, whose handle fields no lock protects,
the bound libraries, and the threads whose tokens Windows looks at. The
behaviours that are hard are therefore:

- *interleavings*: two calls create the same name; a policy change overwrites
  another; a rollback deletes a key that has meanwhile been touched by others;
  `Close` runs while another goroutine is between the two native calls of
  `Sign`; two goroutines bind the same library; a goroutine changes threads
  between its privilege check and the calls it guards;
- *failures*: each native call can fail, `NCryptFinalizeKey` may fail although
  the key was persisted, the deletion in a rollback may fail too, and the
  process may die between any two steps;
- *what the KSP says*: "not found" also means "not granted", a handle may show
  a descriptor that is not what was persisted, the persisted DACL is not the
  one that was asked for bit by bit, and a descriptor whose size was asked for
  may be another one when it is read;
- *untrusted structure*: the persisted descriptor is a buffer whose offsets,
  sizes and counts may say anything, and numbers and lengths change their form
  at boundaries (the sign bit and the length in DER, decimal text of 32 bits);
- *hand-written ownership*: each error path frees handles, SIDs and modules
  itself, `NCryptDeleteKey` consumes the handle only when it succeeds, and the
  value of a freed handle may be given out again.

What makes each part correct: the *custody* of a key (who may use it never
widens, no key is lost to someone else's failure, what an operation reports is
what was persisted); for the *descriptor* parts, that they read inside the
buffer and accept exactly the provisioned forms in whatever order; for the
*signer*, that a native call only ever gets the signer's own handles; for the
*binding*, that all goroutines are told the same and no native call panics; for
the *reads* and *conversions*, that a value arrives whole and unchanged.

The file `PROJECT.json` lists these hazards at their lines, with the properties
that cover each.

## The modules

| Module | Models | Remarks |
|---|---|---|
| `SecurityDescriptor` | `sd.go` (classifier), `verifyDACL`, `transitionAllowed`, the SDDL constants, and (external) what a DACL grants a token | constant operators only; masks are sets of rights |
| `NativeKey` | the persisted key, the state of the calls, and the steps both APIs share: `createPersistedKey`, `cleanupCreatedKey`, `newCNGSigner`, `Close`, a crash | also the KSP, as the code uses it |
| `PolicyEngine` | `openSpec`, `loadOrCreateSpec`, `applySpec`, `signerWithPolicy`, `checkKeyPolicy`, `checkDACLState` | extends `NativeKey` |
| `LegacyApi` | `openKey`, `loadOrCreateKey`, `deleteKey`, `validatePersistedKey` | extends `NativeKey` |
| `KeyCustody` | the package: both APIs on one key; the properties | extends `PolicyEngine` and `LegacyApi` |
| `KeyLifecycle` | abstract specification of one key: provisioned, tightened, removed | implemented by `KeyCustody` |
| `DescriptorParser` | `parseSelfRelativeDACL` and `parseSID`, check by check | hands its ACEs to the classifier |
| `ClassifierLoop` | the loop of `classifyDescriptorSID`, one step per ACE | decides what `SecurityDescriptor!Classify` says |
| `DaclWalk` | `verifyDACL` as it runs: native calls, allocated SIDs, deferred frees, early returns | decides what `SecurityDescriptor!VerifyDACL` says |
| `PersistedDescriptor` | the three above side by side | what the package does with a persisted descriptor |
| `SignerLifecycle` | `cngSigner`: `Sign` and `Close` on several goroutines, handle values given out again | |
| `ExampleClients` | the programs under `examples/` | extends `SignerLifecycle` |
| `ThreadTokens` | `callerPrivileged` and the native calls it guards, on goroutines that change threads and impersonate | |
| `DllBinding` | `dll_windows.go`: the `sync.Once` of each procedure and library, loading, verifying, releasing | |
| `OneAnswer` | abstract specification of binding: decided once, told to all | implemented by `DllBinding` |
| `NativeReads` | the three ways in which the package reads a value of unknown size | |
| `SignatureEncoding` | `p1363ToASN1`, `marshalECDSASig`, `parseECCPublicBlob` | operators, against a strict DER reader and the blob's definition |
| `ServiceSid` | `ServiceSID`, `NewServicePolicy`, `validate`, the rendering in `parseSID`, `isServiceSID` | from a name to the SDDL, to the binary SID and back |
| `Numerals` | numbers and their digits to a base | recursive functions, for the two above |
| `Border` | `NativeReads`, `SignatureEncoding` and `ServiceSid` side by side | what is converted at the border to Windows |
| `MCKeyCustody`, `MCDescriptors`, `MCSigners`, `MCBorder`, `MCGoroutines` | the instances for TLC | |
| `KeyCustodyProofs`, `PersistedDescriptorProofs`, `SignerLifecycleProofs`, `ThreadTokensProofs`, `DllBindingProofs`, `BorderProofs` | the theorems about the module each is named after and those it extends | |
| `CoordinationProofs` | the theorems about `KeyCustody` that need something of callers, provider or accounts | extends `KeyCustodyProofs` |
| `DescriptorProofs` | lemmas about descriptors only | used by two of the others |

### How state and actions correspond to the code

#### The custody of a key

`store` is the persisted key of one name, or `NoKey`: its maker (the call that
created it, so that a key that was deleted and made again is told from the
first), its descriptor and its profile ("strong" is a non-exportable P-256 key,
"exportable" one whose export policy `verifyExportPolicy` refuses, "foreign" one
whose public key `exportPublicKey` refuses). One name is enough: no operation of
the package touches two.

For a call `c`, `pc[c]` is the point of the operation it has reached, `req[c]`
the operation, the policy and the caller's token, `privileged[c]` what
`callerPrivileged` answered, `told[c]` what its first open of the key through the
policy API answered, `view[c]` the key its handle refers to as that
handle saw it, `live[c]` the native handles it holds, `signer[c]` those its
`Signer` owns, `result[c]` what it returned. `misuse` collects calls that freed
a handle they did not hold or overwrote one they did; it is an observation, no
action reads it.

Each action is one native interaction together with the Go code around it up to
the next one:

- `BeginPolicy`, `BeginLegacy`: an entry point is called; the policy engine
  validates the policy. `CheckPrivilege`: `callerPrivileged`, an error of which
  counts as "no".
- `StoreOpen`, `LegacyOpen`: provider and key are opened. They differ in what a
  failure leads to: `LoadOrCreateWithPolicy` creates only when a privileged
  caller was told "not found", `LoadOrCreate` whatever the failure of
  `NCryptOpenKey` was. A provider that does not open, or a name that does not
  convert, ends either.
- `CheckExisting`, `LegacyCheck`: validation of an existing key; a failure
  frees the handles and leaves the key alone.
- `CreateUnfinalized`, `ConfigureKey`, `FinalizeKey`: `createPersistedKey`. Before
  `FinalizeKey` the key exists in `view[c]` only. `VerifyCreated` and
  `LegacyVerifyCreated` validate the new key, `CleanupCreatedKey` deletes it.
- `Examine`, `WriteDescriptor`, `ReadBack`, `Reopen`, `Recheck`: `applySpec`. The
  read that the decision is based on and the write are two steps, as they are
  in the code.
- `MakeSigner`, `CloseSigner`, `DeleteKey`: the other ends of an operation.
  `CleanupCreatedKey` and `DeleteKey` follow `deleteCNGKeyHandle`: a deletion that
  succeeds takes the key handle out of `live[c]` (Windows), one that fails leaves
  it, and what the code then frees is `FreesAfterDelete`; freeing what is no longer
  held is `misuse`.
- `Crash`: the process dies, and Windows closes its handles.

Validation of a key (`CheckKeyPolicy`) is one step: the export policy and the
algorithm of a key do not change, so only the moment at which the descriptor is
read matters.

Descriptors are records: `intact` stands for the whole of the byte-level
validation, the ACEs are a sequence with type, flags, mask and trustee. A mask
is the set of the rights the code tells apart. A policy is the pair of the DACL
state and the service SID that `policySpec` carries; the zero `Policy` and a
`ServicePolicy` not made by `NewServicePolicy` are `InvalidPolicy`.

#### Descriptors

`DescriptorParser` has the buffer's headers as one record of untrusted fields
and picks the fields of each ACE when they are read; no byte of the DACL is
part of two fields, so this is the buffer read lazily. `off` is the variable of
the same name in `parseSelfRelativeDACL`, `aces` what has been appended, and
`reach` how far the function has read. `ReadHeader`, `ReadAcl`, `ReadAce`,
`RejectSid` and `TakeAce` are the stretches between two of its checks;
`OffsetAccepted` keeps the width of the addition.

`ClassifierLoop` has the loop variables of `classifyDescriptorSID`, `DaclWalk`
the control of `verifyDACL`: `GetDacl`, `CountAces`, `ConvertSid` (nine times),
`WalkAce` and `EndWalk` are its native calls and its loop, and `Return` runs
what was deferred (`FreeSid`), last first. Each of them may end in the error of
its native call.

#### Signers and their clients

`field[s]` are the two handle fields of a signer, `owner[h]` is what Windows
takes a handle for. The fields are shared without a lock, so an action is one
access to them together with the native call that follows. `Sign` checks the
field (`BeginSign`), asks for the size (`QuerySignature`) and signs
(`SignDigest`); each call reads the field again or uses the value it has read
before, which the Go memory model leaves to the compiler. `Close` is `FreeKey`,
`ClearKey`, `FreeProvider`, `ClearProvider`. A freed value is given out again
by the next `MakeSigner`. `register`, `late`, `closed` and `stale` observe.
`excluded` is what the callers of a behaviour keep to: nothing, or what is
documented.

`ExampleClients` gives each goroutine one of the programs, as the sequence of
its steps; a step that fails goes to the deferred `Close`, and the program that
removes its key closes the signer before and again at its end.

#### Threads and tokens

`thread[g]` is the thread of a goroutine (`Park`, `Resume` are the scheduler),
`token[t]` the token of a thread, `locked` are the goroutines that called
`runtime.LockOSThread`. `StartCheck`, `CheckTokenMembership` and
`NotPrivileged` are `callerPrivileged` with its two SIDs and its rule that an
error is a no; `NativeCall` stands for the calls of the operation, whose number
is bounded.

#### Library binding

`procOnce`, `procModule`, `procErr` are `systemProc`, `dllOnce`, `dllModule`,
`dllErr` are `systemDLL`, `held` counts the references that
`LoadLibraryExW` gave and `FreeLibrary` has not taken back. `FindFirst` and
`LoadFirst` enter a `sync.Once`; a caller that finds one running has no step
until it is done. `LoadLibrary` may give the file of the system directory or
one that was mapped before, `VerifyModule` compares its path or fails to read
it, `Resolve` is `FindProc`. After `loadNativeAPIs` a caller makes native
calls, and `FoundForCall` is where `Call` would panic.

#### What crosses the border

In `NativeReads`, `QuerySize` and the read after it are the two calls of
`getSecurityDescriptor`, `exportPublicKey` and `Sign`; the readers of paths
repeat one call with a larger buffer. `ReplaceValue` is another process that
writes the descriptor in between. `SignatureEncoding` applies a conversion to
each input; the lengths and tags are bytes of a base `Byte`, so that a small
base reaches the long form of a length. In `ServiceSid` a text is the sequence
of the parts after `S-1-5-80-` and a part the sequence of its digits:
`NewServicePolicy`, `Provision`, `Persist` (external: Windows reads the SDDL),
`ReadSid` and `Compare` are the way of one policy from its name to the
comparison in `checkDACLState`.

Definitions marked as mutants are not part of a model. Each is a variant of the
definition that follows it with a plausible mistake (a check that is skipped, a
handle that stays behind) and shows that a property would notice it.

### Assumptions about Windows

The KSP is external and modelled from how the code uses it:

- a handle refers to the key it was opened on, not to its name; a call on a
  handle whose key is gone may fail or answer with what the handle saw;
- creating or finalizing a key whose name is taken fails (the code never sets
  `NCRYPT_OVERWRITE_KEY_FLAG`); a key that is not finalized is not persisted;
- `NCryptFinalizeKey` that reports success has persisted the key, and reading the
  descriptor from its handle afterwards shows the persisted form; after a
  write to a finalized key the handle may also show what was written;
- opening needs a right to read, deleting one to control the key; a caller that
  is not granted the key is told "not found" or gets another error;
- `Forms` says which descriptors the KSP may persist for a requested one.

Elsewhere:

- `GetSecurityDescriptorDacl` and `GetAclInformation` refuse a malformed descriptor:
  `verifyDACL` passes the buffer on (`cng_windows.go:293-301`) without checking its
  bounds, as only the parser of the policy API does. `DaclWalk` takes this as given;
  for a Windows that did not, it shows nothing;
- the native size queries for a signature and a public key report a size other
  than zero, and neither value changes between the two calls;
- `NCryptFreeObject` on a value that is not a handle frees nothing, and a native
  call on one fails; a signature is made by the key the handle refers to;
- `LoadLibraryExW` gives the library of the name or a module mapped earlier,
  and `kernel32.dll` is in the system directory;
- SHA-1 gives different service names different SIDs, on the names in use, and
  the points of P-256 are a set;
- a goroutine that impersonates locks its thread before it does and reverts
  before it unlocks it, as the Go runtime requires; the package itself never
  impersonates. For a goroutine that impersonates without locking its thread
  `CheckedTokenIsUsed` is false, in the code as in a model of it;
- accesses to the fields of a signer are sequentially consistent.

Owner rights, the SACL and privileges are outside the DACL and outside the
model, as they are outside the package's own claims.

## The runs

| Run | Instance | What it shows |
|---|---|---|
| `coordinated` | 2 calls, every request, 6 existing keys or none, faults and crashes, KSP forms exact or canonical, changes never overlap | `TightenOnly`: no step gives any token a use it did not have; `SignerKeepsPolicy`; `ImplementsLifecycle` |
| `uncoordinated` | 2 calls, every request, faults and crashes, a KSP that may add a trustee, anything may overlap, weak fairness | `CoreInv` (types and control), `HandleDiscipline`, `NeverDefaultDacl`, `KeysSurviveFailedCalls`, `MutationNeedsPrivilege`, `CallsReturn` |
| `unfaithful_provider` | 3 calls, the requests of administrators and the service, a KSP that may add a trustee, faults | `ConfirmedOnReturn`: success means the wanted state was persisted; `OrphanReported`: failure leaves no unverified key unreported |
| `provisioning` | 3 calls, every request, no faults | `ProvisioningSucceeds` |
| `descriptors` | buffers at and next to every bound, all DACLs of 0 to 4 ACEs from 13 (classifier) and 9 (walk), all header defects, any native call failing | `ReadsInBounds`, `VerdictIsExact`; `VerdictIsClassify`, `ExactGrants`, `StricterThanOpen`; `WalkDecides`, `SidsAreFreed`; `DescriptorsOK` |
| `signers` | 2 signers, 2 goroutines of 3 operations, 4 handle values, callers that keep to nothing or to what is documented, and every pair of example programs | `HandlesAreLive`, `SignsWithOwnKey`, `ClosedStaysClosed`, `EndsReleased`, `SignerTypeOK` |
| `goroutines` | binding: 3 goroutines, 2 libraries, 3 procedures, weak fairness; privilege checks: 3 goroutines, 4 threads, 3 tokens, 2 native calls | `AllToldTheSame` (the refinement of `OneAnswer`), `NoCallPanics`, `BoundToSystem`, `CallersReturn`, `BindingTypeOK`; `CheckedTokenIsUsed`, `TokenTypeOK` |
| `border` | reads of 13 lengths, signatures and blobs around a width of 2 small bytes, names of up to 2 characters and every short text, weak fairness of the reader | `ReturnsOneValue`, `StaysInBuffer`, `ReadEnds`; `SignaturesAreStrictDer`, `KeysAreRead`; `OpensForItsServiceOnly`, `RecognizesServiceSids`; `BorderOK` |
| `racing_apply` | 2 `ApplyPolicy` calls, no faults | violates `TightenOnly` (below) |
| `migrate_other_account` | 1 `ApplyServicePolicy` call, a service that is not LOCAL SERVICE | violates `TightenOnly` (below) |
| `apply_to_service_key` | 1 `ApplyPolicy` call on a key in each of the three states | violates `ApplyAsDocumented` (below) |
| `trailing_bytes` | the ACL of a privileged-only key, larger than its ACEs | violates `RecognizedIsExact` (below) |

`PersistedDescriptor` and `Border`, which `MCDescriptors` and `MCBorder`
instantiate, `MCSigners` and `MCGoroutines` hold several components side by side:
a variable (`subject`, `clients`, `shared`) says which of them a behaviour is about, and the others
stand still. `DescriptorsOK` and `BorderOK` are the type invariants of these components with the facts the other properties
rest on: that the parsed ACEs tile the ACL, what the classifier's loop knows of
the ACEs it has passed, that a module path is given up only for its length.

Calls, goroutines and readers finish and are not restarted, so all of them may
have ended: deadlock is not checked, `CallsReturn`, `CallersReturn` and
`ReadEnds` are. Calls, goroutines, signers, handles and threads are symmetric
and are symmetry sets in the runs without liveness.

**Bounds.** Each element of `Calls` runs one operation and then at most a
`Close`. A hazard of this code needs one call that is between two steps and one
that interferes, or an operation that runs over what an earlier one left: two
calls cover both, three cover create, interfere, observe. Two service SIDs are
the least with which "another service" exists. The existing keys are one for
each DACL state and one for each reason to refuse a key: an extra trustee, an
export policy, an algorithm. Four ACEs are one more than any accepted DACL has.
`Operations = 3` lets a goroutine sign, close and come back; two signers are
the least with which a recycled handle can be someone else's. `GuardedCalls`
and `NativeCalls` bound what an operation does after its check and after binding:
every call is subject to the same condition. Of the bound libraries one has two procedures,
so that the second finds the library's `Once` done. `Changes = 2` lets the
descriptor change before and after the size is asked for. The lengths are those
next to 260, its double, 32768 and the largest buffer reached from 260. Offsets
have 8 bits (`OffsetRange`), so that sums wrap within reach. Four-bit bytes and
coordinates of two bytes put DER lengths on both sides of the short form's
limit; numbers below 8 to the base 3 leave two-digit texts that are too large.
`HandlesAreLive` and `SignsWithOwnKey` are about callers that keep to what is
documented; the run also contains those that do not, for which
`ClosedStaysClosed` still holds and nothing is said about a `Sign` that a `Close`
overtakes. The long form of a length in DER is reached with the small bytes only:
signatures of P-256 keep to the short one.

**Tokens.** `TightenOnly` and `SignerKeepsPolicy` compare what a set of tokens
may do: an elevated administrator, SYSTEM, LOCAL SERVICE, two services that run
as LOCAL SERVICE with their SID enabled, an interactive user and a domain
account. The run `migrate_other_account` adds a service that runs as another account.

**Coordination.** `Exclusive` is the set of operations that callers never run
at the same time. The package asks its callers to coordinate provisioning and
deletion (`docs/README.md:148`). `TightenOnly`, `SignerKeepsPolicy`,
`ConfirmedOnReturn`, `OrphanReported`, `ProvisioningSucceeds` and the lifecycle
need policy changes to be coordinated as well; opening keys never has to be.
What is checked with `NothingExclusive` needs no coordination at all.

The documentation also asks that `Close` is not run at once with `Sign` on one
signer (`docs/README.md:147`); `Documented` adds that it is not run at once with
itself, which is left open there and which the unlocked fields need.

**Fairness.** `FairSpec` has weak fairness for the steps inside a call
(`CallStep(c)`): a goroutine that has entered an operation keeps running and
native calls return. It assumes nothing about calls being made, `Close`, or
crashes. No operation waits for another, so weak fairness is enough.
`FairBindSpec` assumes the same of a goroutine inside `loadNativeAPIs` and the
native calls after it, not that it enters; here callers do wait, for the
goroutine inside a `sync.Once`, which is enabled whenever one is. Readers of
paths have weak fairness of `ReadStep`, the next native call.

### Where the documentation says something else

1. `docs/README.md:45-46`: policy changes "never widen access". `applySpec` reads
   the DACL, decides, and then replaces whatever DACL is there by then
   (`policy_windows.go:372-391`). In `racing_apply` one call decides to migrate a
   service-signer key to a service, another makes the key privileged-only, and
   the write of the first gives the service access again. Nothing in the
   documentation asks callers to serialize `ApplyPolicy`.
2. `docs/README.md:43-46`: changes go "only toward less access". In
   `migrate_other_account` a service-signer key is migrated to a service that does
   not run as LOCAL SERVICE. It could not open the key before; it can after.
   `transitionAllowed` cannot know the account, and its own comment calls the
   transition a replacement rather than a narrowing.
3. `sd.go:16-18`: a descriptor is recognized "only if its DACL is byte-for-byte
   one of the forms this package provisions". The loop of
   `parseSelfRelativeDACL` ends after as many ACEs as the ACL counts (`sd.go:158`)
   and does not compare where it stopped with the size of the ACL: in
   `trailing_bytes` an ACL is recognized that has bytes after its last ACE. What
   the DACL grants is not affected.
4. `policy_windows.go:53-61`, the comment of `ApplyPolicy`: it writes only to make a
   service-signer key privileged-only, and any other state "returns
   ErrPolicyMismatch without modifying the key". In `apply_to_service_key` it
   rewrites the DACL of a service-sid key: `transitionAllowed`
   (`policy_windows.go:184-185`) makes such a key privileged-only as well, and a test
   (`policy_service_windows_test.go:286-296`) expects it to. Access narrows all
   the same; the comment was left behind when `ServicePolicy` came.

## The proofs

All theorems hold for every value of the constants that satisfies the named
assumptions of the module: `ServiceSidsAssumption` (service SIDs are none of the
well-known ones), `KeyAssumption` (requests are requests, forms are descriptors,
`NoKey` is not a key), `AbsentAssumption` (nor is it an abstract one),
`TokensAssumption`, and for the other modules that inputs have the types they are
said to have and that the values standing for "none" are none of the others.
`TokenAssumption` adds that there are as many threads as goroutines, which the
proofs do not use. Three assumptions are about the data: `EncodingAssumption` that
a signature needs at most one length byte (70 bytes at most, of 256),
`CurveAssumption` that a coordinate fits the width it is read with, and
`ServiceSidAssumption` that upper case forgets the case and nothing else, that the
largest sub-authority has at most `MaxDigits` digits (`MaxDigitsSuffice`), and that
SHA-1 gives different digests for the names of different services. No assumption is about coordination of processes, faithful
forms or the absence of faults: where a theorem needs one, it is a hypothesis of
that theorem (`CoordinationProofs`).

`KeyCustodyProofs`:

| Theorem | States | Argument |
|---|---|---|
| `CoreCorrect` | `Spec => []CoreInv` | `CoreInv == TypeOK /\ ControlOK` is inductive. Typing alone is not: the DACL that is written is typed only because the policy of a call that gets so far is a valid one, and a new key only because the call holds a view of its own. `TypeCorrect` and `ControlCorrect` are its two halves |
| `HandlesCorrect` | `Spec => []HandleDiscipline` | inductive together with `CoreInv`: the handles a call holds are a function of where it is |
| `KeysSurvive` | `Spec => KeysSurviveFailedCalls` | the three actions that change `store`, under `CoreInv`: from creation on a call's view is its own key, so what a rollback deletes was made by the call that fails |
| `MutationsPrivileged` | `Spec => MutationNeedsPrivilege` | the same three and `DeleteKey`, by what `ControlOK` says of the requests that reach them and of what the open before a creation answered |
| `NeverDefault` | `Spec => []NeverDefaultDacl` | `ControlOK` fixes the view of a call about to finalize |

One lemma per action shows that `CoreInv` is preserved; the frame lemmas
(`StepIsOnlyCall`, `ControlFrame`) say once that a step of one call leaves what
is said about the others alone, so each action's proof is about its own call.

`CoordinationProofs`, of the same module, has what holds only if others play
their part. What that part is, `KeyCustody` says in four definitions, and
`MCKeyCustody!HypothesesHold` has TLC check that the instances meet those they are
meant to: `Coordinated` (provisioning, deletion and policy changes come one at a
time), `FaithfulProvider` (a requested descriptor is persisted in a form that is
recognized as the same policy), `ServicesAreLocal` (services run as LOCAL SERVICE),
`ProvisionersMayOpen` (an existing key does not lock out the privileged callers
that provision). The runs `racing_apply` and `migrate_other_account` show
`TightenOnly` violated without the first and without the third, and in
`unfaithful_provider`, where the second does not hold, only the properties are
checked that do without it.

| Theorem | States | Under |
|---|---|---|
| `KeysKnownCorrect` | `Spec => []KeysKnown` | nothing: who made a key and how strong it is does not change, and no key is ahead of its maker |
| `Confirmed` | `Spec => ConfirmedOnReturn` | `Coordinated` |
| `Orphans` | `Spec => OrphanReported` | `Coordinated` |
| `Tightens` | `Spec => TightenOnly` | `Coordinated`, `FaithfulProvider`, `ServicesAreLocal` |
| `Implements` | `Spec => ImplementsLifecycle` | `Coordinated`, `FaithfulProvider`, `ServicesAreLocal` |
| `SignersKeepPolicy` | `Spec => []SignerKeepsPolicy` | `Coordinated`, `FaithfulProvider`, `ServicesAreLocal` |
| `Provisions` | `Spec => []ProvisioningSucceeds` | `Coordinated`, `FaithfulProvider`, `ProvisionersMayOpen`, no faults |

The argument has three layers. `KeyMoves` says what any step does to the
persisted key and to the view of its call: it opens the key, prepares one of its
own, persists it, replaces its descriptor, removes it or leaves both alone. From it
`KeysKnown`, which needs no coordination. `CoordinatedInv` adds that at most one
call is changing the key, that its view is what is persisted, and that what it has
checked is still so: what was examined is still there when it is replaced, which
the code takes for granted between reading the descriptor and writing it. The rest is about descriptors: `StepsTighten` needs that
each transition of `transitionAllowed` narrows what every token may do, for which
the lemmas of `DescriptorProofs` compute what a recognized DACL grants. For
`Implements`, the same moves map to `Provision`, `Tighten`, `Remove` or a stutter.
What may tighten to what is `Tightenings`, the pairs of policies of which the first
grants no token a use that the second does not; it is computed from what Windows makes
of the descriptors and does not mention `transitionAllowed`, so the refinement
(`TransitionsTighten`) is a statement about that function.
`SignersKeepPolicy` adds that a key never grants more than it did when a call that
may get a signer looked at it, so that a check that was right then stays right;
`Provisions` adds what a provisioning call knows at each of its labels.

`PersistedDescriptorProofs`, the classifier: `LoopDecides` states that the loop, on a descriptor of
any length, decides what `Classify` says, that is: the policy whose trustees the
DACL grants, each once, explicitly and with an allow-listed mask. The invariant
is `LoopTypeOK /\ LoopInvariant /\ VerdictIsClassify` (`LoopTypes`,
`LoopKnowsItsPast` are its first two parts): the ACEs passed so far are
recognized and distinct and `seen` is the set of their trustees. The last step
turns the switch on the number of ACEs into a statement about sets (`TwoAces`,
`ThreeAces`: with distinct trustees the number of ACEs is the number of
trustees), and `TrusteesInjective` says that the set of trustees names the policy.
From the same invariant, `RecognizedGrantsExactly` (`ExactGrants`) and
`SignerAcceptedByOpen` (`StricterThanOpen`) follow by what `Classify` says of a
descriptor: `GrantsOfPolicy` computes what any recognized DACL grants from its
policy alone, and `RequestedClassified` that the requested one is recognized.
These lemmas, in `DescriptorProofs`, are about descriptors only.

The parser: `ParserStaysInBounds` (no read leaves the buffer or the
ACL), `ParsedAcesTile`, `ParserDecides` (well-formed buffers are accepted and
only they) and `ParserTypes`, for buffers of any size and content. The
invariant `ParserInv` adds to the properties where the parser is: the ACEs tile
the ACL up to `off`, so `off` is at least 8 + 16 for each of them, and while an
ACE is read its end is inside the ACL.

The walk: `WalkIsVerifyDACL` (`WalkDecides`) and `SidsFreed`
(`SidsAreFreed`), for a DACL of any length. `WalkInv` says that the masks of the
ACEs passed fit, that `found` has exactly the required trustees among them, each
from one ACE, and that the deferred calls are the allocated SIDs, last first.
The order of the ACEs, which the walk follows, drops out at `EndWalk`.
`DescriptorsCorrect` (`DescriptorsOK`) puts the three together.

`SignerLifecycleProofs`, for any number of signers, goroutines and handles, in two
layers. `CloseInv` needs nothing of the callers: a handle Windows holds for a
signer is the one in its field, and what a `Close` has freed or cleared stays so,
even while other goroutines close the same signer. From it `CloseIsFinal`
(`ClosedStaysClosed`). `UseInv` adds, for callers that keep to what is documented,
that only `Sign`s share a signer, that a field which is not cleared holds the
signer's live handle or its `Close` is about to clear it, and that the value
`Sign` has checked is still in the field. From it `NoStaleHandle` and
`OwnKeySigns`. `ProgramsRelease` (`EndsReleased`) is about the example programs,
whichever step of them fails; `ProgramsAreClients` says that they are among the
callers the theorems above are about.

`ThreadTokensProofs`: `CheckedTokens` (`CheckedTokenIsUsed`), for any number of
goroutines, threads and clients. `TokenInv` says that a thread no locked goroutine
is on has the token of the process; so an operation between its check and its end
is either locked to a thread whose token stays, or can only be moved to threads
that have the token it was checked with.

`DllBindingProofs`: `SystemOnly` (`BoundToSystem`), `CallsDoNotPanic`
(`NoCallPanics`), `BindingTypes` and the refinement `Idempotent` (`AllToldTheSame`),
for any number of goroutines, libraries and procedures. `BindInv` is inductive:
at most one goroutine is inside a `sync.Once`, which is then running (`ProcsOnce`,
`DllsOnce`); a library or procedure is bound exactly when its `Once` is done without
an error, and to the module in the system directory (`Outcomes`); a module is held
once, by its library or by the goroutine that verifies it, or not at all
(`Handles`); and a walk has passed only procedures that are bound (`Walk`). The
refinement maps the first failure of the walk, or its end, to the decision; all
goroutines walk in the same order, so all meet the same one.

`BorderProofs`, the reads: `OneValueIsReturned`, `ReadersStayInBuffer`,
`OnlyLongPathsFail` and `ReadTypes`, for all lengths, limits and numbers of
replacements. `ReadInv` relates buffer and reported size to the value: to the one
Windows holds for readers whose value does not change, to the one that was read
for the descriptor.

The conversions, where each run takes one step and everything is in what that step
computes:

| Theorem | States | For |
|---|---|---|
| `StrictDer` | `EncodingSpec => []SignaturesAreStrictDer` | coordinates of any width whose signatures need at most one length byte |
| `ReadsKeys` | `EncodingSpec => []KeysAreRead` | coordinates of any width, blobs of any length |
| `OpensForOneService` | `SidSpec => []OpensForItsServiceOnly` | any names, any base and limit of the numbers |
| `Recognizes` | `SidSpec => []RecognizesServiceSids` | any texts of digits, any base and limit |

They need what the recursive functions of `Numerals` compute for every input, which
is proved in four layers:

1. *Induction.* `StrongInduction` and `Induction` are about a set: if it has a
   number whenever it has the smaller ones, it has all. They follow from a
   non-empty set of numbers having a least one (`WFMin`,
   `NatLessThanWellFounded`), and take no operator as a parameter, which the
   provers could not instantiate.
2. *Recursion.* TLA+ defines a recursive function as some function that satisfies
   its equation. `Recursion` shows that there is one, if each value depends on
   values of a lower rank only; `NumeralDef`, `NumberDef` and `LastDigitsDef` apply
   it, by rank number, length and count.
3. *Numerals.* `NumeralIsWritten`: a number is written in digits without a leading
   zero that stand for the number. `CanonicalIsNumeral`: nothing else that has no
   leading zero stands for it. `LastDigitsOfNumber` and `LeadingZeros` are the
   facts about texts of a fixed width. They rest on `Composition`: quotient and
   remainder put a number together in one way.
4. *Texts.* For a SID, `Rendered`, `OnlyRendered` and `RenderInjective` carry this
   over to its parts; `SidInv` says what the text and the persisted numbers are
   at each phase. For a signature, `TrimmedNumber` and `IntegerContent` say that the
   content of an INTEGER is minimal, not negative and the number, `ReadInteger` that
   a reader finds it wherever it was put, and `SignatureForm` that the header gives
   the length of both.

`EncodingTypes` and `SidTypes` are the type invariants, and `BorderCorrect`
(`BorderOK`) puts the three together.

Model-checked only are `CallsReturn`, `CallersReturn` and `ReadEnds`: liveness under
fairness, outside what the proof system covers here.

## Not modelled

- `cng_other.go`: stubs that return an error and keep no state; and the tests;
- SHA-1 and the arithmetic of the curve, which are external: a digest is a
  function without collisions on the names used, the curve a set of points;
- the characters of names, SDDL and SID texts beyond what the code tells apart
  (supported or not, case, digits and the parts they form), error texts, logging
  and what the examples print;
- calls on the KSP and the process's own signers in one model: `NativeKey` has
  the ownership of handles inside an operation, `SignerLifecycle` what happens
  to them afterwards; they meet where a signer is made;
- the descriptor parser, the classifier and the walk inside the operations on a
  key: there a descriptor is read and judged in one step, which is what the
  theorems about the three say they do. The reads of a value of unknown size are
  one step there, too, by `OneValueIsReturned`, which may fail.

## Plan

Done, in this order because the custody of the key is what the package is for:
the custody modules and the proofs of everything that needs no coordination;
`ClassifierLoop`; then the parts around it that keep state or judge untrusted
input (`DescriptorParser`, `DaclWalk`, `SignerLifecycle`, `ExampleClients`,
`ThreadTokens`, `DllBinding`, `NativeReads`), the conversions
(`SignatureEncoding`, `ServiceSid`), and the proofs of all that are about steps;
then the theorems about coordinated calls, the refinement of the abstract key, and
those about the binding, the example programs and the conversions.

Every safety and action property the runs check is now stated by a theorem. What is left
is to bring the models closer together: the signers that operations return and their
use in one model (see above).

## Running it

Parse with `tlasany M.tla`; check and prove with

```text
tlc -workers 2 -config Coordinated.cfg MCKeyCustody.tla
tlc -workers 2 -config Descriptors.cfg MCDescriptors.tla
tlc -workers 2 -config Signers.cfg MCSigners.tla
tlc -workers 2 -config Border.cfg MCBorder.tla
tlc -workers 2 -config Goroutines.cfg MCGoroutines.tla
tlapm KeyCustodyProofs.tla
```

`Uncoordinated`, `UnfaithfulProvider`, `Provisioning`, `RacingApply` and
`MigrateOtherAccount` are further configurations of `MCKeyCustody`,
`TrailingBytes` one of `MCDescriptors`; the other proof modules are checked like
the first. The runs and the proof modules take from seconds to about two minutes
each.
