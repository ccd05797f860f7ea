# docxplus in TLA+

Specifications of [docxplus](../src/README.md), a Python library and command line that carries
sealed, signed payloads inside valid `.docx` and `.odt` documents. The modules here model what of it
has state, order, failure or adversaries; TLC checks them on small instances and TLAPS proves the
results that matter most for every value of the constants. Everything is translated from
`src/src/docxplus/` and `src/scripts/`; `PROJECT.json` maps each definition to its lines.

## 1. The system

The layering is that of `src/docs/architecture.md`.

| Component | State | Operations | Hard about it | Correct when |
|---|---|---|---|---|
| OPC package (`opc.py`) | parts, content types, relationship edges | `add_part`, `set_part`, `add_relationship`, read/write | numbering of parts and ids in a package that earlier builds or a read-back left things in | ids are unique per source part, a computed index is free |
| Channels (`channels/*.py`) | none of their own: they change the package | `embed`, `extract`, `capacity` | five ways to share one document; `stego_media` places several carriers and may fail between them | what was embedded is what is found, and nobody else's bytes are touched |
| Sealing (`container.py` `seal_module`/`_unseal`, `crypto.py`, `shamir.py`) | fresh salts, nonces, content keys | seal and open in five lineages | what a ciphertext is bound to; shares of another build; missing credentials | a module opens to its object under its credential in its slot, and otherwise not |
| Manifest (`manifest.py`, `provenance.py`) | records, surface digest, signature, co-signatures | `add`, `sign`, `add_cosignature`, verification, (de)serialisation | what exactly a signature binds, one verdict per co-signer | a signature speaks for records, root and surface together |
| Builder (`container.py` `DocxplusBuilder`) | `_pending`, signer, `_cosigners`, `base_package` | `add_*`, `sign`, `add_cosigner`, `build` | `build` mutates a caller's base package, may raise after any module, may be called again | every finished document opens and verifies |
| Reader (`container.py` `DocxplusReader`) | the package read | `extract`, `verify_provenance`, `verify_cosigners`, `verify_reproduction` | the document may have been edited, spliced, re-signed | it accepts under a pinned key only what that key's holder signed |
| Transparency log (`transparency.py`) | entries | `append`, `verify_chain`, signed heads, consistency proofs, JSON | chain and head of a rewritten log verify; boundary lengths of a proof | a head fixes one log; a proof is met only by an extension |
| Transparency commands (`cli.py`) | log file, head file, a monitor's proof file | `transparency-append`, `verify-transparency` | two commands at once, kills between truncation and write, readers between two writes | an accepted log was signed, accepted logs only grow, reported entries stay |
| Other commands, `secure_io.py`, `fileext.py` | documents, key, share and output files | `build`, `odt-build`, `extract --out`, `keygen` | shares are written after the document; a refusal, a failed write or a kill half-way; the mode of an overwritten file; two commands at once | what a command reports is on disk as reported, and no secret is destroyed, exposed or left torn |
| Reproduction runner (`reproduce.py`) | a process group, a directory, a snapshot of it | run a recipe with a timeout, digest what it wrote, attest or compare | the recipe forks, leaves its group, hangs or goes on writing; a former attempt is in the directory | a digest is of what the command computed as far as anyone can tell, a timeout leaves no group behind, every run ends |
| ODT profile (`odt.py`, `odt_container.py`) | an ODF package and its listing | as the container | `add_part` replaces silently, payloads are numbered from 1 in every build, the listing is written anew | as the container |
| Release supervisor (`scripts/validate_release.py`, `release_guest.py`) | two containers at the Docker daemon, the guest's stream, evidence files | provision, validate: create, inspect, start, read, clean up, judge | deadlines against late answers, clean-up after every failure, signals in the clean-up, a full disk | a verdict of success is given on a proven run only, and no container is left running |
| Release scripts (`zenodo_release.py`, `set_doi.py`) | records at Zenodo, four files that cite, the rendered PDF | reserve, set_doi, upload, publish | a script stopped between two files or inside one, a reply lost, a DOI mistyped | a published record has its files and a PDF that cites what `set_doi` was given, and the files agree |
| Payloads, LSB codec, intake, validation, manuscript, examples | none | pure conversions and scans | nothing TLC would add to | |

How they interact: a builder queues modules; `build` asks, module by module, sealing for the
stored bytes, a channel to place them in the package, and the manifest to record where; it then
takes the surface digest, signs, writes the manifest into the package and serialises. A reader
finds a module from its record alone, checks its digest and opens it. The log commands communicate
only through files. There are no threads in the library: what is concurrent are operating-system
processes (the commands, the recipe runner, the release guest), and what interleaves inside a
process is one build after another on one shared package.

The hazards this leaves, each at its line with the properties aimed at it, are in `PROJECT.json`.

## 2. The modules

| Module | Models | Uses |
|---|---|---|
| `OpcPackage` | the package as a value: parts, types, edges, first-free numbering | |
| `Channels` | embed and extract of the five OOXML channels | `OpcPackage` |
| `Sealing` | the lineages, shares, opening | `Channels` |
| `Manifest` | records, body, signatures, surface digest | `Channels` |
| `EditedManifests` | what others make of a manifest | `Manifest` |
| `DocxContainer` | builder, `build()` step by step, editors, reader; its properties | `Sealing`, `EditedManifests` |
| `OdtContainer` | the same of the ODF profile, with its package | `Sealing`, `EditedManifests` |
| `TransparencyLog` | the log, heads and proofs as operators | |
| `LogProcesses` | the two commands as processes over two files; its properties | `TransparencyLog` |
| `AppendOnlyLog` | abstract: what a published log promises | |
| `CommandOutputs` | the commands that write documents, keys, shares and extracts, as processes over the files | |
| `ReproductionRunner` | a recipe's run: verifier, looking file by file, processes of the recipe, directory | |
| `GuestStream` | the line protocol of the guest's archive, both ends | |
| `ReleaseSupervisor` | `validate`: supervisor, daemon, guest and the world around them | `GuestStream` |
| `ReleaseProvision` | `provision` and then `validate`, with registry and build context | `ReleaseSupervisor` |
| `DoiRelease` | the release scripts, their maintainer, Zenodo | |
| `MC...` | symmetry, views and small values for TLC | the above |
| `ContainerLemmas` | what the proofs of both containers share: sequences, numbering, opening, what a signature is worth | `Sealing`, `EditedManifests` |
| `LogProcessesProofs` | theorems on the log and its commands | `LogProcesses` |
| `DocxContainerProofs` | theorems on the OOXML container | `DocxContainer`, `ContainerLemmas` |
| `OdtContainerProofs` | theorems on the ODF profile | `OdtContainer`, `ContainerLemmas` |
| `CommandOutputsProofs` | theorems on what commands leave and report | `CommandOutputs` |
| `ReproductionRunnerProofs` | theorems on a recipe's run | `ReproductionRunner` |
| `ReleaseProofs` | theorems on `provision` and `validate` | `ReleaseProvision` |
| `DoiReleaseProofs` | theorems on the release scripts | `DoiRelease` |

### The document container

State and code: `pending`, `signer`, `cosigners` are the builder's attributes; `shared` says
whether it was given a `base_package`, which is then `pkg` for good, as `build` mutates it in place.
Without one `pkg` is the package of the build under way, and a fresh `NewBaseDocument` otherwise.
`step`, `records` and `carriers` are the locals of `build` and of `stego_media`'s `embed`; `doc` is
the document a reader holds; `built` is history.

* `AddModule`, `Sign`, `AddCosigner`, `UseBase` are the builder's calls. `add_project` with
  reproduction is an `AddModule` whose module is `attested`, and one that is not when its recipe
  raised after the module was queued.
* `BeginBuild`, `PlacePackagePart`, ..., `FinishBuild` are the loop of `build`. One iteration is one
  step; `stego_media` takes one step per carrier (`PlaceCarrier`, then `PlaceStegoMedia`). `Raise`,
  `SealingFails`, `StegoMediaFails` are the ways it stops. Shares are handed out by `seal_module`
  before the module is placed, so a failing channel leaves them behind, as in the code.
* `SerialiseBase` is the caller writing out a base package itself, after a failed build too.
* `Edit` is the environment: anyone who can write the file, with a signing key of their own and no
  author's. It drops, swaps, overwrites, retypes and repoints parts and edges, moves records between
  slots, strips, promotes and copies signatures, puts back manifests of other builds, recomputes
  the surface digest, and folds a part into the data of another (`FoldPart`).
* `Extract`, `VerifyProvenance`, `VerifyCosigner`, `VerifiedAttestation` are the reader's methods.

Abstractions. Cryptography is ideal: an envelope opens under the key and slot it was made with; a
digest is the value it is taken of; a signature is the pair of its key and its body. A number `n`
stands for what is drawn at random in one build. Part names are pairs of directory and index. The
surface digest is not: `_compute_surface_digest` joins names, data, types and edges with zero bytes and
without lengths, so a part whose data goes on with the entries of other parts hashes like those
parts. `SurfaceDigest` is therefore the set of entries the stream is read as (`PartEntries`,
`Entries`), with the entries a part's data may hold after its own (`ThenOf`). Order and multiplicity of the
entries are left out, which makes the model's digest tell fewer surfaces apart, and the editor
stronger, than the code's. XML,
base64, the LSB codec and ZIP framing give back what was put in, so a serialised package is the
package; the content type of a part is named after what it types. Relationship ids stay in the
model (the drawings use them) and stay out of the surface digest, as in the code.

### The ODT profile

The variables are those of the OOXML container, and so are the calls, the signature and the ways a
build stops. The package differs: it has parts and the media types they are listed with and no
graph of edges. `file` is the document as written, parts and listing, and `FromBytes` and `ToBytes`
stand between it and a package: `Listing` is written anew, with a type for every part, and the types
of a package read are those of its listing only.

* `NextPayload` numbers payload parts from 1 in every build, whatever the base package holds, and
  `AddFile` replaces; `NextFigure` numbers pictures on.
* `UseBase` takes a new package, or any document read back, the edited and the incompletely listed
  included. `Edit` is anyone, and any other office program.

A failed build on a shared base may have replaced payloads that the manifest still in it lists: that
document says so, as its digests do not match. `PlacedUndisturbed` therefore speaks of what the build
under way placed, and of the pictures a base package has, as far as an editor has not taken them away
before. `SignedBuildVerifies` says exactly when a signed build verifies for
its own reader: the digest is of the types a package declares, the reader's of those the written listing declares, and
the two differ if the base package had parts it does not list. Its digest is joined without framing as
well, and `FoldPart` is an edit here too.

What verification says of the surface is the same in both containers (`SaysWhatWasBuilt`): the records are
those signed; the surface hashes like the one signed; and it is that one part for part if neither
holds a part that goes on with further entries. The docstring's "every part in the package and its bytes"
(`container.py:75`) is that statement without its condition.

Shares are handed out before anything can fail, by builds that raise as well. `SharesOpenTheirBuild`
presents every mixture of the shares begun for the document's slots, of finished and of raised
builds: those that hold K of the module's own build open it, and no others. The one exception is a
document of `mce` records on a base package used before, where the reader finds the first build's
element (`docx_stale_mce`).

### The transparency log

`file` and `head` are the two files, each absent, torn or whole: `Path.write_text` truncates and then
writes, and these are two steps here. A command that truncated a file another command writes into
before it does (`raced`) may leave a text of which only the start is its own, hence torn. A command that raises (`from_json` refuses,
JSON does not parse) has changed nothing and is not a step. `VerifyLog`, `VerifyHead` and
`VerifyConsistencyAndEmit` are `verify-transparency` reading the log, the head and the proof one
after another. `cli.py` emits the new proof whatever the verdict; that the proof kept is replaced
only on exit status 0 is the policy of the script around it, which the model fixes and the property
`AcceptedOnlyGrows` needs. `Edit` is anybody with write access and no operator key, `Rollback` the
operator who drops or rewrites entries and signs the result.

`AppendOnlyLog` is the promise: the log only gains entries at its end, and may be unreadable for a
while. `LogProcesses` implements it (`ImplementsAppendOnlyLog`) for one command at a time, under the mapping of
the log to what the file holds, or to what was last written while it is torn.

### The files of the commands

A command is a plan, a list of files to write one after another (`BuildPlan`, `KeygenPlan`,
`ExtractPlan`), and `proc` says which process is how far with which. `Open`, `Write`, `Chmod`,
`Refuse` and `FailToWrite` are `Path.write_bytes` and `write_secret` step by step; a file is there and
empty from `Open` on. `ReadDocument` and `ReadShares` are the beginning of `extract`. A file holds
the number of the command that made it, and two processes that have the same file open may leave a
mixture (`Contested`). `linked` is FALSE of a process whose file was unlinked under it. `Kill` is at
any step, and `TakeAway` is what the refusal asks the user to do: move the secret first.

`write_secret(overwrite=True)` writes the secret into whatever file is there and narrows its mode
afterwards. `SecretsNarrow` says when others can read a secret: a key or a share never; the extract
while a process stands between its truncation and its `chmod`, or for good if one was killed
there. The docstring (`secure_io.py:10-13`, and the comment at line 36) says that there is no such window.

A build that is refused its shares has replaced the document all the same, and no share on disk opens
it: `ReportedBuildOpens` speaks of builds that exit 0. It also wants that no other build was at work
meanwhile, since nothing keeps two builds of the same name apart.

### The reproduction runner

`at` is the program counter of `run_and_digest` between `attest` or `reproduce_and_compare` around it; `leader`
the process waited for, `helpers` what else of the run is alive, in the leader's group or escaped from it by
`setsid`; `earlier` a process of a former attempt in the same directory. `Init` is the author's run;
`Reproduce` a reader's, in a directory of its own or in the caller's, which may hold anything.

* `Timeout`, `Reap` and `LeaderExits` race. `KillGroup` finds the group through its leader, so it
  reaches nothing once the leader was reaped.
* `Frame` and `Stream` are the real framing of the digest, name, zero byte, content, with nothing
  between frames; the instance holds contents for which two directories have the same stream, and
  the properties are true of the stream, not of the directory it came from.
* Snapshot, listing, the look for a change and the digest go file by file (`Snapshot`, `ListOutputs`,
  `LookForChange`, `DigestOutputs`); whatever is alive writes in between. `alone` and `quiet` are history:
  that nothing of a former attempt was alive as the run began, that nothing at all was as the outputs
  were listed. `ResultIsComputed` says what a digest is worth with and without them.
* `Write` is any file at any moment, and its removal. Between runs nobody looks at the directory, and what
  went on in the meantime is in what the next run starts from.

### The release scripts

`script` is the script that runs: a step, the record it is about, the file it is at. `stage` is
where the maintainer is in the documented order: reserve, cite (`set_doi`), render, upload, publish.
A call to Zenodo is carried out or not and answered or not (`CallOutcomes`): a lost reply to `Reserve`
leaves a draft nobody uses, one to `Publish` a record that is published without the maintainer
knowing. `set_doi` reads, truncates and writes four files one after the other, and `Stop` may come
between any two steps. `StartSetDoi` takes any DOI: a prefix, a record's number or its concept's.
`Resolve` asks Zenodo as `set_doi` does. A public record is asked for by its number alone: the prefix that
was typed is never compared, nor is a concept with the version it leads to; only a draft's reserved DOI
is. Whatever resolves is written and reported, and nobody compares it with the reservation: the manager
goes on to render. `ArchivedPdfCitesGiven` is therefore about the DOI `set_doi` was given, and
`CitedIsOurs` about the number it has. The docstring of `set_doi.py` says "real and ours".

What a stopped write leaves is an empty file. `json.loads` raises on an empty JSON file, so a rerun
stops there until somebody restores it (`Restore`). An empty `CITATION.cff` has neither a `doi` line
nor one to put it after: the rerun leaves it without one and reports success. The properties except
a `CITATION.cff` that was emptied, and say so (`intact`). `Publish` does not look at what is attached. That
`codemeta.json` or `.zenodo.json` may be absent, in which case `set_doi` skips it, is not modelled: the
repository has both.

### The release supervisor

`at` is the program counter of `validate()` and the end of `main()`; `sup` its locals and the
evidence it gathers (`failure`, `errors` of the clean-up, `namespace_reaped`, the two exit codes);
`stream` its `GuestStream`. `box` is what the Docker daemon has, `code` the exit code it will
report, `sealed` whether the validation container has the controls `check_controls` wants. `guest`
and `pipe` are the guest and its stdout; `files` the verdicts in the output directory.

* A docker command is a client with a deadline, and its outcome has two sides (`Outcomes`): whether
  the daemon did it now, never or will do it later (`late`), and whether the supervisor sees it
  return, refuse, raise on a full disk, fail, or be cut short by a signal. What is done with
  an outcome is the code's: `Raised` goes to the `except` of the place it is in.
* `CreateMetadata` to `RemoveMetadata` is `runtime_receipt`, `CreateValidation` to `CloseStream` the `try` of `validate`,
  `Stop` to `CleanupFails` is `cleanup_container`, `VerifyAfter` to `Judge` the rest of `validate`, `Recheck` to `Fail` the end of `main`.
* `GuestGate` stands for qualification and every gate after it; a gate may leave processes
  (`left`), which end when they like. `GuestCheck` and `GuestFinal` are the two looks at sources and
  PID namespace. `TtlExpires` is `timeout --kill-after` in the entry point.
* `LateRequest`, `SupervisorKilled`, `Loosen`, `Drift` and `DiskFills` are the world: nothing of it
  happens in an order the supervisor can rely on. Controls and sources may be changed and changed
  back (`Loosen`, `Drift`): the supervisor looks at the controls before the start and after the end, and
  at the sources at three moments, so what was undone between two looks goes unseen. `exposed` and `drifted`
  are history of what was changed and not changed back, and `PassedIsProven` claims no more than that.
* A signal can cut `created_container` short before the id is assigned: custody is lost, nothing is
  cleaned up, and nothing was started (`RecoverCustody`).

`ReleaseProvision` puts `provision` before it. `CopyContext` copies the sources listed and compares the
copy; `PullBase` pulls each base image by its tag and records its digest; `PinBases` writes the
digests into the copy's Dockerfile; `BuildImage` builds, with the guest's own look at the sources as the
last step of the Dockerfile, and `SharedStep` is what both commands do. `StartValidate` needs a
`provision.json`, also one of a `provision` that failed after saving it. `TagMoves`,
`ContextDrifts` and `ContextReplaced` are the registry and whoever changes the copy after it was compared.
The build checks the copied sources against `inputs.json` with `release_guest.py`, and both lie in the same
context, as does the Dockerfile: nothing compares these again, and the image's label repeats the digest
of the manifest whatever was built. An image of changed sources fails to build (`"changed"`); one of a context
changed together with these files is recorded (`"replaced"`), and `ProvisionIsBound` excepts it.

Abstractions. Time is not counted: a deadline may pass in any step that waits. A digest matches when
every chunk arrived. Paused and restarting containers are not distinguished from running ones. The
checks `check_controls` makes are one bit. `stop`, `kill` and the emergency `kill` act at once or never: a late `kill` would only
help the properties. The wait of the emergency clean-up changes nothing and is part of its kill.

## 3. What the runs show

| Run | Instance | Shows |
|---|---|---|
| `docx_build` | 2 slots, 2 modules, 5 channels, password and threshold seals, 2 objects of which one is too large for `metadata`, 2 builds, own or shared base | `RoundTrip`, `SharesOpenTheirBuild`, `DrawingsResolve`, `ModulesUndisturbed`, `TypeOK` |
| `docx_edit` | decoy-sealed payload parts and project modules with and without attestation, one author, one co-signer entry, 2 builds, 1 edit, foldings included | `Authentic`, `CosignersVouched`, `SlotBinding`, `AttestationBound` |
| `docx_stale_mce` | `mce` only, 2 builds on one base | a counterexample to `RoundTripAnyBase` |
| `log_sequential` | 1 appender, 3 entries, 2 kills | `HeadDescribesPrefix`, `ReportedRetained`, `ImplementsAppendOnlyLog`, `TypeOK` |
| `log_tampered` | 1 appender, 2 verifications, 1 edit, 1 rollback | `AcceptedIsSigned`, `AcceptedOnlyGrows` |
| `log_lost_append` | 2 appenders | a counterexample to `ReportedRetained` |
| `release_run` | 2 base images, 2 gates, 1 chunk, 2 signals, anything else changed and changed back at will | `ProvisionIsBound`, `PassedIsProven`, `ReapedIsDown`, `NeverLeftRunning`, `EndsQuietly`, `TypeOK` |
| `repro_run` | 2 files read one by one, contents that collide, a project with and without a carried output, a recipe with a name and a wildcard and one without outputs | `ResultIsComputed`, `TimeoutReapsGroup`, `QuietDigestIsOfDirectory`, `EveryRunEnds`, `TypeOK` |
| `repro_orphans` | the same | a counterexample to `OrphansReaped` |
| `outputs` | 2 processes, 4 commands, 2 of 3 shares | `ReportedBuildOpens`, `ReportedKeysPair`, `SecretsNarrow`, `TornOnlyByKill`, `SecretsKept`, `TypeOK` |
| `odt_build` | 2 slots, 2 modules, both channels, threshold and decoy seals, a co-signer, 2 builds, 1 edit, foldings included | `Authentic`, `RoundTrip`, `SignedBuildVerifies`, `PlacedUndisturbed`, `TypeOK` |
| `doi` | 3 releases and a record of another project, 2 prefixes, 1 DOI mistyped, 2 stops | `ArchivedPdfCitesGiven`, `CitedIsOurs`, `ReportedAgree` |

Why these bounds. What two modules can do to each other needs two slots; what a build can do to an
earlier one needs two builds, the second on what the first, finished or failed, left. A replicated
module needs two carriers for a failure between them. K = N = 2 makes one share too few and two of
different builds the wrong ones. One edit at a time is enough for TLC to break each mutant, and the
theorems cover any number. Two appenders give every lost update, two kills a kill during the
recovery from a kill, three entries a prefix that is neither empty nor the whole of the log before. Two
verifications are what a monitor compares; several appenders, an editor and a monitor at once are too many
states for TLC, and `OnlySignedLogsAccepted` covers any number of them. The lineages not in a run's `SealsUsed` share the code
paths that the run's properties are about; `recipients` and `plain` placement differ from
`threshold` and `password` only in `Frames` and `Unseal`.

For the supervisor, two gates let the
first pass and the second fail; an archive of one chunk has a start, a middle and an end, each of which
may be missing or followed by noise; of two signals
one may end the validation and the other the clean-up that follows. Two base images let the tag of one move
while the other is pulled.

Two processes of commands meet at any file, and four commands are two that fail, a third that
repeats them and a fourth that reads; with two of three shares one may be of another build. Two files let an output
be declared and another be found, and one be stale. Three releases are one superseded, one lost to an
unanswered reservation and one published; the first stop may leave a file empty and the second may
hit the repair; one DOI may be typed with the wrong number or the wrong prefix, or be the concept's.

The largest runs are `release_run` (1.0 million states), `docx_edit` (0.9), `odt_build` (0.7) and
`docx_build` (0.4), each one and a half to three and a half minutes with two workers.

Slots, appenders and payloads are only compared for equality, so permuting them is a symmetry. The
view of `log_tampered` leaves out histories that no step and no property of that run
reads. The view of `odt_build` merges states of the last build: while it is under way nobody can read
back the file there is, which may be edited to nothing it was not edited to before; and once it has
ended, only the base package is serialised and the file edited.

Deadlock is not checked (`CHECK_DEADLOCK FALSE`): a caller may simply stop using the library, and a
behaviour that used up its bounds ends; a supervisor that is over takes no step; a project that failed to be
attested is not run again. In `doi` it is checked: the scripts can always be started again. Fairness: none is
assumed of the library and its commands, whose properties are all safety properties; a builder or a
command owes nobody a next call. `ReproductionRunner`
assumes weak fairness of `VerifierStep`: the verifier's process is scheduled, and `wait` has a timeout;
nothing is assumed of the recipe, which may hang, and `EveryRunEnds` is what `timeout=` buys. `ReleaseProvision`
assumes weak fairness of the supervisor's steps (`ProvisionStep`, `ValidateStep`), since
every command it waits for has a deadline after which `Runner.run` kills the client and raises, and
of `TtlExpires`, since `timeout` is the container's first process, sends KILL five seconds after
TERM, and asks nothing of the guest. Neither the guest's own steps, nor the daemon's late ones, nor anything of the world
is fair: a guest may hang for good, and a late request may never come. `EndsQuietly` holds all the
same, and fails as soon as the TTL needs the guest's cooperation.

`NeverLeftRunning` has three exceptions (`trouble`), each the code's limit. A signal in the clean-up ends it.
The daemon may not carry out the last resort, the emergency kill, which is tried whenever a command
before it raised or the last look does not find the container down; a `stop` or `kill` that fails or is refused
before that is no exception, and neither is a full disk. And the daemon may carry out the
start of a client that was killed at its deadline (`validate_release.py:306`) when the last command of the
clean-up is over; earlier than that, the clean-up still winds it up. In all three the supervisor reports failure, and the container
runs until its TTL: that is why `EndsQuietly` does not lean on the supervisor.

### What the counterexamples say

* `RoundTripAnyBase`: `docs/format-spec.md` says that a record's location tells a reader exactly where to look. The
  `mce` channel records only the story part and finds a payload by its slot, the first one in the
  part. Build twice on one base package and the second document's record has the new digest while
  the reader finds the first build's element: extraction fails. It fails closed. `RoundTrip` is the statement that does
  hold.
* `ReportedRetained` with two appenders: both load the same log, and the later write drops the
  entry the other had reported. The chain of what is left verifies.

* `OrphansReaped`: the comment at the second `_kill_group` says that it reaps surviving double-forked
  orphans. It runs after `wait` reaped the leader, finds no group any more, and passes over the
  `ProcessLookupError`. A recipe that exits and leaves a helper behind has its outputs digested while the
  helper may still write. `TimeoutReapsGroup` and `QuietDigestIsOfDirectory` are the statements that do hold.

Some observations that no run is spent on; the properties state what does hold.

* `scripts/README.md` says that failure remains failure. `main` saves
  `validation.json`, prints and returns within the same `try`, and whatever raises after the save, a
  signal or a closed stdout, is recorded as `failure.json` with exit status 1 beside the verdict of
  success, which nobody takes back. `PassedIsProven` and `ProvisionIsBound` still hold of such a verdict.
* `secure_io.py:10-13` and `:36` deny a window in which others can read an overwritten secret;
  `SecretsNarrow` states it.
* `set_doi.py` promises a DOI that is real and ours, and takes any prefix of a published record's number, and its
  concept's for a version's; `CitedIsOurs` says what it does guarantee.
* `_compute_surface_digest` covers every part and its bytes as one stream without framing; `Authentic`
  is about the entries of that stream.
* `reproduce.py:192-196` says that carried outputs do not pass for computed. A helper that outlives the command can put back the carried
  content after the look for a change and before the digest, and a former attempt's process
  can make the change; `ResultIsComputed` has an antecedent for each.

## 4. What is proved

TLAPS checks each proof to its last leaf. Every safety property the passing runs check is a theorem,
refinement and action properties included; only the two liveness properties are left to TLC. Bounds are
arbitrary natural numbers in the theorems; slots, objects, keys, appenders, payloads, gates, base images and
releases are arbitrary in number.

The assumptions are named, stand in the module that declares the constants, and TLC evaluates them:

* `ThresholdAssumption`, `PasswordsAssumption`, `RedundancyAssumption`: 1 <= K <= N, two different passwords, at
  least one replica.
* `SignersAssumption`, `KeysAssumption`: nobody but the authors, or the operator, holds their keys.
* `InputsAssumption`, `OdtAssumption`: channels and lineages asked for exist; the absence of a slot is no
  slot.
* `PrefixesAssumption`: Zenodo's prefix is one of those that may be typed.
* `ValuesAssumption`, `OdtValuesAssumption`: what raises returns no bytes and no object, a content key is a key,
  and the `recipients` lineage has a recipient (`seal_multi` raises without one).
* `BoundsAssumption`, `ChunksAssumption`, `GatesAssumption`, `BasesAssumption`, `ReleasesAssumption`,
  `OutputsAssumption`, `RunnerAssumption`: numbers are numbers, sets are not empty.

Two groups of theorems have a hypothesis besides. `SignedOdtVerifies` supposes that the mark of an absent signature
is none (`AbsenceIsNoSignature`). Of the log, `HeadsDescribePrefixes`, `ReportedEntriesRetained` and
`AppendOnlyLogImplemented` suppose `[]Undisturbed`: never two commands at a time, and nobody edits or rolls back the files. That is
what the run `log_sequential` instantiates, and `log_lost_append` shows what happens without it.

### The OOXML container

* `BuilderIsTyped`, `DrawingsAlwaysResolve`, `AddPartIsNeverRefused`: `TInv` adds to `TypeOK` that the packages
  at hand are finite and, while nobody edited one, that their edges have distinct ids per source and their
  drawings resolve. Finiteness is what makes the first free index exist (`FirstUnused`, by
  counting).
* `ProvenanceIsAuthentic`, `CosignersAreAuthentic`: `Authentic` is about an accepted document only, and an
  edit can move a signature from a manifest that is not accepted to one that is. `PInv` therefore
  speaks of every signature value found in any manifest, as signature or co-signature, in `pkg`, in
  `doc` or in history: if it is an author's, it is over the body of a finished build which that
  author signed or co-signed (`Known`). What is accepted then has that build's body, hence its
  records and a surface that hashes alike. `FramedEntries` says that where no part holds further entries, the
  entries are exactly the parts, types and edges, so the surface is the same (`FramedSurface`). That
  folding parts changes nothing else a proof needs is `FoldPartShape`.
* `CiphertextsKeepTheirSlot`, `AttestationsAreBound`: `RInv` says that a record of the build under way is of a
  module queued for its slot, and that every digest any manifest lists, in whatever slot an editor put it,
  is of something a finished build sealed. An envelope opens only under the slot it was sealed for, so
  one that opens elsewhere does not exist; an attestation that verifies is that of the project sealed.
* `EveryModuleOpens`, `SharesOpenOnlyTheirBuild`, `PlacingDisturbsNothing`: `KInv` says that each module placed so
  far is where its record leads (`PlacedAs`), that a record leads to something (`Found`), and never to a part that a
  build writes again. Every step of a build has the form `Keeps`: own parts and properties stay, blocks are only
  added behind the others, a new part has a new name. The bytes of a `metadata` or `mce` record are
  found by its slot, hence the part about slots being unique. That builds draw increasing `n` makes their content keys
  different; the shares are issued per build and slot whether it finishes or not, a mixture of them combines to
  a key only if K of it are of one build and slot (`CombinesToKey`), and what a reader opens with any shares is what
  the record's own key gives (`ExtractsAtMost`).

### The ODF profile

* `OdtBuilderIsTyped`, `OdtProvenanceIsAuthentic`: as above, with the signatures of whatever `file` holds. `MInv` also
  says that a picture's record leads to pictures (editors exchange the records of payload parts only).
* `SignedOdtVerifies`: a build emits a package whose manifest carries its digest (`EmittedOK`); the types read
  back are those digested just if parts and listed types have the same names (`TypesMatch`); the
  other direction needs framed parts (`FramedShownAlike`).
* `EveryOdtModuleOpens`, `OdtPlacingDisturbsNothing`: `KInv` has the same parts as in the OOXML container, and one more: the
  j-th module's payload has the number of payloads queued up to it (`PayloadOf`). That is why a build does not replace
  its own payloads, though `add_part` would and numbering starts at 1.

### The log

* `ConsistencyMeansExtension`: a log that verifies against the proof of an earlier one extends it.
* `OnlySignedLogsAccepted`, `AcceptedLogsOnlyGrow`: `AcceptedIsSigned` alone is not inductive, as the
  monitor reads log and head in two steps while writers go on. `IInv` adds: every head file in the
  world whose signature is the operator's is over a log that was signed (`FilesOK`); a command about
  to write a head has signed its log (`AppendersOK`); a log past its head check was signed
  (`MonitorOK`); the proof kept is that of the log accepted last (`AcceptedOK`). The root of a log
  determines it, and so a head that fits a log in hand fits no other.
* `LogIsTyped`: `TInv` bounds every log in a file or in a command's hands.
* `HeadsDescribePrefixes`, `ReportedEntriesRetained`, `AppendOnlyLogImplemented`: in `SInv`, the file that
  can be read holds what was published last (`FileIsPublished`), a command in flight holds one entry more
  (`AheadByOne`), and a file stays unreadable only while it is written or after a kill
  (`TornExcused`). The refinement is proved step by step: the initial state maps to an empty log, the write of a log to
  `Publish`, its truncation to `Interrupt`, everything else to a stutter.

### The commands, the runner and the scripts

* `SecretsSurvive`, `SecretsWideOnlyInWindow`, `OnlyKillsTear`: that a failed write unlinks its name is harmless only
  if nobody else has a file of that name. `WritersOK` says so: whoever writes a key or a share created
  it, it is still torn, still has its name, and no other process has it open. The rest of `IInv` is
  that processes keep to their plans (`AsPlanned`: key and shares are created exclusively, and only the extract is
  overwritten). `WindowOK` carries the extract through each step: wide only as the user made it, under a process
  that has not narrowed it yet, or after a kill.
* `CommandsAreTyped`, `ReportedBuildsOpen`, `ReportedKeysBelong`: a report is about all the files of a command, and is
  made by its last step. `BuildsOK` and `PairsOK` say of each command on its way that what it has behind it is
  whole and its own, and that nobody else is at work on those names: of builds because `ReportedBuildOpens`
  asks for it, of key pairs because the private key is created exclusively and comes first.
* `DigestsAreComputed`, `TimeoutsReapTheGroup`, `QuietDigestsAreExact`, `RunnerIsTyped`: `ControlOK` ties
  the program counter to the leader, which exists unreaped until `wait` returned, so the kill after a
  timeout reaches the group, and from then on nobody is left to fork (`GroupOK`). `SnapshotOK` says that, alone, a file
  this run did not write is as the snapshot has it; `ListedOK` carries this through the loops, one file after the
  other, so one that was found changed was written; and `QuietOK` that with nobody alive what was read so far is
  what the directory holds.
* `ReleaseIsTyped`, `VerdictIsProven`, `ReapedStaysDown`, `CleanupSuffices`, `ProvisionBinds`: `PipeOK` says that
  up to the first noise the pipe holds the lines the guest sent and the supervisor has not taken,
  in order, so a stream that ended took every chunk (`StreamOK`) from a guest that exported after its last look
  (`GuestOK`). `CustodyOK` says that the supervisor has the id of whatever runs or may come to run, `FreshOK` that
  before it asked for a container there is none; `ReapedOK` that of a run
  that has not failed no request is left that could start one, once the clean-up has seen it down. `VerdictOK`, `DriftOK` and `BoundOK` carry what each stage has established to
  the verdict. That a container exposed has no controls now, and a drifted snapshot is changed now, is what
  the next look turns into a failure. `CleanupSuffices` needs of `CustodyOK` that what runs without trouble runs
  before or during the clean-up.
* `PublishedPdfCitesWhatWasGiven`, `SurfacesCiteOurs`, `ReportedDoiIsEverywhere`: `RewriteOK` says that `set_doi` has
  settled every surface up to the present one on the one DOI it resolved, wherever it is stopped; `ManagerOK` what
  each stage of the documented order has established; `FilesOK` that only a PDF made from what `set_doi` reported as written is ever attached to a record.

### Only model-checked

`EveryRunEnds` of the runner and `EndsQuietly` of the supervisor are liveness under fairness. Out of the prover's
reach, now and later: those and `ENABLED`; what a recursive
definition computes on every input (Merkle trees, polynomial shares), since the induction theorems
take an operator as a parameter; and modules with `RECURSIVE` operators. The three counterexamples are TLC's too.

## 5. What is not modelled

* ZIP limits, XML safety, name checks (`opc.py`), static intake, validation, `inspect`, `verify` and
  the other commands that read and print: pure functions of their input that report and change nothing.
* The arithmetic of GF(256), the LSB codec, key derivation, packing of payloads: computation without protocol state; the
  first and the Merkle inclusion proofs are planned as algorithms of their own.
* Documents nested in documents (`extract_nested`, `open_nested`) and their depth limit: each level is
  a reader of its own, on bytes the level above extracted.
* The sandbox around a recipe and its resource limits: the platform enforces them.
* The tar extraction's limits and what each gate of the guest does: pure checks, and other programs.
* A container that is created and never started and that nobody has custody of
  (`validate_release.py:595`): the steps are modelled, no property is stated.
* Manuscript and example scripts: straight-line output.
* What the order and repetition of entries in the unframed surface digest tell apart beyond their set.
* Breaking of the cryptography itself, and an author's key in the wrong hands.

## 6. Plan

Written, in this order: package, channels, sealing, manifest, container, its editors and reader; log
operators, processes, abstract log; proofs of the log, of provenance, of the builder; the guest's
stream and the release supervisor; the reproduction runner; the files of the commands; the ODT profile; the
release scripts; provisioning; the proofs of the commands' secrets and of the runner; of the supervisor and the
release scripts; of the log's refinement; of what commands report; of what opens in either container.

Next:

1. Algorithms against reference definitions: Merkle root and inclusion proofs, share splitting and
   combination over a small field; and the facts about them that need no induction as lemmas.
2. Nested documents: readers within readers.
3. A property of the container that is created and never started (`validate_release.py:595`).
