---- MODULE DaemonCreate ----
(* Container creation in the daemon (src/daemon/create.go).                *)
(*                                                                         *)
(* API requests run concurrently.  containerCreate validates the request   *)
(* and calls create, which reserves the name (newContainer), sets the      *)
(* security options from the containers it joins (generateSecurityOpt),   *)
(* creates the RW layer and the directories, writes config.v2.json         *)
(* (ToDisk) and registers the container.  From newContainer on, a deferred *)
(* cleanupContainer undoes everything if create returns an error.          *)
(*                                                                         *)
(* A request's container is named by the request.  Containers that exist  *)
(* before the requests (Existing) own their names and carry a label.       *)
(* Calls into code outside src/ that can fail (verifyContainerSettings,    *)
(* adaptContainerSettings, mergeAndVerifyLogConfig, CreateRWLayer, MkdirAs, *)
(* setHostConfig, ToDisk, Register) fail nondeterministically.             *)
EXTENDS Naturals, FiniteSets, Sequences

CONSTANTS
  Reqs,          \* concurrent create requests
  Names,         \* names the requests ask for
  Existing,      \* containers present before the requests (their names)
  ExistingLabel, \* Existing -> their SELinux process label, or NoLabel
  Specs,         \* request bodies a client may send
  Volumes,       \* volume names VolumeCreate may be asked for ("" included)
  Drivers,       \* volume drivers
  GenNames,      \* names stringid.GenerateNonCryptoID returns, in order (bounds them)
  NoLabel,       \* model value: a process label of "" (labels disabled)
  None           \* model value: no owner

Owners == Reqs \cup Existing
Labels == Owners \cup {NoLabel}   \* label.InitLabels gives a container its own label

(* IP address strings, by what net.ParseIP makes of them: "" (unset), a    *)
(* dotted IPv4, an IPv6, an IPv4-mapped IPv6 (::ffff:a.b.c.d), garbage.    *)
AddrKinds == {"", "dotted", "v6", "mapped", "bad"}
ParsesTo(a) == CASE a = "bad" -> "nil" [] a = "v6" -> "v6" [] OTHER -> "v4"

(* A request body: Config (nil or set), its Entrypoint and Cmd, the image, *)
(* the endpoints of NetworkingConfig (all with the same IPAM config), the  *)
(* IpcMode and PidMode ("", "host", or the name of a container to join),  *)
(* and Privileged.                                                         *)
SpecType ==
  [config : {"nil", "set"}, entrypoint : {"none", "empty", "set"}, cmd : BOOLEAN,
   image : {"", "present", "missing"},
   endpoints : 0..2, ipv4 : AddrKinds, ipv6 : AddrKinds,
   ipc : {"", "host"} \cup Names \cup Existing,
   pid : {"", "host"} \cup Names \cup Existing, privileged : BOOLEAN]

ASSUME Specs \subseteq SpecType /\ ExistingLabel \in [Existing -> Existing \cup {NoLabel}]

PcType == {"idle", "validate", "new", "secopt", "layer", "setup", "todisk", "register", "done"}

VARIABLES
  req,        \* r -> [pc, spec, name, err]
  names,      \* daemon.nameIndex: name -> owning container, or None
  registered, \* daemon.containers
  label,      \* container -> ProcessLabel
  layers,     \* containers with an RW layer in the layer store
  roots,      \* containers whose root (and checkpoint) directory exists
  disk,       \* containers whose config is on disk
  volumes,    \* volume store: name -> driver, or None
  generated   \* volumes created with a generated name

vars == <<req, names, registered, label, layers, roots, disk, volumes, generated>>

AllNames == Names \cup Existing
MaxGenerated == Len(GenNames)
VolumeNames == (Volumes \ {""}) \cup {GenNames[k] : k \in 1..MaxGenerated}

TypeOK ==
  /\ req \in [Reqs -> [pc : PcType, spec : SpecType \cup {None},
                       name : Names \cup {None}, err : BOOLEAN]]
  /\ names \in [AllNames -> Owners \cup {None}]
  /\ registered \subseteq Owners /\ layers \subseteq Reqs
  /\ roots \subseteq Reqs /\ disk \subseteq Reqs
  /\ label \in [Owners -> Labels]
  /\ volumes \in [VolumeNames -> Drivers \cup {None}]
  /\ generated \in 0..MaxGenerated

Init ==
  /\ req = [r \in Reqs |-> [pc |-> "idle", spec |-> None, name |-> None, err |-> FALSE]]
  /\ names = [n \in AllNames |-> IF n \in Existing THEN n ELSE None]
  /\ registered = Existing
  /\ label = [c \in Owners |-> IF c \in Existing THEN ExistingLabel[c] ELSE NoLabel]
  /\ layers = {} /\ roots = {} /\ disk = {}
  /\ volumes = [v \in VolumeNames |-> None]
  /\ generated = 0

----
(* Pure parts of the validation                                            *)

\* verifyNetworkingConfig: no endpoints is fine; one endpoint must carry a
\* valid IPv4 and IPv6 address where set; more than one is refused.
VerifyNetworkingConfig(s) ==
  CASE s.endpoints = 0 -> TRUE
    [] s.endpoints = 1 ->
         /\ s.ipv4 /= "" => ParsesTo(s.ipv4) = "v4"
         /\ s.ipv6 /= "" => ParsesTo(s.ipv6) = "v6"
    [] OTHER -> FALSE

\* mergeAndVerifyConfig: merge fills an empty Entrypoint and Cmd from the
\* image (whose config has a Cmd and no Entrypoint), but only when the
\* Entrypoint is empty; then [""] is reset to nil; no Entrypoint and no Cmd
\* is "No command specified".
MergeAndVerifyConfig(s) ==
  LET cmd == s.cmd \/ (s.image = "present" /\ s.entrypoint = "none")
      ep  == IF s.entrypoint = "empty" THEN "none" ELSE s.entrypoint
  IN  ep /= "none" \/ cmd

\* The container a "container:<name>" mode joins, as daemon.GetContainer
\* finds it: the name must belong to a registered container.
Joined(m) == IF m \in AllNames /\ names[m] \in registered THEN names[m] ELSE None
Joins(m)  == m \in AllNames

\* label.DupSecOpt: nil for an empty label, else the label's options.
DupSecOpt(c) == IF c = None \/ label[c] = NoLabel THEN "nil" ELSE label[c]

\* generateSecurityOpt: the options the new container's labels come from:
\* "disable", "nil" (fresh labels) or a label to copy; or "err".
GenerateSecurityOpt(s) ==
  LET ipcL == DupSecOpt(Joined(s.ipc))
      pidL == DupSecOpt(Joined(s.pid))
  IN
  CASE s.ipc = "host" \/ s.pid = "host" \/ s.privileged -> "disable"
    [] Joins(s.ipc) /\ Joined(s.ipc) = None -> "err"
    [] Joins(s.ipc) /\ ~Joins(s.pid)        -> ipcL
    [] Joins(s.pid) /\ Joined(s.pid) = None -> "err"
    [] Joins(s.pid) /\ ~Joins(s.ipc)        -> pidL
    [] pidL /= "nil" /\ ipcL /= "nil"       -> IF pidL /= ipcL THEN "err" ELSE pidL
    [] OTHER                                -> "nil"

----
(* The request goroutines                                                  *)

SetPc(r, pc) == req' = [req EXCEPT ![r].pc = pc]
Fail(r) == req' = [req EXCEPT ![r].pc = "done", ![r].err = TRUE]

\* The deferred cleanupContainer(container, true, true) of create.  With
\* forceRemove the container leaves the name index and daemon.containers
\* whatever else fails; it then removes the root directory (and with it
\* config.v2.json) and releases the RW layer, returning at the first error.
\* create only logs that error (create.go:111-112, spec 7), so what a
\* failed cleanup leaves behind stays.
Cleanup(r) ==
  /\ names' = [n \in AllNames |-> IF names[n] = r THEN None ELSE names[n]]
  /\ registered' = registered \ {r}
  /\ \/ roots' = roots \ {r} /\ disk' = disk \ {r} /\ layers' = layers \ {r}
     \/ UNCHANGED <<roots, disk, layers>>                        \* RemoveAll fails
     \/ roots' = roots \ {r} /\ disk' = disk \ {r} /\ UNCHANGED layers \* ReleaseRWLayer fails

FailAndCleanup(r) == Fail(r) /\ Cleanup(r) /\ UNCHANGED label

\* ContainerCreate / CreateManagedContainer: the request arrives.
Call(r, s, n) ==
  /\ req[r].pc = "idle"
  /\ req' = [req EXCEPT ![r] = [pc |-> "validate", spec |-> s, name |-> n, err |-> FALSE]]
  /\ UNCHANGED <<names, registered, label, layers, roots, disk, volumes, generated>>

\* containerCreate up to newContainer, and create up to it: nothing shared
\* is touched, so one step.  Every check returns the error at once.
Validate(r) ==
  /\ req[r].pc = "validate"
  /\ LET s == req[r].spec IN
     \E settingsOk, adaptOk, logOk \in BOOLEAN :
        IF /\ s.config = "set" /\ settingsOk /\ VerifyNetworkingConfig(s) /\ adaptOk
           /\ s.image /= "missing" /\ MergeAndVerifyConfig(s) /\ logOk
        THEN SetPc(r, "new") ELSE Fail(r)
  /\ UNCHANGED <<names, registered, label, layers, roots, disk, volumes, generated>>

\* newContainer: reserve the name (a conflict is an error, before the
\* deferred cleanup is installed).
NewContainer(r) ==
  /\ req[r].pc = "new"
  /\ IF names[req[r].name] = None
       THEN /\ names' = [names EXCEPT ![req[r].name] = r]
            /\ SetPc(r, "secopt")
       ELSE Fail(r) /\ UNCHANGED names
  /\ UNCHANGED <<registered, label, layers, roots, disk, volumes, generated>>

SetSecurityOptionsRaw(r) ==
  /\ req[r].pc = "secopt"
  /\ LET opt == GenerateSecurityOpt(req[r].spec) IN
     IF opt = "err"
       THEN FailAndCleanup(r)
       ELSE /\ label' = [label EXCEPT ![r] = opt]
            /\ SetPc(r, "layer")
            /\ UNCHANGED <<names, registered, layers, roots, disk>>
  /\ UNCHANGED <<volumes, generated>>

SetSecurityOptionsNoCleanup(r) ==
  /\ req[r].pc = "secopt"
  /\ LET opt == GenerateSecurityOpt(req[r].spec) IN
     IF opt = "err"
       THEN Fail(r) /\ UNCHANGED <<names, registered, label, layers, roots, disk>>
       ELSE /\ label' = [label EXCEPT ![r] = CASE opt = "disable" -> NoLabel
                                               [] opt = "nil"     -> r
                                               [] OTHER           -> opt]
            /\ SetPc(r, "layer")
            /\ UNCHANGED <<names, registered, layers, roots, disk>>
  /\ UNCHANGED <<volumes, generated>>

\* setSecurityOptions: the labels come from generateSecurityOpt.
SetSecurityOptions(r) ==
  /\ req[r].pc = "secopt"
  /\ LET opt == GenerateSecurityOpt(req[r].spec) IN
     IF opt = "err"
       THEN FailAndCleanup(r)
       ELSE /\ label' = [label EXCEPT ![r] = CASE opt = "disable" -> NoLabel
                                               [] opt = "nil"     -> r
                                               [] OTHER           -> opt]
            /\ SetPc(r, "layer")
            /\ UNCHANGED <<names, registered, layers, roots, disk>>
  /\ UNCHANGED <<volumes, generated>>

SetupRegistersEarly(r) ==
  /\ req[r].pc = "setup"
  /\ \/ FailAndCleanup(r)
     \/ /\ roots' = roots \cup {r} /\ registered' = registered \cup {r}
        /\ SetPc(r, "todisk")
        /\ UNCHANGED <<names, label, layers, disk>>
  /\ UNCHANGED <<volumes, generated>>

\* setRWLayer, after the mount label is set: the image's chain is looked up
\* again in the image store (when the container has an image), then the
\* layer store creates the container's RW layer; either can fail.
SetRWLayer(r) ==
  /\ req[r].pc = "layer"
  /\ \/ FailAndCleanup(r)
     \/ /\ layers' = layers \cup {r}
        /\ SetPc(r, "setup")
        /\ UNCHANGED <<names, registered, label, roots, disk>>
  /\ UNCHANGED <<volumes, generated>>

\* The root and checkpoint directories, setHostConfig and the platform
\* settings, in this order; the first failure returns.
Setup(r) ==
  /\ req[r].pc = "setup"
  /\ \/ FailAndCleanup(r)
     \/ /\ roots' = roots \cup {r}
        /\ SetPc(r, "todisk")
        /\ UNCHANGED <<names, registered, label, layers, disk>>
  /\ UNCHANGED <<volumes, generated>>

ToDisk(r) ==
  /\ req[r].pc = "todisk"
  /\ \/ FailAndCleanup(r)
     \/ disk' = disk \cup {r} /\ SetPc(r, "register")
        /\ UNCHANGED <<names, registered, label, layers, roots>>
  /\ UNCHANGED <<volumes, generated>>

Register(r) ==
  /\ req[r].pc = "register"
  /\ \/ FailAndCleanup(r)
     \/ registered' = registered \cup {r} /\ SetPc(r, "done")
        /\ UNCHANGED <<names, label, layers, roots, disk>>
  /\ UNCHANGED <<volumes, generated>>

\* VolumeCreate: an empty name gets a generated one; the store returns the
\* volume of that name if its driver matches and refuses it otherwise.
VolumeCreate(name, driver) ==
  /\ name = "" => generated < MaxGenerated
  /\ LET v == IF name = "" THEN GenNames[generated + 1] ELSE name IN
     /\ volumes[v] \in {None, driver}
     /\ volumes' = [volumes EXCEPT ![v] = driver]
     /\ generated' = IF name = "" THEN generated + 1 ELSE generated
  /\ UNCHANGED <<req, names, registered, label, layers, roots, disk>>

Next ==
  \/ \E r \in Reqs :
       \/ \E s \in Specs, n \in Names : Call(r, s, n)
       \/ Validate(r) \/ NewContainer(r) \/ SetSecurityOptions(r)
       \/ SetRWLayer(r) \/ Setup(r) \/ ToDisk(r) \/ Register(r)
  \/ \E v \in Volumes, d \in Drivers : VolumeCreate(v, d)

Spec == Init /\ [][Next]_vars

----
(* Properties                                                              *)

\* A create that returned an error gives its name back and is not in
\* daemon.containers, whichever step failed, whatever the other requests
\* did meanwhile, and even when cleanupContainer itself failed and was only
\* logged: another request can take the name.  (Its layer, root directory
\* and config may stay behind after a failed cleanup; that is not claimed.)
RollbackReleasesName ==
  \A r \in Reqs :
     (req[r].pc = "done" /\ req[r].err) =>
        /\ r \notin registered
        /\ \A n \in AllNames : names[n] /= r

\* A container other requests can see in daemon.containers is complete: it
\* owns the name it asked for and has its RW layer, its directory and its
\* config on disk (create registers last).
RegisteredComplete ==
  \A r \in registered \cap Reqs :
     /\ r \in layers \cap roots \cap disk
     /\ names[req[r].name] = r

\* A container created to join the IPC namespace of one container and the
\* PID namespace of another runs only if the two have the same SELinux
\* label: generateSecurityOpt's error "--ipc and --pid containers SELinux
\* labels aren't the same" (create.go:202).
JoinedLabelsAgree ==
  \A r \in registered \cap Reqs :
     LET s == req[r].spec IN
     (Joins(s.ipc) /\ Joins(s.pid) /\ ~s.privileged) =>
        label[names[s.ipc]] = label[names[s.pid]]
====
