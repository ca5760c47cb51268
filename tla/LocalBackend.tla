---------------------------- MODULE LocalBackend ----------------------------
(***************************************************************************)
(* The backends that configure the machine they run on: the kernel through *)
(* ip and wg, NetworkManager through a keyfile and nmcli, systemd-networkd *)
(* through unit files and networkctl.  The same code runs in the server    *)
(* and in the node agent, which is reached with one HTTP call.             *)
(***************************************************************************)
EXTENDS BackendCall

VARIABLE
  host        \* link: whether the device exists, serves: its peers;
              \* file: the profile or .netdev on disk, as the peers it lists,
              \* loaded: what the daemon last read of it

\* A file that is not there, or still empty, is {}.
NoFile == {}
Holding(keys) == {keys}

Files == {NoFile} \cup {Holding(k) : k \in SUBSET Keys}

Hosts == [link : BOOLEAN, serves : SUBSET Keys, file : Files, loaded : Files]

\* What the device serves after half of a change to new.
Partly(new) == {k \in SUBSET (host.serves \cup new) : host.serves \cap new \subseteq k}

---------------------------------------------------------------------------
\* What a command leaves behind when it succeeds; none if it cannot.

Serving(keys) == [host EXCEPT !.link = TRUE, !.serves = keys]

LinkAdded == IF host.link THEN {} ELSE {Serving({})}

LinkDeleted == IF host.link THEN {[host EXCEPT !.link = FALSE, !.serves = {}]} ELSE {}

\* syncconf makes the peers those of the rendered configuration, which is piped
\* in: a task dropped while it writes closes the pipe on any part of it.
Synced(c) ==
  IF ~host.link THEN {}
  ELSE {Serving(k) : k \in IF c.gone THEN SUBSET c.peers ELSE {c.peers}}

\* fs::write empties the file before it writes.  Two writers may overlap: what
\* the other wrote after we emptied it is written over, a tail of it may stay.
\* A removal in between counts as one before.
Emptied == {[host EXCEPT !.file = NoFile]}

Filled(c) ==
  {[host EXCEPT !.file = Holding(c.peers \cup tail)] : tail \in SUBSET UNION host.file}

\* nmcli connection up (re)activates the profile as it was last loaded.
Loaded == {[host EXCEPT !.loaded = host.file]}

Activated == {Serving(k) : k \in host.loaded}

ProfileDeleted ==
  IF host.loaded = NoFile THEN {}
  ELSE {[link |-> FALSE, serves |-> {}, file |-> NoFile, loaded |-> NoFile]}

\* networkctl reload reads the files and creates what is new; what exists is
\* left alone until networkctl reconfigure.
Reloaded ==
  {[host EXCEPT !.loaded = host.file,
                !.link   = host.link \/ host.file # NoFile,
                !.serves = IF host.link THEN @ ELSE UNION host.file]}

Reconfigured == IF host.link THEN Activated ELSE {}

---------------------------------------------------------------------------
\* One action per command: its effect, then the next command or the answer.

Runs(s, command, effects, next) ==
  /\ At(s, command)
  /\ host' \in effects
  /\ GoesOn(s, next)

Then(s, command) == {[call[s] EXCEPT !.pc = command]}

\* The kernel: selfmanaged.rs.
LinkShow(s) == Runs(s, "link-show", {host}, Then(s, IF host.link THEN "address-add" ELSE "link-add"))
LinkAdd(s) == Runs(s, "link-add", LinkAdded, Then(s, "address-add"))
AddressAdd(s) == Runs(s, "address-add", {host}, Then(s, "link-up"))
LinkUp(s) == Runs(s, "link-up", {h \in {host} : h.link}, Then(s, "syncconf"))
SyncConf(s) == Runs(s, "syncconf", Synced(call[s]), Completed(call[s]))
LinkDel(s) == Runs(s, "link-del", LinkDeleted, Completed(call[s]))

\* The file of either daemon; protect is its mode and group, and the .network
\* file, on which nothing here depends but that they may fail.
Truncate(s) == Runs(s, "truncate", Emptied, Then(s, "write"))
WriteFile(s) == Runs(s, "write", Filled(call[s]), Then(s, "protect"))
Protect(s) ==
  Runs(s, "protect", {host},
       Then(s, IF kind = "network-manager" THEN "connection-reload" ELSE "networkctl-reload"))

\* networkmanager.rs
ConnectionReload(s) == Runs(s, "connection-reload", Loaded, Then(s, "connection-up"))
ConnectionUp(s) == Runs(s, "connection-up", Activated, Completed(call[s]))
ConnectionDelete(s) == Runs(s, "connection-delete", ProfileDeleted, Then(s, "remove-file"))
RemoveFile(s) ==
  Runs(s, "remove-file", Emptied,
       IF kind = "network-manager" THEN Completed(call[s]) ELSE Then(s, "networkctl-reload"))

\* systemd_networkd.rs
NetworkReload(s) ==
  Runs(s, "networkctl-reload", Reloaded,
       Then(s, IF call[s].op = "apply" THEN "reconfigure" ELSE "link-del"))
\* Mutant: an existing device is not told to take its new peers.
ReconfigureUntold(s) == Runs(s, "reconfigure", {host}, Completed(call[s]))

Reconfigure(s) == Runs(s, "reconfigure", Reconfigured, Completed(call[s]))

---------------------------------------------------------------------------
\* Commands that fail.

\* What one may have done before it failed.
HalfDone(c) ==
  {host} \cup
    CASE c.pc = "syncconf" /\ host.link -> {Serving(k) : k \in Partly(c.peers)}
      [] c.pc = "truncate" -> Emptied
      [] c.pc = "write" -> {[host EXCEPT !.file = Holding(k)] : k \in SUBSET c.peers}
      [] c.pc = "connection-reload" -> Loaded
      [] c.pc = "connection-up" -> Activated
      [] c.pc = "networkctl-reload" -> Reloaded
      [] OTHER -> {}

\* The error is the call's answer: a "?" in apply.
CommandFails(s) ==
  /\ call[s].op = "apply"
  /\ call[s].pc \in {"link-add", "link-up", "syncconf", "truncate", "write", "protect",
                      "connection-reload", "connection-up", "networkctl-reload"}
  /\ host' \in HalfDone(call[s])
  /\ Stops(s)

\* Errors nobody looks at: "let _ =", and the test for the link.
FailureIgnored(s) ==
  /\ \/ At(s, "link-show") /\ GoesOn(s, Then(s, "link-add"))
     \/ At(s, "address-add") /\ GoesOn(s, Then(s, "link-up"))
     \/ At(s, "reconfigure") /\ GoesOn(s, {Answer("unsure")})
     \/ At(s, "connection-delete") /\ GoesOn(s, Then(s, "remove-file"))
     \/ /\ At(s, "remove-file")
        /\ GoesOn(s, IF kind = "network-manager" THEN Completed(call[s])
                      ELSE Then(s, "networkctl-reload"))
     \/ /\ At(s, "networkctl-reload")
        /\ call[s].op = "remove"
        /\ GoesOn(s, Then(s, "link-del"))
     \/ At(s, "link-del") /\ GoesOn(s, Completed(call[s]))
  /\ UNCHANGED host

LocalStep(s) ==
  \/ LinkShow(s) \/ LinkAdd(s) \/ AddressAdd(s) \/ LinkUp(s) \/ SyncConf(s) \/ LinkDel(s)
  \/ Truncate(s) \/ WriteFile(s) \/ Protect(s)
  \/ ConnectionReload(s) \/ ConnectionUp(s) \/ ConnectionDelete(s) \/ RemoveFile(s)
  \/ NetworkReload(s) \/ Reconfigure(s)
  \/ CommandFails(s) \/ FailureIgnored(s)

LocalFirst ==
  CASE kind = "self-managed" -> [apply |-> "link-show", remove |-> "link-del"]
    [] kind = "network-manager" -> [apply |-> "truncate", remove |-> "connection-delete"]
    [] OTHER -> [apply |-> "truncate", remove |-> "remove-file"]
=============================================================================
