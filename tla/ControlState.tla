------------------------------ MODULE ControlState ------------------------------
(***************************************************************************)
(* RwLock<Control> of crates/server/src/state.rs and the admin requests    *)
(* that change it: POST /v1/kill, /v1/mode, /v1/config and                 *)
(* /v1/config/reload, with config.toml as FileConfigStore writes it and    *)
(* the Reloader reads it.                                                  *)
(*                                                                         *)
(* A handler is a sequence of steps between which other handlers run: the  *)
(* file is read before the write lock is taken, and a write opens the      *)
(* temporary file, fills it and renames it.  Files are inodes: opening a   *)
(* temporary file that exists truncates it in place, so two writers share  *)
(* it.  A truncated config.toml is empty TOML, which parses to the default *)
(* configuration (every section is serde(default)).                        *)
(***************************************************************************)
EXTENDS Control

CONSTANTS
    Admin,       \* concurrent admin requests
    Default,     \* what an empty config.toml parses to
    AllowLive,   \* [server] allow_live
    Inode,       \* enough inodes for config.toml, toml.tmp and open handles
    NoFile       \* toml.tmp does not exist

Empty == [text |-> "empty"]
Invalid == [text |-> "invalid"]   \* does not parse or does not validate

ASSUME ControlAssumption ==
    /\ Default \in Config
    /\ Empty \notin Config /\ Invalid \notin Config   \* a configuration is not a text
    /\ AllowLive \in BOOLEAN
    /\ NoFile \notin Inode

VARIABLES
    control,   \* Control: mode, kill switch, applied configuration
    conf,      \* inode config.toml names
    tmp,       \* inode config.toml.tmp names, or NoFile
    content,   \* inode -> configuration, or Empty after truncation, or Invalid
    req,       \* per admin request, where its handler is
    edited,    \* history: config.toml was edited by hand since it was last read
    raced      \* history: two requests have handled the configuration at once

controlVars == <<control, conf, tmp, content, req, edited, raced>>

Idle == [pc |-> "idle", cfg |-> Default, fd |-> NoFile, mode |-> "paper"]

ControlTypeOK ==
    /\ control \in ControlRecord
    /\ conf \in Inode
    /\ tmp \in Inode \cup {NoFile}
    /\ content \in [Inode -> Config \cup {Empty, Invalid}]
    /\ req \in [Admin -> [pc : {"idle", "open", "write", "rename", "read", "apply",
                                "preflight", "set_mode"},
                          cfg : Config, fd : Inode \cup {NoFile}, mode : Mode]]
    /\ edited \in BOOLEAN
    /\ raced \in BOOLEAN

--------------------------------------------------------------------------------
(* Helpers *)

Parse(text) == IF text = Empty THEN Default ELSE text

ControlInit ==
    /\ \E c \in Config, i \in Inode :
          /\ control = Boot(c)
          /\ conf = i
          /\ content = [j \in Inode |-> IF j = i THEN c ELSE Empty]
    /\ tmp = NoFile
    /\ req = [a \in Admin |-> Idle]
    /\ edited = FALSE
    /\ raced = FALSE

At(a, pc) == req[a].pc = pc
Goto(a, pc) == req' = [req EXCEPT ![a].pc = pc]
Done(a) == req' = [req EXCEPT ![a] = Idle]

\* In POST /v1/config or /v1/config/reload.
InConfig(a) == req[a].pc \in {"open", "write", "rename", "read", "apply"}

\* An inode no name and no open handle refers to.
Free(i) == i # conf /\ i # tmp /\ \A a \in Admin : req[a].fd # i

--------------------------------------------------------------------------------
(* POST /v1/kill and POST /v1/mode *)

PostKill(a, engage) ==
    /\ At(a, "idle")
    /\ control' = WithKill(control, engage)
    /\ UNCHANGED <<conf, tmp, content, req, edited, raced>>

\* post_mode up to its first await: paper needs nothing, live needs allow_live.
PostMode(a, m) ==
    /\ At(a, "idle")
    /\ m = "live" => AllowLive
    /\ req' = [req EXCEPT ![a].pc = IF m = "live" THEN "preflight" ELSE "set_mode",
                          ![a].mode = m]
    /\ UNCHANGED <<control, conf, tmp, content, edited, raced>>

\* preflight.check().await; a failure answers 403.
Preflight(a) ==
    /\ At(a, "preflight")
    /\ Goto(a, "set_mode") \/ Done(a)
    /\ UNCHANGED <<control, conf, tmp, content, edited, raced>>

SetMode(a) ==
    /\ At(a, "set_mode")
    /\ control' = WithMode(control, req[a].mode)
    /\ Done(a)
    /\ UNCHANGED <<conf, tmp, content, edited, raced>>

--------------------------------------------------------------------------------
(* POST /v1/config: validate, FileConfigStore::write, apply_reload *)

PostConfig(a, c) ==
    /\ At(a, "idle")
    /\ req' = [req EXCEPT ![a].pc = "open", ![a].cfg = c]
    /\ raced' = (raced \/ \E b \in Admin : InConfig(b))
    /\ UNCHANGED <<control, conf, tmp, content, edited>>

\* Mutant: config.toml is written in place.
MutOpenTmp(a) ==
    /\ At(a, "open")
    /\ content' = [content EXCEPT ![conf] = Empty]
    /\ req' = [req EXCEPT ![a].pc = "write", ![a].fd = conf]
    /\ UNCHANGED <<control, conf, tmp, edited, raced>>

\* fs::write opens config.toml.tmp with O_CREAT | O_TRUNC ...
OpenTmp(a) ==
    /\ At(a, "open")
    /\ \E i \in Inode :
          /\ IF tmp = NoFile THEN Free(i) ELSE i = tmp
          /\ tmp' = i
          /\ content' = [content EXCEPT ![i] = Empty]
          /\ req' = [req EXCEPT ![a].pc = "write", ![a].fd = i]
    /\ UNCHANGED <<control, conf, edited, raced>>

\* ... and writes through the handle, whatever the inode is called by now.  A write
\* that fails (500) leaves the temporary file truncated.
WriteTmp(a) ==
    /\ At(a, "write")
    /\ \/ /\ content' = [content EXCEPT ![req[a].fd] = req[a].cfg]
          /\ req' = [req EXCEPT ![a].pc = "rename", ![a].fd = NoFile]
       \/ Done(a) /\ UNCHANGED content
    /\ UNCHANGED <<control, conf, tmp, edited, raced>>

\* Mutant: the new file is not applied.
MutRenameUnapplied(a) ==
    /\ At(a, "rename")
    /\ tmp # NoFile
    /\ conf' = tmp
    /\ tmp' = NoFile
    /\ content' = [content EXCEPT ![conf] = Empty]
    /\ Done(a)
    /\ UNCHANGED <<control, edited, raced>>

\* fs::rename; it fails (500, nothing applied) when another writer already
\* renamed the shared temporary file.
RenameTmp(a) ==
    /\ At(a, "rename")
    /\ \/ /\ tmp # NoFile
          /\ conf' = tmp
          /\ tmp' = NoFile
          /\ content' = [content EXCEPT ![conf] = Empty]   \* the replaced file is gone
          /\ Goto(a, "read")
       \/ /\ tmp = NoFile
          /\ Done(a)
          /\ UNCHANGED <<conf, tmp, content>>
    /\ UNCHANGED <<control, edited, raced>>

--------------------------------------------------------------------------------
(* POST /v1/config/reload, and the tail of POST /v1/config *)

PostConfigReload(a) ==
    /\ At(a, "idle")
    /\ Goto(a, "read")
    /\ raced' = (raced \/ \E b \in Admin : InConfig(b))
    /\ UNCHANGED <<control, conf, tmp, content, edited>>

\* apply_reload calls the reloader before it asks for the lock; a file that does
\* not validate answers 422 and nothing changes.
ReadFile(a) ==
    /\ At(a, "read")
    /\ \/ /\ content[conf] # Invalid
          /\ req' = [req EXCEPT ![a].pc = "apply", ![a].cfg = Parse(content[conf])]
          /\ edited' = FALSE
       \/ /\ content[conf] = Invalid
          /\ Done(a)
          /\ UNCHANGED edited
    /\ UNCHANGED <<control, conf, tmp, content, raced>>

\* apply_reload under the write lock, with what it read before.
ApplyReload(a) ==
    /\ At(a, "apply")
    /\ control' = Reloaded(control, req[a].cfg)
    /\ Done(a)
    /\ UNCHANGED <<conf, tmp, content, edited, raced>>

--------------------------------------------------------------------------------
(* Environment *)

\* The operator edits config.toml by hand.
EditFile(c) ==
    /\ c # content[conf]
    /\ content' = [content EXCEPT ![conf] = c]
    /\ edited' = TRUE
    /\ UNCHANGED <<control, conf, tmp, req, raced>>

\* The process dies, at any step of any handler, and is started again.
Restart ==
    /\ content[conf] # Invalid
    /\ control' = Boot(Parse(content[conf]))
    /\ req' = [a \in Admin |-> Idle]
    /\ edited' = FALSE
    /\ UNCHANGED <<conf, tmp, content, raced>>

AdminStep(a) ==
    \/ \E engage \in BOOLEAN : PostKill(a, engage)
    \/ \E m \in Mode : PostMode(a, m)
    \/ Preflight(a)
    \/ SetMode(a)
    \/ \E c \in Config : PostConfig(a, c)
    \/ OpenTmp(a)
    \/ WriteTmp(a)
    \/ RenameTmp(a)
    \/ PostConfigReload(a)
    \/ ReadFile(a)
    \/ ApplyReload(a)

ControlNext ==
    \/ \E a \in Admin : AdminStep(a)
    \/ \E c \in Config \cup {Invalid} : EditFile(c)
    \/ Restart

ControlSpec == ControlInit /\ [][ControlNext]_controlVars

--------------------------------------------------------------------------------
(* Properties *)

\* While the process lives, only an admin's POST /v1/kill releases the kill switch:
\* no reload, however stale the file it read, dis-engages it (routes.rs:683).
KillReleasedByAdmin ==
    [][control.kill /\ ~control'.kill =>
          Restart \/ \E a \in Admin : PostKill(a, FALSE)]_controlVars

\* config.toml is never found truncated (config_store.rs:19) as long as one request
\* writes it at a time: whatever step the writer is at, through crashes at every step
\* that leave a temporary file behind, hand edits, and later requests that reuse it.
TruncatedOnlyByRace == ~raced => content[conf] # Empty

\* When no request is in flight and nobody edited the file since it was last read,
\* the running server matches it (routes.rs:687), unless two requests have raced: the
\* one that read the file first may apply what it read last.
RunningMatchesFile ==
    (~raced /\ ~edited /\ \A a \in Admin : At(a, "idle")) =>
        control.cfg = Parse(content[conf])
================================================================================
