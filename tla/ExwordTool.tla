----------------------------- MODULE ExwordTool -----------------------------
(***************************************************************************)
(* The transfer tool: sessions of the library (exword.c), the commands of  *)
(* the prompt (main.c) and the add-on operations (content.c), against a    *)
(* device that refuses, answers late, fails internally or is unplugged.    *)
(* Obex models the requests; here one request is one step with a result.   *)
(*                                                                         *)
(* A command is the sequence of library calls that its function makes,     *)
(* each with the number of following calls skipped after a success and     *)
(* after a failure.  The prompt is idle when none is left to do.           *)
(***************************************************************************)
EXTENDS Loader

CONSTANTS Cards,      \* media besides drv0: {} or {"crd0"}
          Modes,      \* connection modes, of library and text: one is chosen
                      \* and kept throughout a behaviour
          Keys,       \* authentication keys
          MaxFaults   \* bound on transport errors, internal errors, unplugs

ASSUME ToolAssumption == Cards \in {{}, {"crd0"}} /\ MaxFaults \in Nat

VARIABLES
  lib,     \* exword_t: connected, reason, the claim on the interface and the
           \* interrupt transfer: flying or over (not submitted again)
  dev,     \* the device: plugged in, session, path, lock, add-ons, keys
  s,       \* struct state of main.c
  todo,    \* library calls that the current command has still to make
  cmd,     \* the current command
  ok,      \* rsp == EXWORD_SUCCESS so far in content_install, content_remove;
           \* in content_auth, whether the cards were listed
  key,     \* challenge used by content_auth
  env      \* the mode the user works in, faults so far, whether one was an
           \* internal error, and the kinds of request whose last one in this
           \* session got no answer

toolVars == <<lib, dev, s, todo, cmd, ok, key, env>>
vars == <<loaderVars, toolVars>>

Null == <<"NULL">>
NoKey == "none"
Attached == {"drv0"} \cup Cards

LibDown == [up |-> FALSE, reason |-> "none", claim |-> FALSE, urb |-> "over"]
NoSession == [up |-> FALSE, path |-> <<>>, locked |-> TRUE, authed |-> FALSE]
Prompt == [running |-> TRUE, connected |-> FALSE, mode |-> "none", cwd |-> Null,
           authenticated |-> FALSE, event |-> FALSE, devs |-> {}]

\* Add-ons are there from the start where a behaviour is about them; a card
\* may have been registered with another key.
ToolInit ==
  /\ lib = LibDown
  /\ \E m \in Modes, installed \in SUBSET Attached, k, c \in Keys :
       /\ env = [mode |-> m, faults |-> 0, lost |-> {}, internal |-> FALSE]
       /\ dev = [present |-> TRUE, session |-> NoSession, addons |-> installed,
                 dirs |-> installed,
                 keys |-> [x \in Attached |-> IF x = "drv0" THEN k ELSE c]]
       /\ k = (CHOOSE x \in Keys : TRUE)
       /\ IF m = "text" THEN installed = {} /\ c = k
          ELSE storage["drv0"] = NoFile
  /\ s = Prompt
  /\ todo = <<>> /\ cmd = "none" /\ ok = TRUE /\ key = NoKey

Init == LoaderInit /\ ToolInit
-----------------------------------------------------------------------------
(* Scripts: the calls of a command.                                        *)

Op(f, p, mk, okskip, badskip) ==
  [f |-> f, p |-> p, mk |-> mk, okskip |-> okskip, badskip |-> badskip]
Do(f) == Op(f, <<>>, FALSE, 0, 0)
Path(p) == Op("setpath", p, FALSE, 0, 0)

\* The rest of a script only if the call o succeeds, or only if it fails.
IfGood(o, rest) == <<[o EXCEPT !.badskip = Len(rest)]>> \o rest
IfBad(o, rest) == <<[o EXCEPT !.okskip = Len(rest)]>> \o rest

connect_script ==
  IfGood(Path(<<>>), <<Do("scan")>>) \o <<Op("_setpath", <<"drv0">>, TRUE, 0, 0)>>

\* _find, then the rest if the add-on is there, or if it is not.
Find(root) == Op("find", root, FALSE, 0, 0)
IfFound(root, rest) == <<Path(root)>> \o IfGood(Find(root), rest)
IfAbsent(root, rest) == <<Path(root)>> \o IfBad(Find(root), rest)

Addon(root) == Append(root, "A")
ToAddon(root) == Op("setpath", Addon(root), TRUE, 0, 0)
Unlocked == <<Do("unlock"), Do("cname"), Do("cryptkey")>>

\* Seeded fault: the lock is taken only if everything went well.
RemoveLocksLast(root) ==
  IfFound(root, Unlocked \o IfGood(Do("ifok"), <<Do("remove"), Do("lock")>>))

content_remove(root) ==
  IfFound(root, Unlocked \o IfGood(Do("ifok"), <<Do("remove")>>) \o <<Do("lock")>>)

\* A file that cannot be read on the host is not sent.
_upload_file == IfGood(Do("local"), <<Do("upload")>>)
_download_file == <<Do("download")>>

\* opendir, the free space and the name of the add-on come before the unlock.
content_install(root) ==
  IfAbsent(root, IfGood(Do("local"), IfGood(Do("capacity"), IfGood(Do("local"),
    Unlocked
      \o IfGood(Do("ifok"), <<ToAddon(root)>> \o _upload_file \o <<ToAddon(root)>>)
      \o <<Do("lock")>>))))

\* exword_list without a result: exword_free_list goes through NULL.
List == IfBad(Do("list"), <<Do("crash")>>)

content_decrypt(root) ==
  IfFound(root, IfGood(Path(Addon(root)),
    IfGood(Do("local"), List \o _download_file)))

content_list_remote(root) == <<Path(root), Do("download")>>

\* Looks at the host's own directory: no call of the library.
content_list_local == <<>>

\* The list of the root: a path that was lost has another directory listed,
\* with no card in it.
ListCards == <<Path(<<>>)>> \o IfBad(Do("cards"), <<Do("crash")>>)

\* For every card listed: challenge it, and reset what refuses the challenge.
Challenge ==
  IF Cards = {} THEN <<>>
  ELSE <<Path(<<"crd0">>)>> \o IfBad(Do("challenge"), <<Do("authinfo")>>)

\* The rest of content_auth, which returns 1: then what the caller does after
\* a failure is left out.
Authenticated(last) ==
  ListCards \o IfGood(Do("ifok"), Challenge)
    \o <<Do("userid"), Op("authok", <<>>, FALSE, Len(last), 0)>>

\* Seeded fault: a refused challenge resets the medium in every case.
AuthResets(last) ==
  LET rest == Authenticated(last)
  IN <<Path(<<"drv0">>), Op("challenge", <<>>, FALSE, 1, 0),
       Op("authinfo", <<>>, FALSE, Len(rest), Len(rest))>> \o rest \o last

content_auth(last) ==
  <<Path(<<"drv0">>)>> \o IfGood(Do("challenge"), Authenticated(last)) \o last

content_reset ==
  <<Path(<<"drv0">>), Do("newkey"), Do("userid")>>
    \o content_auth(<<Do("authno")>>)

\* Seeded fault: content leaves the device where the sub-function left it.
NoWayBack(root) == <<>>

\* The end of content: back to the path shown, else to the medium.
BackToCwd(root) == IfBad(Path(s.cwd), <<Op("_setpath", root, FALSE, 0, 0)>>)
-----------------------------------------------------------------------------
(* exword.c                                                                *)

Failing == lib.reason \in {"UNPLUGGED", "ERROR"}
Usable == lib.up /\ ~Failing
Dropped == [dev EXCEPT !.session = NoSession]

\* The first call is done and n more are skipped.
After(n) == SubSeq(todo, 2 + n, Len(todo))

\* The local variables of a command end with it.
GoOn(rest, newok, newkey) ==
  /\ todo' = rest
  /\ IF rest = <<>> THEN cmd' = "none" /\ ok' = TRUE /\ key' = NoKey
     ELSE cmd' = cmd /\ ok' = newok /\ key' = newkey

\* The result r of the first call of todo, which leaves the device at d: what
\* the command keeps of it, and what it goes on to do.
Return(r, d) ==
  LET o == Head(todo)
      good == r = "SUCCESS"
  IN /\ GoOn(After(IF good THEN o.okskip ELSE o.badskip),
             CASE o.f = "unlock" -> good
               [] o.f = "cards"  -> good /\ d.session.path = <<>>
               [] OTHER          -> ok /\ good,
             IF o.f # "newkey" THEN key
             ELSE IF good THEN d.keys[d.session.path[1]] ELSE "zero")
     /\ s' = CASE o.f = "_setpath" /\ good -> [s EXCEPT !.cwd = o.p]
               [] o.f = "scan" /\ good     -> [s EXCEPT !.devs = Attached]
               [] OTHER                    -> s
     /\ UNCHANGED <<ram, ld>>

\* What a lost answer leaves in doubt: where the device is, whether it is
\* locked, whether it accepts the key.
Watched(f) ==
  CASE f \in {"setpath", "_setpath"} -> {"path"}
    [] f \in {"lock", "challenge"}   -> {f}
    [] OTHER                         -> {}

\* A request that makes the device d and its files st; r is what a device in
\* order answers.  The answer may be lost, before or after it took effect.
\* obex_to_exword_error: an internal server error ends the session, and
\* obex_ctx with its claim on the interface is left behind.
Transfer(f, r, d, st, torn) ==
  /\ todo # <<>> /\ Head(todo).f \in f
  /\ \/ /\ ~Usable
        /\ Return(IF Failing THEN "INTERNAL" ELSE "NOT_FOUND", dev)
        /\ UNCHANGED <<lib, dev, storage, env>>
     \/ /\ Usable /\ Head(todo).p # Null /\ dev.session.up
        /\ Return(r, d)
        /\ dev' = d /\ storage' = st
        /\ env' = [env EXCEPT !.lost = @ \ Watched(Head(todo).f)]
        /\ UNCHANGED lib
     \/ /\ Usable /\ Head(todo).p # Null /\ ~dev.session.up
        /\ Return("OTHER", dev)
        /\ UNCHANGED <<lib, dev, storage, env>>
     \/ /\ Usable /\ Head(todo).p # Null /\ dev.session.up /\ env.faults < MaxFaults
        /\ Return("OTHER", d)
        /\ dev' \in {dev, d} /\ storage' \in {storage, st} \cup torn
        /\ env' = [env EXCEPT !.lost = @ \cup Watched(Head(todo).f), !.faults = @ + 1]
        /\ UNCHANGED lib
     \/ /\ Usable /\ Head(todo).p # Null /\ dev.session.up /\ env.faults < MaxFaults
        /\ Return("INTERNAL", d)
        /\ lib' = [lib EXCEPT !.up = FALSE, !.reason = "ERROR", !.urb = "over"]
        /\ dev' = Dropped
        /\ env' = [env EXCEPT !.lost = {}, !.internal = TRUE, !.faults = @ + 1]
        /\ UNCHANGED storage

Request(f, r, d) == Transfer({f}, r, d, storage, {})

Here == dev.session.path
Answer(b) == IF b THEN "SUCCESS" ELSE "FORBIDDEN"
When(b, d) == IF b THEN d ELSE dev
OnMedium == Here # <<>>

\* A path that is refused leaves the device at its root.
exword_setpath ==
  /\ todo # <<>>
  /\ LET o == Head(todo)
         found == Len(o.p) < 2 \/ o.mk \/ o.p[1] \in dev.dirs
     IN Transfer({"setpath", "_setpath"}, IF found THEN "SUCCESS" ELSE "NOT_FOUND",
          IF found
          THEN [dev EXCEPT !.session.path = o.p,
                  !.dirs = IF Len(o.p) = 2 THEN @ \cup {o.p[1]} ELSE @]
          ELSE [dev EXCEPT !.session.path = <<>>],
          storage, {})

exword_list == Transfer({"list", "cards", "scan"}, "SUCCESS", dev, storage, {})
exword_get_model == Request("model", "SUCCESS", dev)
exword_get_capacity == Request("capacity", "SUCCESS", dev)
exword_get_file ==
  \E r \in {"SUCCESS", "NOT_FOUND"} : Request("download", r, dev)
exword_userid == Request("userid", "SUCCESS", dev)

\* _find and _read_admini: is the add-on in the index of this medium?
_find == Request("find", Answer(OnMedium /\ Here[1] \in dev.addons), dev)

\* Where the loader looks: text mode, root of a medium.
PayloadPath == s.mode = "text" /\ Len(Here) = 1
Stored(x) == [storage EXCEPT ![Here[1]] = x]

exword_send_file ==
  \/ Transfer({"upload"}, "SUCCESS", dev, storage, {})
  \/ \E v \in Versions :
       Transfer({"send"}, "SUCCESS", dev,
                IF PayloadPath THEN Stored(Packed(v)) ELSE storage,
                IF PayloadPath
                THEN {Stored(x) : x \in Torn(Packed(v), storage[Here[1]])}
                ELSE {})

exword_remove_file ==
  \/ Transfer({"delete"}, "SUCCESS", dev,
              IF PayloadPath THEN Stored(NoFile) ELSE storage, {})
  \/ LET may == ~dev.session.locked /\ OnMedium
     IN Request("remove", Answer(may),
          When(may, [dev EXCEPT !.addons = @ \ {Here[1]}, !.dirs = @ \ {Here[1]}]))

exword_sd_format ==
  Transfer({"format"}, Answer(Cards # {}),
           [dev EXCEPT !.addons = @ \ Cards, !.dirs = @ \ Cards],
           [m \in Media |-> IF m \in Cards THEN NoFile ELSE storage[m]], {})

exword_unlock ==
  Request("unlock", Answer(dev.session.authed),
          When(dev.session.authed, [dev EXCEPT !.session.locked = FALSE]))

exword_lock == Request("lock", "SUCCESS", [dev EXCEPT !.session.locked = TRUE])

\* Names the add-on to be written or removed; a name may be refused.
exword_cname ==
  \E may \in {FALSE, ~dev.session.locked /\ OnMedium} :
    Request("cname", Answer(may),
            When(may, [dev EXCEPT !.addons = @ \cup {Here[1]}]))

exword_cryptkey ==
  \E may \in {FALSE, ~dev.session.locked} : Request("cryptkey", Answer(may), dev)

exword_authchallenge ==
  LET may == OnMedium /\ dev.keys[Here[1]] = key
  IN Request("challenge", Answer(may),
             When(may, [dev EXCEPT !.session.authed = TRUE]))

\* Registers a new key for the medium and deletes all add-ons of the device.
exword_authinfo ==
  \E k \in Keys, f \in {"authinfo", "newkey"} :
    /\ OnMedium => k # dev.keys[Here[1]]
    /\ Request(f, Answer(OnMedium),
               When(OnMedium, [dev EXCEPT !.keys[Here[1]] = k,
                                 !.addons = {}, !.dirs = {}]))

\* The callback of the interrupt transfer, which fails when the device is gone.
\* (A transfer that times out or completes is submitted again: it flies on, or
\* the device has gone just before, see Unplug.)
exword_handle_interrupt(l) ==
  IF l.up /\ l.urb = "flying" /\ ~dev.session.up
  THEN [l EXCEPT !.urb = "over", !.reason = IF @ = "none" THEN "UNPLUGGED" ELSE @]
  ELSE l

\* libusb calls it also while a request of a command is running.
HandleEvents ==
  /\ todo # <<>>
  /\ lib' = exword_handle_interrupt(lib)
  /\ lib' # lib
  /\ UNCHANGED <<loaderVars, dev, s, todo, cmd, ok, key, env>>

\* The first submission of the transfer fails, which nobody looks at, or a stall
\* or an overflow ends it and nobody submits it again.
Stall ==
  /\ lib.urb = "flying" /\ dev.session.up /\ env.faults < MaxFaults
  /\ lib' = [lib EXCEPT !.urb = "over"]
  /\ env' = [env EXCEPT !.faults = @ + 1]
  /\ UNCHANGED <<loaderVars, dev, s, todo, cmd, ok, key>>
-----------------------------------------------------------------------------
(* The steps between the calls.                                            *)

Goes(f) == todo # <<>> /\ Head(todo).f = f
Local == UNCHANGED <<loaderVars, lib, dev, env>>

\* What is looked up on the host may be as needed or not.
OnHost ==
  /\ Goes("local")
  /\ \E n \in {0, Head(todo).badskip} : GoOn(After(n), ok, key)
  /\ UNCHANGED s /\ Local

IfOk ==
  /\ Goes("ifok")
  /\ GoOn(After(IF ok THEN 0 ELSE Head(todo).badskip), ok, key)
  /\ UNCHANGED s /\ Local

\* content_auth has returned 1: what a failed content_reset does is skipped.
AuthOk ==
  /\ Goes("authok")
  /\ s' = [s EXCEPT !.authenticated = TRUE]
  /\ GoOn(After(Head(todo).okskip), ok, key)
  /\ Local

AuthNo ==
  /\ Goes("authno")
  /\ s' = [s EXCEPT !.authenticated = FALSE]
  /\ GoOn(After(0), ok, key)
  /\ Local

\* The process is gone, and with it its handle on the device.
Ends ==
  /\ s' = [Prompt EXCEPT !.running = FALSE]
  /\ lib' = LibDown
  /\ dev' = Dropped
  /\ GoOn(<<>>, ok, key)
  /\ env' = [env EXCEPT !.lost = {}, !.internal = FALSE]
  /\ UNCHANGED <<loaderVars>>

Crash ==
  /\ todo # <<>>
  /\ Head(todo).f = "crash" \/ (Usable /\ Head(todo).p = Null)
  /\ Ends
-----------------------------------------------------------------------------
(* main.c                                                                  *)

Idle == s.running /\ todo = <<>>

\* process_command: a command of another mode is refused.
Typed(c, script) ==
  /\ Idle /\ s.connected
  /\ cmd' = c
  /\ todo' = script
  /\ UNCHANGED <<loaderVars, lib, dev, s, ok, env>>

\* obex_init: no interface to claim while an earlier handle still has it.
obex_claim_interface == dev.present /\ ~lib.claim

exword_connect ==
  IF obex_claim_interface
  THEN \/ /\ lib' = [up |-> TRUE, reason |-> "none", claim |-> TRUE, urb |-> "flying"]
          /\ dev' = [dev EXCEPT !.session = [NoSession EXCEPT !.up = TRUE]]
          /\ env' = [env EXCEPT !.lost = {}]
       \/ /\ env.faults < MaxFaults
          /\ env' = [env EXCEPT !.faults = @ + 1]
          /\ UNCHANGED <<lib, dev>>
  ELSE UNCHANGED <<lib, dev, env>>

connect ==
  /\ Idle /\ ~s.connected
  /\ exword_connect
  /\ IF lib'.up
     THEN /\ todo' = connect_script
          /\ s' = [s EXCEPT !.connected = TRUE, !.mode = env.mode]
          /\ cmd' = "connect"
     ELSE UNCHANGED <<todo, s, cmd>>
  /\ UNCHANGED <<loaderVars, ok, key>>

exword_disconnect(l) ==
  IF l.up THEN [up |-> FALSE, claim |-> FALSE, urb |-> "over",
                reason |-> IF l.reason = "none" THEN "NORMAL" ELSE l.reason]
  ELSE l

\* Seeded fault: the next session inherits the authentication.
DisconnectKeepsAuth(x) ==
  IF x.connected THEN [Prompt EXCEPT !.running = x.running,
                                     !.authenticated = x.authenticated]
  ELSE x

disconnect(x) ==
  IF x.connected THEN [Prompt EXCEPT !.running = x.running]
  ELSE x

Disconnect ==
  /\ Idle /\ s.connected
  /\ lib' = exword_disconnect(lib)
  /\ dev' = Dropped
  /\ s' = disconnect(s)
  /\ UNCHANGED <<loaderVars, todo, cmd, ok, key, env>>

quit == Idle /\ Ends

\* Seeded fault: an internal server error is not passed on.
NotifyUnpluggedOnly(reason) == reason = "UNPLUGGED"

disconnect_notify(reason) == reason \in {"UNPLUGGED", "ERROR"}

\* do_events, called while readline waits for input: exword_poll_disconnect
\* handles the events of libusb, and when there is a reason to notifies,
\* disconnects and forgets it.
do_events ==
  LET l == exword_handle_interrupt(lib)
      x == [s EXCEPT !.event = @ \/ disconnect_notify(l.reason)]
  IN /\ Idle
     /\ l.reason # "none" \/ s.event \/ l # lib
     /\ lib' = IF l.reason # "none"
               THEN [exword_disconnect(l) EXCEPT !.reason = "none"]
               ELSE IF x.event /\ x.connected THEN exword_disconnect(l) ELSE l
     /\ dev' = IF lib'.up THEN dev ELSE Dropped
     /\ s' = IF x.event THEN disconnect(x) ELSE x
     /\ UNCHANGED <<loaderVars, todo, cmd, ok, key, env>>

\* Commands of one request; model, capacity, list and get only ask.
Simple == /\ \E f \in {"model", "format", "delete", "send"} : Typed(f, <<Do(f)>>)
          /\ UNCHANGED key

\* Directories are visited where they matter, among add-ons.
Below == IF s.mode = "text" THEN {<<>>} ELSE {<<>>, <<"A">>}

\* The option mkdir, on or off at any time: setpath makes directories.
set == BOOLEAN

setpath ==
  /\ \E m \in s.devs, p \in Below, mkdir \in set :
       Typed("setpath", <<Op("_setpath", <<m>> \o p, mkdir, 1, 0),
                          Op("setpath", s.cwd, FALSE, 0, 0)>>)
  /\ UNCHANGED key

\* content: the medium of the path shown is the one worked on.
Root == <<s.cwd[1]>>

Content(c, script) ==
  /\ s.mode # "text"
  /\ Typed(c, IF s.cwd = Null THEN <<Do("crash")>> ELSE script \o BackToCwd(Root))

\* A user's key may be in users.dat, also one that is no longer in use:
\* _save_user_key never replaces the key of a name.
_load_user_key == Keys

content ==
  \/ /\ Content("list", content_list_remote(Root)) \/ Content("local", content_list_local)
     /\ UNCHANGED key
  \/ Content("reset", content_reset) /\ UNCHANGED key
  \* with the user's key in users.dat, or with one that is typed; the user is
  \* named, or read from user.inf on the device
  \/ \E k \in _load_user_key :
       /\ \/ Content("auth", content_auth(<<>>))
          \/ Content("auth", IfGood(Do("download"), content_auth(<<>>)))
       /\ key' = k
  \/ /\ s.authenticated
     /\ \/ Content("decrypt", content_decrypt(Root))
        \/ Content("install", content_install(Root))
        \/ Content("remove", content_remove(Root))
     /\ UNCHANGED key

\* The device is taken off the cable; a handle on it is of no use any more.
\* The interrupt transfer may have completed just before: submitting it again
\* fails, and exword_handle_interrupt does not look at that.
Unplug ==
  /\ dev.present
  /\ dev' = [Dropped EXCEPT !.present = FALSE]
  /\ \/ lib.up /\ UNCHANGED lib
     \/ dev.session.up /\ lib.urb = "flying" /\ lib' = [lib EXCEPT !.urb = "over"]
     \/ ~lib.up /\ lib' = [lib EXCEPT !.claim = FALSE]
  /\ env' = [env EXCEPT !.lost = {}, !.internal = FALSE]
  /\ UNCHANGED <<loaderVars, s, todo, cmd, ok, key>>

Replug ==
  /\ ~dev.present /\ ld.stage = "off"
  /\ dev' = [dev EXCEPT !.present = TRUE]
  /\ UNCHANGED <<loaderVars, lib, s, todo, cmd, ok, key, env>>

\* main and interactive: a new process.
interactive ==
  /\ ~s.running /\ ld.stage = "off"
  /\ s' = Prompt
  /\ UNCHANGED <<loaderVars, lib, dev, todo, cmd, ok, key, env>>

Call == exword_setpath \/ exword_list \/ exword_get_model \/ exword_get_capacity
          \/ exword_get_file \/ exword_userid \/ _find \/ exword_send_file
          \/ exword_remove_file \/ exword_sd_format \/ exword_unlock \/ exword_lock
          \/ exword_cname \/ exword_cryptkey \/ exword_authchallenge
          \/ exword_authinfo
Between == OnHost \/ IfOk \/ AuthOk \/ AuthNo \/ Crash
Command == connect \/ Disconnect \/ quit \/ Simple \/ setpath \/ content

\* The guide has the tool exited and the cable pulled before the loader runs.
AtDevice ==
  /\ ld.stage # "off" \/ (~s.running /\ ~dev.present)
  /\ LoaderNext
  /\ UNCHANGED toolVars

Next == Call \/ HandleEvents \/ Stall \/ Between \/ Command \/ do_events
          \/ Unplug \/ Replug \/ interactive \/ AtDevice

\* A call returns and the command goes on.  readline calls do_events when it
\* has waited a moment for input, and a user lets it wait again and again.
Spec == Init /\ [][Next]_vars /\ WF_vars(Call \/ Between) /\ SF_vars(do_events)
-----------------------------------------------------------------------------
(* Properties                                                              *)

\* At the prompt the device is where the prompt says, whatever path a content
\* operation or a refused setpath went to: the next send or delete works on
\* what the user sees.  Two cases are excepted: the last path request of the
\* session got no answer, as when the way back from a refused setpath is lost,
\* and a directory that is gone, which cannot be returned to.
PathAgrees ==
  Idle /\ s.connected /\ dev.session.up /\ "path" \notin env.lost =>
    /\ s.cwd # Null
    /\ Here = s.cwd \/ (Here = <<>> /\ Len(s.cwd) = 2 /\ s.cwd[1] \notin dev.dirs)

\* An installation or removal never leaves the device unlocked at the prompt,
\* also when requests of it are refused or get no answer - unless it is the
\* last lock request of the session that got none.
LockedWhenIdle ==
  Idle /\ dev.session.up /\ "lock" \notin env.lost => dev.session.locked

\* What belongs to a session ends with it, across disconnects, errors and
\* unplugs: the tool takes a session for authenticated only if the device
\* accepted a challenge in this very session, and without a session the
\* interface is free for the next connect - except after an internal server
\* error, where obex_ctx is never cleaned up.
SessionsSeparate ==
  /\ s.authenticated /\ lib.up /\ dev.session.up => dev.session.authed
  /\ ~lib.up /\ ~env.internal => ~lib.claim

\* auth resets the card, and with it all add-ons of the device: the key is the
\* one of the internal storage and not the one of the card.  content_auth does
\* not look at the results of exword_setpath and takes a challenge without an
\* answer for a refused one: after either, the key only has to be right for
\* some medium.
CardRefuses ==
  /\ \E m \in Attached : dev.keys[m] = key
  /\ \/ {"path", "challenge"} \cap env.lost # {}
     \/ dev.keys["drv0"] = key /\ \E m \in Cards : dev.keys[m] # key

\* Add-ons go only where the user asked for it.  remove takes them from the
\* medium shown, or, after a lost path request, from the one the device is at;
\* format from the card; reset from everywhere; auth too, but only if a card
\* refuses a key that was accepted: a wrong key loses nothing.
AddonsKept ==
  [][ \A m \in dev.addons \ dev'.addons :
        \/ cmd = "remove" /\ (m = s.cwd[1] \/ "path" \in env.lost)
        \/ cmd = "format" /\ m \in Cards
        \/ cmd = "reset"
        \/ cmd = "auth" /\ CardRefuses ]_vars

\* A session that has ended is noticed: the prompt does not stay connected to
\* a device that failed or was unplugged - as long as the interrupt transfer
\* was flying then.  One that had completed, stalled or could not be submitted
\* is not there to tell, and the prompt stays connected until the user gives
\* disconnect.
DropNoticed ==
  (s.connected /\ ~dev.session.up /\ (lib.urb = "flying" \/ lib.reason # "none"))
    ~> ~s.connected

\* docs/INSTALLING.md:87: authenticating with an existing key changes nothing
\* on the dictionary.
AuthChangesNothing ==
  [][ cmd = "auth" => dev'.addons = dev.addons /\ dev'.keys = dev.keys ]_vars
=============================================================================
