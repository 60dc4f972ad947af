------------------------------ MODULE Sessions ------------------------------
(***************************************************************************)
(* Sessions of the client: the accounts kept on a device, and what the calls   *)
(* of the language bindings do with the client's two timelines.               *)
(*                                                                         *)
(* The native bindings (python, nodejs, rust) keep their keys as files under   *)
(* a data directory, encrypted with a passphrase; the browser keeps them in    *)
(* IndexedDB.  The timelines themselves are counted in pages: what a page      *)
(* holds is the business of module Timeline, what posting, feedback and bios   *)
(* do that of their own modules.  A call is begun, with its arguments parsed   *)
(* and what it needs read, and completed under the lock of its timeline; calls *)
(* on one handle overlap.                                                   *)
(***************************************************************************)
EXTENDS Integers, Sequences, FiniteSets, SequencesExt

CONSTANTS
  Accounts,       \* key phrases other than the empty one, and their client ids
  Guest,          \* GUEST_CLIENT_ID: the account of the empty key phrase
  Phrases,        \* passphrases of the native key lockers
  SHandles,       \* client handles
  CallSlots,      \* calls that overlap on one handle
  HexArgs,        \* arguments that are 32 bytes of hex
  BadArgs,        \* arguments that are not
  TagArgs,        \* hashtags as typed
  TagId,          \* TagId[t]: the base id of a hashtag, lower case and without its #
  MaxSteps,       \* bound: what is asked for, of all handles
  Unset

ASSUME SessionsAssumption ==
  /\ Guest \notin Accounts
  /\ \A t \in TagArgs : TagId[t] \notin HexArgs
  /\ MaxSteps \in Nat

VARIABLES
  keyFiles,    \* native: the passphrase each stored key is encrypted with
  keyStore,    \* browser: the stored keys
  offered,     \* what the account screen of each place last listed
  sessions,    \* the client behind each handle
  follows,     \* what each account follows, in each place
  calls,       \* calls begun and not completed
  answer,      \* the last answer of a timeline
  given,       \* what was last given of the single and multiple timeline of each handle
  steps        \* calls made so far

sessionVars == <<keyFiles, keyStore, offered, sessions, follows, calls, answer, given, steps>>

Clients == Accounts \cup {Guest}

Places == {"disk", "browser"}

Place(binding) == IF binding = "wasm" THEN "browser" ELSE "disk"

-----------------------------------------------------------------------------
(* Key lockers.                                                             *)
\* The client id of a key phrase: Guest for the empty one.
ListDisk == {k \in Clients : keyFiles[k] # Unset} \ {Guest}

ListBrowser == keyStore \ {Guest}

\* Mutant: the guest is listed with the others.
ListKeysAll(place) == IF place = "disk" THEN {k \in Clients : keyFiles[k] # Unset} ELSE keyStore

ListKeys(place) == IF place = "disk" THEN ListDisk ELSE ListBrowser

\* A new manager has nothing loaded: switch reads the file and needs its passphrase.
CanSwitchDisk(k, phrase) == keyFiles[k] = phrase

\* Nothing is behind the handle, and then a client is made.
NoSession == [binding |-> "none"]

NewSession(binding, k, logged_in) ==
  [binding |-> binding, client |-> k, logged_in |-> logged_in, single |-> Unset, multiple |-> Unset]

OpenSession(h, s) ==
  /\ sessions' = [sessions EXCEPT ![h] = s]
  /\ given' = [given EXCEPT ![h] = [single |-> Unset, multiple |-> Unset]]

Asked == steps < MaxSteps /\ steps' = steps + 1

PythonCreateFromKeyphrase(h, k, phrase) ==
  /\ keyFiles' = [keyFiles EXCEPT ![k] = phrase]
  /\ OpenSession(h, NewSession("python", k, k # Guest))

NodejsCreateFromKeyphrase(h, k, phrase) ==
  /\ keyFiles' = [keyFiles EXCEPT ![k] = phrase]
  /\ OpenSession(h, NewSession("nodejs", k, k # Guest))

\* The rust builder keeps no logged_in.
RustBuildWithKeyphrase(h, k, phrase) ==
  /\ keyFiles' = [keyFiles EXCEPT ![k] = phrase]
  /\ OpenSession(h, NewSession("rust", k, Unset))

CreateFromKeyphrase(h, k, phrase) ==
  /\ sessions[h] = NoSession
  /\ Asked
  /\ \/ PythonCreateFromKeyphrase(h, k, phrase)
     \/ NodejsCreateFromKeyphrase(h, k, phrase)
     \/ RustBuildWithKeyphrase(h, k, phrase)
  /\ UNCHANGED <<keyStore, offered, follows, calls, answer>>

\* The browser stores the key, and then looks it up again.
WasmCreate(h, k) ==
  /\ sessions[h] = NoSession
  /\ Asked
  /\ keyStore' = keyStore \cup {k}
  /\ sessions' = [sessions EXCEPT ![h] = [binding |-> "opening", client |-> k]]
  /\ UNCHANGED <<keyFiles, offered, follows, calls, answer, given>>

WasmCreated(h) ==
  /\ sessions[h].binding = "opening"
  /\ LET k == sessions[h].client
     IN IF k \in keyStore THEN OpenSession(h, NewSession("wasm", k, k # Guest))
        ELSE sessions' = [sessions EXCEPT ![h] = NoSession] /\ UNCHANGED given
  /\ UNCHANGED <<keyFiles, keyStore, offered, follows, calls, answer, steps>>

PythonCreateFromStoredKey(h, k) == OpenSession(h, NewSession("python", k, TRUE))

NodejsCreateFromStoredKey(h, k) == OpenSession(h, NewSession("nodejs", k, TRUE))

RustBuildFromStoredKey(h, k) == OpenSession(h, NewSession("rust", k, Unset))

\* The account is picked from the last list, which may be out of date.
CreateFromStoredKey(h, k, phrase) ==
  /\ sessions[h] = NoSession
  /\ k \in offered["disk"]
  /\ Asked
  /\ CanSwitchDisk(k, phrase)
  /\ \/ PythonCreateFromStoredKey(h, k)
     \/ NodejsCreateFromStoredKey(h, k)
     \/ RustBuildFromStoredKey(h, k)
  /\ UNCHANGED <<keyFiles, keyStore, offered, follows, calls, answer>>

WasmCreateFromStoredKey(h, k) ==
  /\ sessions[h] = NoSession
  /\ k \in offered["browser"]
  /\ Asked
  /\ k \in keyStore
  /\ OpenSession(h, NewSession("wasm", k, TRUE))
  /\ UNCHANGED <<keyFiles, keyStore, offered, follows, calls, answer>>

IsOpen(h) == sessions[h].binding \notin {"none", "opening"}

ListStoredKeys(h) ==
  /\ IsOpen(h) /\ sessions[h].binding # "rust"
  /\ Asked
  /\ LET place == Place(sessions[h].binding) IN offered' = [offered EXCEPT ![place] = ListKeys(place)]
  /\ UNCHANGED <<keyFiles, keyStore, sessions, follows, calls, answer, given>>

\* The client of an open session keeps its key when the stored one is deleted.
DeleteKeys(h, gone) ==
  /\ IsOpen(h) /\ sessions[h].binding # "rust"
  /\ Asked
  /\ IF Place(sessions[h].binding) = "disk"
     THEN keyFiles' = [k \in Clients |-> IF k \in gone THEN Unset ELSE keyFiles[k]] /\ UNCHANGED keyStore
     ELSE keyStore' = keyStore \ gone /\ UNCHANGED keyFiles
  /\ UNCHANGED <<offered, sessions, follows, calls, answer, given>>

DeleteStoredKey(h, k) == DeleteKeys(h, {k})

DeleteAllStoredKeys(h) == DeleteKeys(h, Clients)

CloseHandle(h) ==
  /\ sessions[h] # NoSession
  /\ sessions' = [sessions EXCEPT ![h] = NoSession]
  /\ calls' = [calls EXCEPT ![h] = [c \in CallSlots |-> Unset]]
  /\ UNCHANGED <<keyFiles, keyStore, offered, follows, answer, given, steps>>

-----------------------------------------------------------------------------
(* The calls of each binding, by what they ask of the client.  follow is what   *)
(* the account follows, as sequences in the order they were read in.          *)
FromHexStr(arg) == IF arg \in HexArgs THEN arg ELSE Unset

FromHashtagStr(arg) == TagId[arg]

Fails == [op |-> "fails"]

Single(type, id) == IF id = Unset THEN Fails ELSE [op |-> "single", type |-> type, ids |-> <<id>>]

Multiple(type, ids) == [op |-> "multiple", type |-> type, ids |-> ids]

TagIds(tags) == [i \in DOMAIN tags |-> FromHashtagStr(tags[i])]

PythonTimelines(call, arg, me, follow) ==
  CASE call = "my_timeline" -> Single("User", me)
    [] call = "my_mentions" -> Single("Mention", me)
    [] call = "user" -> Single("User", FromHexStr(arg))
    [] call = "user_mentions" -> Single("Mention", FromHexStr(arg))
    [] call = "hashtag" -> Single("Hashtag", FromHashtagStr(arg))
    [] call = "replies" -> Single("ReplyToPost", FromHexStr(arg))
    [] call = "sequel" -> Single("Sequel", FromHexStr(arg))
    [] call = "followed_users" -> Multiple("User", follow.users)
    [] call = "followed_hashtags" -> Multiple("Hashtag", TagIds(follow.tags))

NodejsTimelines(call, arg, me, follow) ==
  CASE call = "my_timeline" -> Single("User", me)
    [] call = "my_mentions" -> Single("Mention", me)
    [] call = "user" -> Single("User", FromHexStr(arg))
    [] call = "user_mentions" -> Single("Mention", FromHexStr(arg))
    [] call = "hashtag" -> Single("Hashtag", FromHashtagStr(arg))
    [] call = "replies" -> Single("ReplyToPost", FromHexStr(arg))
    [] call = "sequel" -> Single("Sequel", FromHexStr(arg))
    [] call = "followed_users" -> Multiple("User", follow.users)
    [] call = "followed_hashtags" -> Multiple("Hashtag", TagIds(follow.tags))

WasmTimelines(call, arg, me, follow) ==
  CASE call = "my_timeline" -> Single("User", me)
    [] call = "my_mentions" -> Single("Mention", me)
    [] call = "hashtag" -> Single("Hashtag", FromHashtagStr(arg))
    [] call = "user" -> Single("User", FromHexStr(arg))
    [] call = "user_mentions" -> Single("Mention", FromHexStr(arg))
    [] call = "replies" -> Single("ReplyToPost", FromHexStr(arg))
    [] call = "sequel" -> Single("Sequel", FromHexStr(arg))
    [] call = "followed_users" -> Multiple("User", follow.users)
    [] call = "followed_hashtags" -> Multiple("Hashtag", TagIds(follow.tags))

Asks(binding, call, arg, me, follow) ==
  CASE binding = "python" -> PythonTimelines(call, arg, me, follow)
    [] binding = "nodejs" -> NodejsTimelines(call, arg, me, follow)
    [] binding = "wasm" -> WasmTimelines(call, arg, me, follow)

\* Settings: what the calls make of the followed users or hashtags.
FollowOneOf(set, x, is_followed) == IF is_followed THEN set \cup {x} ELSE set \ {x}

PythonFollows(call, args, is_followed, f) ==
  CASE call = "set_users" -> IF args \subseteq HexArgs THEN [f EXCEPT !.users = args] ELSE f
    [] call = "follow_user" ->
         IF args \subseteq HexArgs THEN [f EXCEPT !.users = FollowOneOf(@, CHOOSE x \in args : TRUE, is_followed)] ELSE f
    [] call = "set_hashtags" -> [f EXCEPT !.tags = args]
    [] call = "follow_hashtag" -> [f EXCEPT !.tags = FollowOneOf(@, CHOOSE x \in args : TRUE, is_followed)]

NodejsFollows(call, args, is_followed, f) ==
  CASE call = "set_users" -> IF args \subseteq HexArgs THEN [f EXCEPT !.users = args] ELSE f
    [] call = "follow_user" ->
         IF args \subseteq HexArgs THEN [f EXCEPT !.users = FollowOneOf(@, CHOOSE x \in args : TRUE, is_followed)] ELSE f
    [] call = "set_hashtags" -> [f EXCEPT !.tags = args]
    [] call = "follow_hashtag" -> [f EXCEPT !.tags = FollowOneOf(@, CHOOSE x \in args : TRUE, is_followed)]

WasmFollows(call, args, is_followed, f) ==
  CASE call = "set_users" -> IF args \subseteq HexArgs THEN [f EXCEPT !.users = args] ELSE f
    [] call = "follow_user" ->
         IF args \subseteq HexArgs THEN [f EXCEPT !.users = FollowOneOf(@, CHOOSE x \in args : TRUE, is_followed)] ELSE f
    [] call = "set_hashtags" -> [f EXCEPT !.tags = args]
    [] call = "follow_hashtag" -> [f EXCEPT !.tags = FollowOneOf(@, CHOOSE x \in args : TRUE, is_followed)]

Followed(h) == follows[Place(sessions[h].binding)][sessions[h].client]

Follow(h, call, args, is_followed) ==
  /\ IsOpen(h) /\ sessions[h].binding # "rust"
  /\ Asked
  /\ LET b == sessions[h].binding
         f == Followed(h)
         g == CASE b = "python" -> PythonFollows(call, args, is_followed, f)
                [] b = "nodejs" -> NodejsFollows(call, args, is_followed, f)
                [] b = "wasm" -> WasmFollows(call, args, is_followed, f)
     IN follows' = [follows EXCEPT ![Place(b)][sessions[h].client] = g]
  /\ UNCHANGED <<keyFiles, keyStore, offered, sessions, calls, answer, given>>

-----------------------------------------------------------------------------
(* The client.  The settings are read anew for every call, and what is           *)
(* followed comes out of a hash map in any order.                             *)
Orders(set) == {s \in [1 .. Cardinality(set) -> set] : \A i, j \in DOMAIN s : s[i] = s[j] => i = j}

BeginCall(h, c, call, arg) ==
  /\ IsOpen(h) /\ sessions[h].binding # "rust"
  /\ calls[h][c] = Unset
  /\ Asked
  /\ \E users \in Orders(Followed(h).users), tags \in Orders(Followed(h).tags) :
       LET follow == [users |-> users, tags |-> tags]
           op == Asks(sessions[h].binding, call, arg, sessions[h].client, follow)
       IN /\ op # Fails
          /\ calls' = [calls EXCEPT ![h][c] =
               [op |-> op, call |-> call, arg |-> arg, meant |-> PythonTimelines(call, arg, sessions[h].client, follow)]]
  /\ UNCHANGED <<keyFiles, keyStore, offered, sessions, follows, answer, given>>

\* Mutant: a timeline of another kind of bucket with the same id is taken for it.
SingleTimelineLockById(timeline, op) ==
  IF timeline # Unset /\ timeline.ids = op.ids THEN timeline ELSE [type |-> op.type, ids |-> op.ids, page |-> 0]

\* Mutant: the timeline is made anew for every call.
SingleTimelineLockAfresh(timeline, op) == [type |-> op.type, ids |-> op.ids, page |-> 0]

SingleTimelineLock(timeline, op) ==
  IF timeline # Unset /\ timeline.type = op.type /\ timeline.ids = op.ids THEN timeline
  ELSE [type |-> op.type, ids |-> op.ids, page |-> 0]

MultipleTimelineLock(timeline, op) ==
  IF timeline # Unset /\ timeline.type = op.type /\ timeline.ids = op.ids THEN timeline
  ELSE [type |-> op.type, ids |-> op.ids, page |-> 0]

GetMore(timeline) == [timeline EXCEPT !.page = @ + 1]

Answered(h, c, which, timeline) ==
  /\ sessions' = [sessions EXCEPT ![h][which] = GetMore(timeline)]
  /\ answer' = [handle |-> h, which |-> which, timeline |-> GetMore(timeline), meant |-> calls[h][c].meant,
                before |-> given[h][which]]
  /\ given' = [given EXCEPT ![h][which] = GetMore(timeline)]
  /\ calls' = [calls EXCEPT ![h][c] = Unset]
  /\ UNCHANGED <<keyFiles, keyStore, offered, follows, steps>>

SingleTimelineGetMore(h, c) ==
  /\ calls[h][c] # Unset /\ calls[h][c].op.op = "single"
  /\ Answered(h, c, "single", SingleTimelineLock(sessions[h].single, calls[h][c].op))

MultipleTimelineGetMore(h, c) ==
  /\ calls[h][c] # Unset /\ calls[h][c].op.op = "multiple"
  /\ Answered(h, c, "multiple", MultipleTimelineLock(sessions[h].multiple, calls[h][c].op))

TimelineReset(h, which) ==
  /\ IsOpen(h) /\ sessions[h][which] # Unset
  /\ Asked
  /\ sessions' = [sessions EXCEPT ![h][which] = Unset]
  /\ given' = [given EXCEPT ![h][which] = Unset]
  /\ UNCHANGED <<keyFiles, keyStore, offered, follows, calls, answer>>

SingleTimelineReset(h) == TimelineReset(h, "single")

MultipleTimelineReset(h) == TimelineReset(h, "multiple")

\* The client's storage is emptied for every account of the place; its keys are not.
ClientStorageReset(h) ==
  /\ IsOpen(h) /\ sessions[h].binding # "rust"
  /\ Asked
  /\ follows' = [follows EXCEPT ![Place(sessions[h].binding)] = [k \in Clients |-> [users |-> {}, tags |-> {}]]]
  /\ UNCHANGED <<keyFiles, keyStore, offered, sessions, calls, answer, given>>

-----------------------------------------------------------------------------
SessionsInit ==
  /\ keyFiles = [k \in Clients |-> Unset]
  /\ keyStore = {}
  /\ offered = [p \in Places |-> {}]
  /\ sessions = [h \in SHandles |-> NoSession]
  /\ follows = [p \in Places |-> [k \in Clients |-> [users |-> {}, tags |-> {}]]]
  /\ calls = [h \in SHandles |-> [c \in CallSlots |-> Unset]]
  /\ answer = Unset
  /\ given = [h \in SHandles |-> [single |-> Unset, multiple |-> Unset]]
  /\ steps = 0

NextAccount ==
  \E h \in SHandles :
    \/ \E k \in Clients, phrase \in Phrases : CreateFromKeyphrase(h, k, phrase)
    \/ \E k \in Clients : WasmCreate(h, k)
    \/ WasmCreated(h)
    \/ \E k \in Clients, phrase \in Phrases : CreateFromStoredKey(h, k, phrase)
    \/ \E k \in Clients : WasmCreateFromStoredKey(h, k)
    \/ ListStoredKeys(h)
    \/ \E k \in Clients : DeleteStoredKey(h, k)
    \/ DeleteAllStoredKeys(h)
    \/ CloseHandle(h)

NextFollow ==
  \E h \in SHandles :
    \/ \E args \in SUBSET (HexArgs \cup BadArgs) : Follow(h, "set_users", args, TRUE)
    \/ \E x \in HexArgs \cup BadArgs, b \in BOOLEAN : Follow(h, "follow_user", {x}, b)
    \/ \E args \in SUBSET TagArgs : Follow(h, "set_hashtags", args, TRUE)
    \/ \E x \in TagArgs, b \in BOOLEAN : Follow(h, "follow_hashtag", {x}, b)
    \/ ClientStorageReset(h)

NextTimeline ==
  \E h \in SHandles :
    \/ \E c \in CallSlots :
         \/ \E call \in {"my_timeline", "my_mentions", "followed_users", "followed_hashtags"} : BeginCall(h, c, call, "")
         \/ \E call \in {"user", "user_mentions", "replies", "sequel"}, x \in HexArgs \cup BadArgs : BeginCall(h, c, call, x)
         \/ \E x \in TagArgs : BeginCall(h, c, "hashtag", x)
         \/ SingleTimelineGetMore(h, c)
         \/ MultipleTimelineGetMore(h, c)
    \/ SingleTimelineReset(h)
    \/ MultipleTimelineReset(h)

SessionsNext == NextAccount \/ NextFollow \/ NextTimeline \/ UNCHANGED sessionVars

SessionsSpec == SessionsInit /\ [][SessionsNext]_sessionVars

-----------------------------------------------------------------------------
(* Whatever calls overlap on a handle, and from whichever binding, the page that  *)
(* a call is answered with is of the bucket type and the ids it asks for: a       *)
(* timeline that another call left in the client is not read on.                *)
AnswerBelongs ==
  answer # Unset => answer.timeline.type = answer.meant.type /\ answer.timeline.ids = answer.meant.ids

(* A reader that keeps asking for one timeline gets its pages one after another,  *)
(* from the first: none is left out and none is given twice, unless another       *)
(* timeline was read or reset in between.                                     *)
PagesInOrder ==
  answer # Unset /\ answer.which = "single" =>
    LET t == answer.timeline
        b == answer.before
    IN t.page = IF b # Unset /\ b.type = t.type /\ b.ids = t.ids THEN b.page + 1 ELSE 1

(* A session counts as logged in exactly when it is not the guest's, although the  *)
(* guest's key is stored with the others: an account picked from the list is        *)
(* never the guest.                                                        *)
LoggedInIsOwn ==
  \A h \in SHandles : IsOpen(h) /\ sessions[h].binding # "rust" => (sessions[h].logged_in <=> sessions[h].client # Guest)

(* The timeline of those followed is started over only when what is followed has     *)
(* changed: the comment on multiple_timeline_lock says that it is blown away "if     *)
(* our base_ids have changed".                                                *)
FollowedContinues ==
  answer # Unset /\ answer.which = "multiple" /\ answer.before # Unset =>
    LET t == answer.timeline
        b == answer.before
    IN t.type = b.type /\ ToSet(t.ids) = ToSet(b.ids) => t.page = b.page + 1

\* Calls that overlap on a handle get the pages of their own timeline in order, and a
\* session that counts as logged in is not the guest's.
TimelinesOwn == AnswerBelongs /\ PagesInOrder /\ LoggedInIsOwn
=============================================================================
