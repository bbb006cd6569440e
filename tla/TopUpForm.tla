------------------------------- MODULE TopUpForm -------------------------------
(***************************************************************************)
(* components/TopUpForm.tsx: the form that looks up the nickname of the    *)
(* game account while the customer types, 800 ms after the last key, and   *)
(* sends it with the order.  Names are those of accounts: the nickname of  *)
(* uid u is u.                                                             *)
(***************************************************************************)
EXTENDS FiniteSets

CONSTANTS
    Uids,      \* account ids (with their zone) that are valid
    Lookups,   \* bound: calls of check-id under way at a time
    None       \* null, and any text that is no valid account id

VARIABLES
    uid,        \* what is typed
    nickname, nicknameStatus,
    debounce,   \* whether the timer is set
    refresh,    \* needsRefresh: unset, set, or set and rendered
    lookup,     \* the calls under way: the id asked for, aborted or not
    sent        \* the last order sent, and whether the timer was to run

formVars == <<uid, nickname, nicknameStatus, debounce, refresh, lookup, sent>>

NoLookup == [uid |-> None, aborted |-> FALSE]

FormTypeOK ==
    /\ uid \in Uids \cup {None} /\ nickname \in Uids \cup {None}
    /\ nicknameStatus \in {"idle", "checking", "verified", "not_found"}
    /\ debounce \in BOOLEAN
    /\ refresh \in {"unset", "set", "rendered"}
    /\ lookup \in [Lookups -> [uid : Uids \cup {None}, aborted : BOOLEAN]]
    /\ sent \in [uid : Uids \cup {None}, nickname : Uids \cup {None}, typing : BOOLEAN]

\* once the effects of the first render have run
FormInit ==
    /\ uid = None /\ nickname = None /\ nicknameStatus = "idle"
    /\ debounce = FALSE /\ refresh = "rendered"
    /\ lookup = [l \in Lookups |-> NoLookup]
    /\ sent = [uid |-> None, nickname |-> None, typing |-> FALSE]

-----------------------------------------------------------------------------

lookupVars == <<uid, nickname, nicknameStatus, debounce, refresh, lookup>>

Pending == {l \in Lookups : lookup[l].uid # None}
AbortAll == [l \in Lookups |-> [lookup[l] EXCEPT !.aborted = l \in Pending]]

\* the calls under way are left to answer
RefreshOverLookup(u) ==
    /\ debounce' = (u # None)
    /\ IF u = None THEN nickname' = None /\ nicknameStatus' = "idle"
                   ELSE UNCHANGED <<nickname, nicknameStatus>>
    /\ UNCHANGED lookup

\* the effect of needsRefresh on the id u: what is valid sets the timer and
\* leaves the nickname of what was typed before
Refresh(u) ==
    /\ debounce' = (u # None)
    /\ lookup' = AbortAll
    /\ IF u = None THEN nickname' = None /\ nicknameStatus' = "idle"
                   ELSE UNCHANGED <<nickname, nicknameStatus>>

\* needsRefresh is set; where it was set already, its effect runs at once
Type(u) ==
    /\ u # uid
    /\ uid' = u
    /\ \/ refresh = "rendered" /\ Refresh(u) /\ UNCHANGED refresh
       \/ /\ refresh # "rendered"
          /\ refresh' = "set"
          /\ UNCHANGED <<nickname, nicknameStatus, debounce, lookup>>
    /\ UNCHANGED sent

\* the next render
Rerender ==
    /\ refresh = "set"
    /\ refresh' = "rendered"
    /\ Refresh(uid)
    /\ UNCHANGED <<uid, sent>>

DebounceEnds ==
    /\ debounce
    /\ debounce' = FALSE /\ refresh' = "unset"
    /\ nickname' = None /\ nicknameStatus' = "checking"
    /\ \E l \in Lookups \ Pending : lookup' = [lookup EXCEPT ![l] = [NoLookup EXCEPT !.uid = uid]]
    /\ UNCHANGED <<uid, sent>>

\* found, not found, or failed
LookupAnswers(l) ==
    /\ l \in Pending
    /\ lookup' = [lookup EXCEPT ![l] = NoLookup]
    /\ \/ lookup[l].aborted /\ UNCHANGED <<nickname, nicknameStatus>>
       \/ /\ ~lookup[l].aborted
          /\ \/ nickname' = lookup[l].uid /\ nicknameStatus' = "verified"
             \/ nicknameStatus' = "not_found" /\ UNCHANGED nickname
    /\ UNCHANGED <<uid, debounce, refresh, sent>>

\* a refusal brings the customer back to the form
HandleSubmit ==
    /\ uid # None
    /\ sent' = [uid |-> uid, nickname |-> nickname, typing |-> debounce \/ refresh = "set"]
    /\ UNCHANGED lookupVars

FormNext ==
    \/ \E u \in Uids \cup {None} : Type(u)
    \/ Rerender
    \/ DebounceEnds
    \/ \E l \in Lookups : LookupAnswers(l)
    \/ HandleSubmit

FormSpec == FormInit /\ [][FormNext]_formVars

-----------------------------------------------------------------------------

\* "Nickname auto-lookup (debounced 800 ms)": however the answers of check-id
\* overtake each other and what is typed, a nickname that is shown is that of
\* the account id in the form, or the timer of a new lookup is running or about
\* to be set; an order carries the nickname of another account only if it was
\* sent before that timer ended.
NicknameBelongsToUid ==
    /\ nickname \in {uid, None} \/ debounce \/ refresh = "set"
    /\ sent.nickname \in {sent.uid, None} \/ sent.typing
=============================================================================
