------------------------- MODULE MCCursorPagination -------------------------
(***************************************************************************)
(* A small instance of CursorPagination for TLC: a list of each resource   *)
(* and, for each, one that differs in its user, its profile or its filter. *)
(***************************************************************************)
EXTENDS CursorPagination

CONSTANTS old, new

Request(resource, user, profile, narrow) ==
  [resource |-> resource, user |-> user, profile |-> profile, narrow |-> narrow]

SomeRequests ==
  {Request("profile-feed", "u", "p", n) : n \in {"near", "far"}}
    \cup {Request("chat-conversations", "u", p, "all") : p \in {"p", "q"}}
    \cup {Request("chat-messages", u, "p", "c") : u \in {"u", "v"}}
    \cup {Request("notifications", "u", "p", n) : n \in {"all", "unread"}}

\* The old secret alone, the new one before and without the old, none but the
\* authentication secret, and none at all.
Rotation ==
  {[cursor |-> old, auth |-> Blank, previous |-> <<>>],
   [cursor |-> new, auth |-> Blank, previous |-> <<Blank, old>>],
   [cursor |-> new, auth |-> old, previous |-> <<>>],
   [cursor |-> Blank, auth |-> new, previous |-> <<>>],
   [cursor |-> Blank, auth |-> Blank, previous |-> <<>>]}

=============================================================================
