-------------------------- MODULE MCNotifications --------------------------
(***************************************************************************)
(* Small instances of Notifications for TLC, one after another: two        *)
(* sockets and no tokens; two Expo tokens, two APNs tokens that change     *)
(* places, and no sockets; and an APNs token with every short text.        *)
(***************************************************************************)
EXTENDS Notifications, TLC

CONSTANTS u1, u2, i1, i2, r1, r2, r3, r4, r5, n1, n2, s1, s2, ex1, ex2, ex3, aa, AA, bb

Request(u, provider, token, i) ==
  [user |-> u, provider |-> provider, token |-> token, ios |-> provider = "apns",
   environment |-> provider = "apns", installation |-> i]

\* r1 brings the token of i2 to i1.  Meanwhile r2 brings the token of i1, in
\* capitals and for another user, to i2, or r3 registers it for i1 again.  r4
\* takes an Expo token over; r5 lacks an installation and is refused.
Registrations ==
  r1 :> Request(u1, "apns", bb, i1) @@ r2 :> Request(u2, "apns", AA, i2)
    @@ r3 :> Request(u1, "apns", aa, i1)
    @@ r4 :> Request(u2, "expo", ex1, i1)
    @@ r5 :> Request(u1, "apns", aa, NoInstallation)
Small == [t \in Tokens |-> IF t = AA THEN aa ELSE t]

Recipients == n1 :> u1 @@ n2 :> u1
UsersOfSockets == s1 :> u1 @@ s2 :> u1
BothChannels == n1 :> {"in_app", "push"} @@ n2 :> {}

Widths == {1, 3}
Malforms == {<<"expo", ex3>>}

MaxText == 2
MaxData == 7
Texts == UNION {[1..n -> Widths] : n \in 0..MaxText}
AllContents == [title : Texts, body : Texts, data : 0..MaxData]
Plain == [title |-> <<1>>, body |-> <<1>>, data |-> 0]
Wordless == [n \in Notes |-> Plain]

Enabled(u, i) == [user |-> u, installation |-> i, enabled |-> TRUE]
NoRows == [k \in Keys |-> NoRow]

Only(S) == [s \in Sessions |-> IF s \in S THEN "idle" ELSE "done"]
NoNotes == [n \in Notes |-> "none"]
OneNote == n1 :> "none" @@ n2 :> "archived"
NoSockets == [s \in Sockets |-> "gone"]
Calm == [serial |-> TRUE, throws |-> FALSE, readers |-> {}]

\* Two sockets, a match and a message; no tokens.
InitSockets ==
  /\ rows = NoRows /\ at = Only({})
  /\ notes = NoNotes /\ content = Wordless
  /\ conn = [s \in Sockets |-> "new"]
  /\ Init /\ env.serial = env.throws /\ env.readers = {u1}

\* A match is pushed to two phones whose tokens change places.
InitPhones ==
  /\ rows = <<"apns", aa>> :> Enabled(u1, i1) @@ <<"apns", bb>> :> Enabled(u1, i2) @@ NoRows
  /\ at \in {Only({r1, r2}), Only({r1, r3})}
  /\ notes = OneNote /\ content = Wordless
  /\ conn = NoSockets /\ env = Calm
  /\ Init

\* A match is pushed to a phone and through Expo, to an invalid token also.
InitExpo ==
  /\ rows = <<"apns", aa>> :> Enabled(u1, i1)
            @@ [k \in {"expo"} \X {ex1, ex2, ex3} |-> Enabled(u1, NoInstallation)] @@ NoRows
  /\ at = Only({r4})
  /\ notes = OneNote /\ content = Wordless
  /\ conn = NoSockets /\ env = Calm
  /\ Init

\* A match with any text and data is pushed to a phone.
InitText ==
  /\ rows = <<"apns", aa>> :> Enabled(u1, i1) @@ NoRows
  /\ at = Only({r5})
  /\ notes = OneNote /\ content \in [Notes -> Contents] /\ content[n2] = Plain
  /\ conn = NoSockets /\ env = Calm
  /\ Init

Instances == (InitSockets \/ InitPhones \/ InitExpo \/ InitText) /\ [][Next]_vars

=============================================================================
