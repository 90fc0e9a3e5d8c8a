--------------------------- MODULE PushProviders ---------------------------
(***************************************************************************)
(* The computations of the push providers: how an answer of APNs is read   *)
(* and how the alert is cut to the payload limit                           *)
(* (src/src/services/push/apns-provider.ts), and how a ticket of Expo is   *)
(* read (src/src/services/push/expo-provider.ts).                          *)
(*                                                                         *)
(* A text is the sequence of its characters, each the number of bytes it   *)
(* takes in JSON.                                                          *)
(***************************************************************************)
EXTENDS Integers, Sequences

CONSTANTS
  PayloadLimit,   \* APNS_PAYLOAD_LIMIT_BYTES
  FixedBytes,     \* the bytes of a payload without text and data
  FallbackBytes   \* the bytes of the mark that data was dropped

ASSUME LimitAssumption ==
  /\ PayloadLimit \in Nat /\ FixedBytes \in Nat /\ FallbackBytes \in Nat
  /\ FixedBytes + FallbackBytes <= PayloadLimit

-----------------------------------------------------------------------------
(* Answers of APNs                                                         *)

ApnsStatuses == {200, 400, 403, 410, 413, 429, 503}
ApnsReasons == {"none", "permanent", "authentication", "other"}
ApnsResponses == [status : ApnsStatuses, reason : ApnsReasons]

\* An attempt's outcome; "rejected" is failed with the token to be disabled.
Outcomes == {"accepted", "failed", "rejected", "retryable"}

\* classifyApnsResponse: a reason counts before a throttling or server status.
ClassifyApnsResponse(r) ==
  CASE r.status = 200 -> "accepted"
    [] r.status # 200 /\ (r.status = 410 \/ r.reason = "permanent") -> "rejected"
    [] r.status \notin {200, 410} /\ r.reason # "permanent" ->
         IF r.status # 403 /\ r.reason # "authentication" /\ (r.status = 429 \/ r.status >= 500)
         THEN "retryable" ELSE "failed"

-----------------------------------------------------------------------------
(* The payload                                                             *)

\* The bytes of the first n characters, for every n.
PrefixBytes(text) ==
  LET bytes[n \in 0..Len(text)] == IF n = 0 THEN 0 ELSE bytes[n - 1] + text[n] IN bytes

Bytes(text) == PrefixBytes(text)[Len(text)]

PayloadBytes(title, body, route) == FixedBytes + route + Bytes(title) + Bytes(body)

\* truncateField: binary search for the longest beginning that fits, of low to
\* high characters; fits[n] says whether the first n do.
Search(fits, length) ==
  LET search[range \in (0..length) \X (0..length)] ==
        LET low == range[1]
            high == range[2]
            middle == (low + high + 1) \div 2
        IN IF low >= high THEN low
           ELSE search[IF fits[middle] THEN <<middle, high>> ELSE <<low, middle - 1>>]
  IN search

Truncate(text, fits) == SubSeq(text, 1, Search(fits, Len(text))[<<0, Len(text)>>])

\* Mutation: only the body is cut.
FitBodyOnly(title, body, route) ==
  LET bodyFits == [n \in 0..Len(body) |->
                     PayloadBytes(title, SubSeq(body, 1, n), route) <= PayloadLimit]
  IN [title |-> title, route |-> route,
      body |-> IF bodyFits[Len(body)] THEN body ELSE Truncate(body, bodyFits)]

\* fitAlertPayload: the body is cut first, then the title.
FitAlertPayload(title, body, route) ==
  LET bodyFits == [n \in 0..Len(body) |->
                     PayloadBytes(title, SubSeq(body, 1, n), route) <= PayloadLimit]
      cut == IF bodyFits[Len(body)] THEN body ELSE Truncate(body, bodyFits)
      titleFits == [n \in 0..Len(title) |->
                      PayloadBytes(SubSeq(title, 1, n), cut, route) <= PayloadLimit]
  IN [title |-> IF titleFits[Len(title)] THEN title ELSE Truncate(title, titleFits),
      body |-> cut, route |-> route]

\* buildApnsPayload: the data is replaced by a mark when no text makes it fit.
BuildApnsPayload(title, body, data) ==
  LET payload == FitAlertPayload(title, body, data) IN
  IF PayloadBytes(payload.title, payload.body, payload.route) <= PayloadLimit
  THEN payload
  ELSE FitAlertPayload(title, body, FallbackBytes)

\* A payload fits, keeps its data when any text beside them fits, and keeps the
\* longest text that fits, the whole title before any of the body.
IsBestPayload(p, title, body, data) ==
  LET left == PayloadLimit - PayloadBytes(p.title, p.body, p.route) IN
  /\ left >= 0
  /\ p.route = IF FixedBytes + data <= PayloadLimit THEN data ELSE FallbackBytes
  /\ p.body # body /\ p.title = title => left < body[Len(p.body) + 1]
  /\ p.title # title => p.body = <<>> /\ left < title[Len(p.title) + 1]

-----------------------------------------------------------------------------
(* Tickets of Expo                                                         *)

Tickets == {"ok", "DeviceNotRegistered", "error"}

\* applyExpoPushTicket; a ticket may be missing.
ApplyExpoPushTicket(ticket) ==
  CASE ticket = "ok" -> "accepted"
    [] ticket = "DeviceNotRegistered" -> "rejected"
    [] OTHER -> "failed"

=============================================================================
