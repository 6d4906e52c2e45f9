------------------------------ MODULE FrameCheck ------------------------------
(***************************************************************************)
(* What the gateway makes of a frame before any handler sees it: the       *)
(* checks of packages/protocol/src/contracts.ts and the order in which     *)
(* inbound() of ws-gateway.ts asks them.  A frame is reduced to what they  *)
(* tell apart: its form, its type, its other keys, those of them whose     *)
(* value is out of its domain, and the version a hello asks for.           *)
(***************************************************************************)
EXTENDS Naturals, FiniteSets

RawFrame(form, t, keys, wrong, version) ==
  [form |-> form, t |-> t, keys |-> keys, wrong |-> wrong, version |-> version]

\* WRITE_FRAME_TYPES and WRITE_OPEN_FRAME_TYPES
WriteTypes == {"prompt", "send", "stop", "resume", "takeover", "write", "execute", "spawn", "kill"}
OpenTypes == {"prompt", "stop", "resume"}

\* The keys a type must have, and those it may have.
Fields(must, may) == [must |-> must, may |-> may]
Asking(must, may) == Fields({"requestId"} \cup must, may)
ReadFields(t) ==
  CASE t = "hello" -> Fields({"protocolVersion"}, {"token"})
    [] t = "ping" -> Fields({"nonce"}, {})
    [] t = "list-sessions" -> Asking({}, {"offset", "limit"})
    [] t = "subscribe" -> Asking({"file"}, {"cursor", "snapshotId", "historyNext"})
    [] t = "unsubscribe" -> Asking({"subscriptionId"}, {})
    [] t = "get-recovery" -> Asking({"file"}, {"offset", "evidenceHash"})
    [] t = "ui-answer" -> Asking({}, {"value", "confirmed", "cancelled"})
    [] t = "entry-get" -> Asking({"file", "entryId"}, {})
    [] t \in {"get-models", "get-roots"} -> Asking({}, {})
ReadTypes ==
  {"hello", "ping", "list-sessions", "subscribe", "unsubscribe", "get-recovery", "ui-answer",
   "entry-get", "get-models", "get-roots"}
WriteFields(t) ==
  CASE t = "prompt" -> Asking({"file", "text"}, {"generation", "model", "cwd"})
    [] t = "resume" -> Asking({"file", "intentId", "generation"}, {})
    [] t = "stop" -> Asking({"file"}, {})

\* requireExact()
RequireExact(f, fields) == fields.must \subseteq f.keys /\ f.keys \subseteq fields.must \cup fields.may
\* Keys that come together, or exclude each other.
Coherent(f) ==
  CASE f.t = "subscribe" -> /\ "snapshotId" \in f.keys <=> "historyNext" \in f.keys
                            /\ ~({"snapshotId", "cursor"} \subseteq f.keys)
    [] f.t = "ui-answer" -> Cardinality(f.keys \cap {"value", "confirmed", "cancelled"}) = 1
    [] OTHER -> TRUE

\* 0 for a frame that is in order, or the code it is refused with: the form,
\* then the version, then the rest.
ValidateClientFrame(f) ==
  IF f.t \in WriteTypes THEN 4405
  ELSE IF f.t \notin ReadTypes THEN 4404
  ELSE IF ~RequireExact(f, ReadFields(f.t)) \/ ~Coherent(f) THEN 4404
  ELSE IF f.t = "hello" /\ "protocolVersion" \notin f.wrong /\ f.version # 1 THEN 4403
  ELSE IF f.wrong \cap f.keys # {} THEN 4404 ELSE 0
ValidateWriteFrame(f) ==
  IF f.t \notin OpenTypes THEN 4405
  ELSE IF ~RequireExact(f, WriteFields(f.t)) \/ f.wrong \cap f.keys # {} THEN 4404 ELSE 0

\* The envelope, then whether it may speak at all, then the contents.
CheckFrame(f, authed) ==
  IF f.form = "binary" THEN 4403
  ELSE IF f.form # "json" THEN 4404
  ELSE IF ~authed /\ f.t # "hello" THEN 4401
  ELSE IF f.t \in WriteTypes THEN ValidateWriteFrame(f) ELSE ValidateClientFrame(f)
===============================================================================
