------------------------------ MODULE MCObjects ------------------------------
(***************************************************************************)
(* The objects of the small instances.  Every copy stands for a situation  *)
(* the tool's documentation names: a plain upload, a multipart one, an     *)
(* SSE one whose ETag looks like an MD5, and copies that differ from the   *)
(* plain one in a single attribute.                                        *)
(***************************************************************************)
EXTENDS Integers, TLC

NoHeaders == <<>>

Copy(size, etag, headers, contentType, tags, content) ==
  [size |-> size, etag |-> etag, headers |-> headers,
   contentType |-> contentType, tags |-> tags, content |-> content]

Plain      == Copy(1, "md5A", NoHeaders, "text", {}, "A")
Multipart  == Copy(1, "mpA",  NoHeaders, "text", {}, "A")
Changed    == Copy(1, "md5B", NoHeaders, "text", {}, "B")
ChangedMP  == Copy(1, "mpB",  NoHeaders, "text", {}, "B")
Longer     == Copy(2, "mpC",  NoHeaders, "text", {}, "C")
Sealed     == Copy(1, "hexA", "sse" :> "AES256", "text", {}, "A")
Stamped    == Copy(1, "md5A", "meta-stamp" :> "1", "text", {}, "A")
Described  == Copy(1, "md5A", "meta-owner" :> "1", "text", {}, "A")
Retyped    == Copy(1, "md5A", NoHeaders, "html", {}, "A")
Tagged     == Copy(1, "md5A", "tagging-count" :> "1", "text", {"k=v"}, "A")

Md5ETagsDef        == {"md5A", "md5B", "hexA"}
SSEHeadersDef      == {"sse"}
SeparateHeadersDef == {"tagging-count"}

PairOf(s, t) == "source" :> s @@ "target" :> t

Config(level, deep, tags, cap, concurrency, listMatched) ==
  [Level |-> level, DeepOnInconclusive |-> deep, CheckTags |-> tags,
   IgnoreMetaKeys |-> {"meta-stamp"}, MaxDeepBytes |-> cap,
   Concurrency |-> concurrency, ListMatched |-> listMatched]
=============================================================================
