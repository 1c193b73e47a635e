----------------------------- MODULE MCHttpFota -----------------------------
(***************************************************************************)
(* Small instances of the update over HTTP.                                *)
(***************************************************************************)
EXTENDS HttpFota

\* "moved" is refused as "notFound" is.
MostResponses == {"ok", "continue", "noLength", "chunked", "notFound",
                  "empty", "longLine"}
OneResponse   == {"ok"}
NoLengthLater == {"ok", "noLength"}
=============================================================================
