--------------------------- MODULE ResponseBuffer ---------------------------
(***************************************************************************)
(* The response buffer of response.c: one for all connections of the       *)
(* process, and written in place.  Its head never changes but for the HTTP *)
(* version and the numbers; what follows the words "Content-Type: " is     *)
(* kept in cells of two bytes, which suits the lengths of the MIME types,  *)
(* a header or cookie line being one cell.                                 *)
(***************************************************************************)
EXTENDS Integers, Sequences, SequencesExt

(* resp_html, resp_plain, resp_json and resp_mrp.                          *)
MimeTypes == {"html", "text", "json", "mrp"}

(* mime_type_end: the cells up to and with the blank line of each type.    *)
MimeEnd == [text |-> 7, json |-> 10, mrp |-> 12, html |-> 14]

Blank == "blank line"
MimeCells(mime) == [i \in 1 .. MimeEnd[mime] - 2 |-> mime] \o <<"end of line", Blank>>

(* The buffer with cells put at place at: it is as long as what was ever   *)
(* written.                                                                *)
Put(b, at, cells) ==
    LET last == at + Len(cells) - 1
    IN  [b EXCEPT !.cells =
            [i \in 1 .. (IF last > Len(@) THEN last ELSE Len(@)) |->
                IF i \in at .. last THEN cells[i - at + 1] ELSE @[i]]]

(* response_setupResponseBuffer                                            *)
InitialBuffer == [cells |-> MimeCells("html"), mime |-> "html", version |-> 1]

SetMimeType(b, mime) ==
    IF mime = b.mime THEN b ELSE [Put(b, 1, MimeCells(mime)) EXCEPT !.mime = mime]

(* The headers or cookies of a handler: None, what a new Response has, when *)
(* it never asked for them, else their lines.                              *)
None == <<"none">>

(* response_add_headers and response_add_cookies: from the blank line on,  *)
(* and nothing at all for an empty dict.                                   *)
AddLines(b, end, lines) ==
    IF lines = <<>> \/ lines = None THEN [buffer |-> b, end |-> end]
    ELSE [buffer |-> Put(b, end, Append(lines, Blank)), end |-> end + Len(lines)]

(* response_updateHeaders: the blank line is written anew when there are   *)
(* no headers.                                                             *)
RestoredNever(b, headers) == b
Restored(b, headers) == IF headers = None THEN Put(b, MimeEnd[b.mime], <<Blank>>) ELSE b

UpdateHeaders(b, headers, cookies) ==
    LET withHeaders == AddLines(Restored(b, headers), MimeEnd[b.mime], headers)
    IN  AddLines(withHeaders.buffer, withHeaders.end, cookies)

(* protocol_write_response: the body goes behind the headers; the version  *)
(* of a request of HTTP/1.0 stays in the buffer.                           *)
WriteResponse(b, headers, cookies, body, minor) ==
    LET u == UpdateHeaders(b, headers, cookies)
        w == Put(u.buffer, u.end + 1, body)
    IN  [buffer  |-> IF minor = 0 THEN [w EXCEPT !.version = 0] ELSE w,
         version |-> IF minor = 0 THEN 0 ELSE w.version,
         head    |-> SubSeq(w.cells, 1, u.end),
         body    |-> SubSeq(w.cells, u.end + 1, u.end + Len(body))]

(* What a client should read.                                              *)
Lines(given) == IF given = None THEN <<>> ELSE given

RightHead(mime, headers, cookies) ==
    SubSeq(MimeCells(mime), 1, MimeEnd[mime] - 1) \o Lines(headers) \o Lines(cookies) \o <<Blank>>
=============================================================================
