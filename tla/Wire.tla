-------------------------------- MODULE Wire --------------------------------
(***************************************************************************)
(* The messages of the wire (ikigai/wire.py) and how a message of one      *)
(* version is put for a peer of an older one.  What the encoder writes and *)
(* what the decoder reads are two families of layouts, as they are two     *)
(* families of functions in the code.  The decoder of version v is the one *)
(* this package had at that version: it knows the variants up to v.        *)
(***************************************************************************)
EXTENDS Postcard

(* Entries of a table whose variants came with version v. *)
Since(v, version, table) == IF version >= v THEN table ELSE <<>>
-----------------------------------------------------------------------------
(* What the encoder writes: _put_request to _put_issue_with.  A choice is   *)
(* keyed by the variant's name.                                             *)

PutArgRef == Choice([Reference |-> <<0, <<Str>>>>, Inline |-> <<1, <<Raw>>>>,
                     Content |-> <<2, <<Str>>>>])

PutRequest == Fields(<<Below(5), Str, Table(PutArgRef, "")>>)

PutCapability == Choice([Root |-> <<0, <<>>>>, Scoped |-> <<1, <<Names>>>>])

PutExpiry == Choice([Always |-> <<0, <<>>>>, At |-> <<1, <<Num(Bits64)>>>>,
                     Never |-> <<2, <<>>>>])

PutRepresentation == Fields(<<Str, Table(Str, ""), Raw, PutExpiry>>)

PutSpaceEntry == Fields(<<Str, Str, Opt(Str)>>)

PutWireError ==
  Choice([Unresolved |-> <<0, <<Str>>>>, MissingArgument |-> <<1, <<Str>>>>,
          InvalidArgument |-> <<2, <<Str, Str>>>>, Endpoint |-> <<3, <<Str>>>>,
          Denied |-> <<4, <<Str>>>>, NotFound |-> <<5, <<Str>>>>,
          Timeout |-> <<6, <<Str>>>>, Unavailable |-> <<7, <<Str>>>>,
          Conflict |-> <<8, <<Str>>>>, DepthExceeded |-> <<9, <<Num(Bits32), Str>>>>,
          RetryAfter |-> <<10, <<Opt(Num(Bits64)), Str>>>>, OverBudget |-> <<11, <<Str>>>>,
          Refused |-> <<12, <<Str>>>>, Unsupported |-> <<13, <<Opt(Below(5)), Str>>>>])

PutTraceEvent ==
  Fields(<<Str, Str, Opt(Num(Bits64)), Opt(Num(Bits64)), Flag, Num(Bits64),
           Opt(Num(Bits64)), Opt(Many(Str)), Many(Fields(<<Str, Str>>))>>)

PutTraceContext == Fields(<<Num(Bits64), Opt(Num(Bits64))>>)

PutIssueWith == Fields(<<Opt(PutTraceContext), Opt(Num(Bits32)), Opt(Num(Bits64))>>)

PutCall ==
  Choice([Issue |-> <<0, <<PutRequest>>>>, IsCached |-> <<1, <<PutRequest>>>>,
          Entries |-> <<2, <<>>>>, IssueAs |-> <<3, <<PutRequest, PutCapability>>>>,
          IssueTraced |-> <<4, <<PutRequest, PutCapability, PutTraceContext>>>>,
          IssueWith |-> <<5, <<PutRequest, PutCapability, PutIssueWith>>>>])

PutReply ==
  Choice([Resolved |-> <<0, <<PutRepresentation, Below(3)>>>>, Cached |-> <<1, <<Flag>>>>,
          Entries |-> <<2, <<Opt(Many(PutSpaceEntry))>>>>, Error |-> <<3, <<Str>>>>,
          ResolvedTraced |-> <<4, <<PutRepresentation, Below(3), Many(PutTraceEvent)>>>>,
          ErrorTyped |-> <<5, <<PutWireError>>>>])
-----------------------------------------------------------------------------
(* What the decoder reads: _get_arg_ref to _get_issue_with.  A choice is    *)
(* keyed by the variant's index.                                            *)

Variants(list) == [i \in 0 .. (Len(list) - 1) |-> list[i + 1]]

GetArgRef == Choice(Variants(<< <<"Reference", <<Str>>>>, <<"Inline", <<Raw>>>>,
                                <<"Content", <<Str>>>> >>))

GetRequest == Fields(<<Below(5), Str, Table(GetArgRef, "refused")>>)

GetCapability == Choice(Variants(<< <<"Root", <<>>>>, <<"Scoped", <<Names>>>> >>))

GetExpiry == Choice(Variants(<< <<"Always", <<>>>>, <<"At", <<Num(Bits64)>>>>,
                                <<"Never", <<>>>> >>))

GetRepresentation == Fields(<<Str, Table(Str, "last"), Raw, GetExpiry>>)

GetSpaceEntry == Fields(<<Str, Str, Opt(Str)>>)

(* A newer peer's failure reads as the base class. *)
GetWireError(v) ==
  Open(Variants(
    << <<"Unresolved", <<Str>>>>, <<"MissingArgument", <<Str>>>>,
       <<"InvalidArgument", <<Str, Str>>>>, <<"Endpoint", <<Str>>>>,
       <<"Denied", <<Str>>>>, <<"NotFound", <<Str>>>>,
       <<"Timeout", <<Str>>>>, <<"Unavailable", <<Str>>>> >>
    \o Since(ConflictSince, v, << <<"Conflict", <<Str>>>> >>)
    \o Since(IssueWithSince, v,
         << <<"DepthExceeded", <<Num(Bits32), Str>>>>,
            <<"RetryAfter", <<Opt(Num(Bits64)), Str>>>>, <<"OverBudget", <<Str>>>>,
            <<"Refused", <<Str>>>>, <<"Unsupported", <<Opt(Below(5)), Str>>>> >>)),
    <<"Endpoint", Unnamed>>)

GetTraceEvent ==
  Fields(<<Str, Str, Opt(Num(Bits64)), Opt(Num(Bits64)), Flag, Num(Bits64),
           Opt(Num(Bits64)), Opt(Many(Str)), Many(Fields(<<Str, Str>>))>>)

GetTraceContext == Fields(<<Num(Bits64), Opt(Num(Bits64))>>)

GetIssueWith == Fields(<<Opt(GetTraceContext), Opt(Num(Bits32)), Opt(Num(Bits64))>>)

GetCall(v) ==
  Choice(Variants(
    << <<"Issue", <<GetRequest>>>>, <<"IsCached", <<GetRequest>>>>, <<"Entries", <<>>>>,
       <<"IssueAs", <<GetRequest, GetCapability>>>>,
       <<"IssueTraced", <<GetRequest, GetCapability, GetTraceContext>>>> >>
    \o Since(IssueWithSince, v,
         << <<"IssueWith", <<GetRequest, GetCapability, GetIssueWith>>>> >>)))

GetReply(v) ==
  Choice(Variants(
    << <<"Resolved", <<GetRepresentation, Below(3)>>>>, <<"Cached", <<Flag>>>>,
       <<"Entries", <<Opt(Many(GetSpaceEntry))>>>>, <<"Error", <<Str>>>>,
       <<"ResolvedTraced", <<GetRepresentation, Below(3), Many(GetTraceEvent)>>>>,
       <<"ErrorTyped", <<GetWireError(v)>>>> >>))

EncodeCall(call)         == Put(PutCall, call)
EncodeReply(reply, peer) == Put(PutReply, DowngradeReply(reply, peer))
DecodeCall(v, payload)   == Exactly(GetCall(v), payload)
DecodeReply(v, payload)  == Exactly(GetReply(v), payload)
=============================================================================
