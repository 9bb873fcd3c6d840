------------------------ MODULE MC_ContentNegotiation ------------------------
EXTENDS ContentNegotiation

MT(ty, subty, suffix, param) == [ty |-> ty, subty |-> subty, suffix |-> suffix, param |-> param]

Json        == MT("application", "json", None, "none")
JsonCharset == MT("application", "json", None, "charset=utf-8")
GqlResponse == MT("application", "graphql-response", "json", "none")
GqlNoSuffix == MT("application", "graphql-response", None, "none")
Star        == MT("*", "*", None, "none")
MixedDefer  == MT("multipart", "mixed", None, "deferSpec=20220824")
MixedSub    == MT("multipart", "mixed", None, "subscriptionSpec=1.0")
MixedPlain  == MT("multipart", "mixed", None, "none")
TextHtml    == MT("text", "html", None, "none")

\* Header values: one media type, a non-ASCII value, a value whose list
\* has a malformed item, and two-element lists.
Value(items) == [valid |-> TRUE, items |-> items]
NonAscii == [valid |-> FALSE, items |-> <<>>]

AcceptValues ==
    {Value(<<m>>) : m \in {Json, GqlResponse, GqlNoSuffix, Star, MixedDefer, MixedSub,
                           MixedPlain, TextHtml}}
    \cup {NonAscii, Value(<<Malformed>>), Value(<<Malformed, Json>>),
          Value(<<MixedDefer, MixedSub>>)}

ContentTypeValues ==
    {Value(<<JsonCharset>>), Value(<<GqlResponse>>), Value(<<GqlNoSuffix>>),
     Value(<<TextHtml>>), NonAscii, Value(<<Malformed, Json>>)}

UpTo2(S) == {<<>>} \cup {<<v>> : v \in S} \cup {<<v, w>> : v, w \in S}

MCRequests ==
    [method : {"GET", "POST"},
     contentType : {<<>>} \cup {<<v>> : v \in ContentTypeValues},
     accept : UpTo2(AcceptValues),
     op : {"query", "defer", "subscription"}]
=============================================================================
