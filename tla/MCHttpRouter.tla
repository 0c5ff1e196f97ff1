---------------------------- MODULE MCHttpRouter ----------------------------
(* A small instance of HttpRouter for TLC. *)
EXTENDS HttpRouter, TLC

\* MaxUrl and MaxValue bound the length of a URL and of an argument's value.
CONSTANTS MaxUrl, MaxValue

MCHex == {"0", "2", "3", "5", "6", "B", "D"}

MCChars == {"/", "?", "&", "=", "+", "%", " ", "notes", "tag", "n", "o"} \cup MCHex

\* "o" is any other character.
MCCharOf ==
    [h \in MCHex \X MCHex |->
        CASE h = <<"2", "0">> -> " " [] h = <<"2", "5">> -> "%"
          [] h = <<"2", "6">> -> "&" [] h = <<"2", "B">> -> "+"
          [] h = <<"3", "D">> -> "=" [] OTHER -> "o"]

Keys == {<<"tag">>, <<"o">>}

\* One argument with any value, or two with few.
MCArguments ==
    LET one(chars, n) == {[key |-> k, value |-> v] : k \in Keys, v \in BoundedSeq(chars, n)}
    IN  {<<a>> : a \in one({"+", "%", "&", "=", " ", "2", "5", "B", "tag"}, MaxValue)}
        \cup {<<a, b>> : a, b \in one({"o", "&"}, 2)}

\* Any method on any URL, and any arguments of a listing.
MCRequests ==
    [method : Methods, url : BoundedSeq({"/", "notes", "n", "?", "tag"}, MaxUrl),
     args : {<<>>, <<[key |-> <<"tag">>, value |-> <<"o">>]>>}]
    \cup [method : {"GET"}, url : {<<"/", "notes">>}, args : MCArguments]
=============================================================================
