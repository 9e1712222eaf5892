---------------------------- MODULE MCRegistry ----------------------------
\* A row written under each version of the header; the newest file was left
\* with its places wrapped as earlier spreadsheets and engines left them.
EXTENDS Registry

CONSTANTS b1, b2, q1, q2, a1

MCRow == [c \in {HEADER_V8[i] : i \in DOMAIN HEADER_V8} \cup {"location"} |->
    IF c \in {"skip_reason", "contact_name", "cl_path"} THEN Blank
    ELSE IF c = "apply_state" THEN Text("manual") ELSE Text(c)]

\* ['"[""US""]"', "Remote"]
Wrapped == Array(<<Quoted(Array(<<Text("US")>>)), Text("Remote")>>)

MCOldFile(v) == [header |-> Headers[v],
    lines |-> <<[i \in DOMAIN Headers[v] |->
        IF Headers[v][i] = "locations"
        THEN IF v = 8 THEN Wrapped ELSE Array(<<Text("US"), Text("Remote")>>)
        ELSE MCRow[Headers[v][i]]]>>]

NoFile == [header |-> <<>>, lines |-> <<>>]

MCOldFiles == {NoFile} \cup {MCOldFile(v) : v \in 1..8}

MCOldRow(v) == [c \in {HEADER_V8[i] : i \in DOMAIN HEADER_V8} |->
    IF c = "locations"
    THEN IF v < 3 THEN <<>> ELSE IF v < 5 THEN <<Text("location")>>
         ELSE <<Text("US"), Text("Remote")>>
    ELSE IF c \in {Headers[v][i] : i \in DOMAIN Headers[v]} THEN MCRow[c]
    ELSE IF c = "hm_outreach_status" THEN Text("To do") ELSE Blank]

MCOldTable == [f \in MCOldFiles |->
    IF f = NoFile THEN <<>> ELSE <<MCOldRow(CHOOSE v \in 1..8 : MCOldFile(v) = f)>>]

MCEdits == {<<"apply_state", Text("failed")>>, <<"locations", <<Text("CA")>>>>}

\* A title has quotation marks.
MCWithQuotes == {Text("title")}

\* The commands and the board only meet where the board reads a file; one
\* file is enough for that.
OneFileAtTheBoard ==
    (\E b \in Boards : board[b].pc # "off") => disk = MCOldFile(8) /\ tmp = NoTmp

\* Of two boards up at once nothing is said of the ratings.
UntilOverlap == ~overlapped

MCSymmetry == Permutations({b1, b2}) \cup Permutations({q1, q2})

=============================================================================
