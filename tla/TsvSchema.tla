----------------------------- MODULE TsvSchema -----------------------------
(***************************************************************************)
(* The file applications.tsv: eight versions of its header, one reader for *)
(* each, one writer that always writes the newest, and the cell that holds *)
(* a row's places.  A file is its header and its lines of cells; a row in  *)
(* memory is a record of its columns.                                      *)
(***************************************************************************)
EXTENDS Naturals, Sequences, SequencesExt, Subsequences

-----------------------------------------------------------------------------
(* Cells: texts, and the JSON array of the places; a spreadsheet quotes    *)
(* those that hold quotation marks as CSV fields.                          *)

Text(t) == [kind |-> "text", of |-> t]
Array(cells) == [kind |-> "array", of |-> cells]
Quoted(cell) == [kind |-> "quoted", of |-> cell]
Blank == Text("")

EncodeLocations(places) == Array(Only(places, Range(places) \ {Blank}))

UnwrapCsvQuoted(cell) == IF cell.kind = "quoted" THEN cell.of ELSE cell

LooksLikeEncodedArray(cell) == cell.kind # "text"

\* One level of a cell's array.
DecodeLocationsAt(cell) ==
    LET c == UnwrapCsvQuoted(cell)
    IN  IF c = Blank THEN <<>> ELSE IF c.kind = "array" THEN c.of ELSE <<c>>

\* The places that are arrays themselves, one level further.
Deeper(places) ==
    FlattenSeq([i \in DOMAIN places |->
        IF LooksLikeEncodedArray(places[i]) THEN DecodeLocationsAt(places[i]) ELSE <<places[i]>>])

\* MAX_LOCATION_UNWRAP_DEPTH is 3.
DecodeLocations(cell) == Deeper(Deeper(Deeper(DecodeLocationsAt(cell))))

-----------------------------------------------------------------------------
(* Headers *)

Posting   == <<"key", "source", "jobId", "companyName", "title", "url">>
Documents == <<"notion_page_id", "resume_ver", "cl_key">>
Salary    == <<"salary_min", "salary_max", "cl_path">>
Stamps    == <<"createdAt", "updatedAt">>
Fit       == <<"fit_score", "fit_rationale", "fit_evaluated_at", "skip_reason">>
Outreach  == <<"company_people_search_url", "outreach_type", "contact_name",
               "contact_linkedin", "hm_outreach_status", "hm_outreach_date">>
AppliedDate == <<"applied_date">>
ApplyState == <<"applied_by", "apply_state", "apply_note">>

HEADER_V1 == Posting \o <<"status">> \o Documents \o Stamps
HEADER_V2 == Posting \o <<"status">> \o Documents \o Salary \o Stamps
HEADER_V3 == Posting \o <<"location", "status">> \o Documents \o Salary \o Stamps
HEADER_V4 == HEADER_V3 \o Fit
HEADER_V5 == Posting \o <<"locations", "status">> \o Documents \o Salary \o Stamps \o Fit
HEADER_V6 == HEADER_V5 \o Outreach
HEADER_V7 == HEADER_V6 \o AppliedDate
HEADER_V8 == HEADER_V7 \o ApplyState

Headers == <<HEADER_V1, HEADER_V2, HEADER_V3, HEADER_V4,
             HEADER_V5, HEADER_V6, HEADER_V7, HEADER_V8>>

-----------------------------------------------------------------------------
(* The readers: the cells of a line under their columns, the columns the   *)
(* version does not have at their defaults.                                *)

\* The columns of a row, and of another row those it does not have.
Padded(row, other) ==
    [c \in DOMAIN row \cup DOMAIN other |-> IF c \in DOMAIN row THEN row[c] ELSE other[c]]

Columns(names, cells) ==
    [c \in Range(names) |-> cells[CHOOSE i \in DOMAIN names : names[i] = c]]

Seeded(names) == [c \in Range(names) |-> Blank]

OutreachDefaults == [Seeded(Outreach) EXCEPT !["hm_outreach_status"] = Text("To do")]
AppliedDateDefaults == Seeded(AppliedDate)
ApplyStateDefaults == Seeded(ApplyState)
LaterDefaults == Padded(OutreachDefaults, Padded(AppliedDateDefaults, ApplyStateDefaults))

Located(places) == [c \in {"locations"} |-> places]

\* One place, or none, where the file had a single one.
SinglePlace(row) ==
    Padded(Located(IF row["location"] = Blank THEN <<>> ELSE <<row["location"]>>),
           [c \in DOMAIN row \ {"location"} |-> row[c]])

ManyPlaces(row) == [row EXCEPT !["locations"] = DecodeLocations(@)]

RowToAppV1(cells) ==
    Padded(Columns(HEADER_V1, cells),
           Padded(Located(<<>>), Padded(Seeded(Salary \o Fit), LaterDefaults)))
RowToAppV2(cells) ==
    Padded(Columns(HEADER_V2, cells), Padded(Located(<<>>), Padded(Seeded(Fit), LaterDefaults)))
RowToAppV3(cells) ==
    Padded(SinglePlace(Columns(HEADER_V3, cells)), Padded(Seeded(Fit), LaterDefaults))
RowToAppV4(cells) == Padded(SinglePlace(Columns(HEADER_V4, cells)), LaterDefaults)
RowToAppV5(cells) == Padded(ManyPlaces(Columns(HEADER_V5, cells)), LaterDefaults)
RowToAppV6(cells) ==
    Padded(ManyPlaces(Columns(HEADER_V6, cells)), Padded(AppliedDateDefaults, ApplyStateDefaults))
RowToAppV7(cells) == Padded(ManyPlaces(Columns(HEADER_V7, cells)), ApplyStateDefaults)

\* The reader of version 7, then the three columns after its last.
RowToAppV8(cells) ==
    Padded(Columns(ApplyState, SubSeq(cells, Len(HEADER_V7) + 1, Len(HEADER_V8))),
           RowToAppV7(cells))

RowToApp(v, cells) ==
    CASE v = 1 -> RowToAppV1(cells) [] v = 2 -> RowToAppV2(cells)
      [] v = 3 -> RowToAppV3(cells) [] v = 4 -> RowToAppV4(cells)
      [] v = 5 -> RowToAppV5(cells) [] v = 6 -> RowToAppV6(cells)
      [] v = 7 -> RowToAppV7(cells) [] v = 8 -> RowToAppV8(cells)

\* The newest header that matches; a header unknown or a line too short
\* makes the whole file unreadable.
Versions(file) == {v \in DOMAIN Headers : Headers[v] = file.header}

Readable(file) ==
    \/ file.header = <<>>
    \/ /\ Versions(file) # {}
       /\ \A i \in DOMAIN file.lines : Len(file.lines[i]) >= Len(file.header)

Load(file) ==
    IF file.header = <<>> THEN <<>>
    ELSE LET v == CHOOSE v \in Versions(file) : TRUE
         IN  [i \in DOMAIN file.lines |-> RowToApp(v, file.lines[i])]

-----------------------------------------------------------------------------
(* The writer *)

RowFor(app) ==
    [i \in DOMAIN HEADER_V8 |->
        IF HEADER_V8[i] = "locations" THEN EncodeLocations(app["locations"])
        ELSE app[HEADER_V8[i]]]

\* Mutant: the rows of version 8 under the header of version 7.
SavedUnderOldHeader(apps) ==
    [header |-> HEADER_V7, lines |-> [i \in DOMAIN apps |-> RowFor(apps[i])]]

Saved(apps) == [header |-> HEADER_V8, lines |-> [i \in DOMAIN apps |-> RowFor(apps[i])]]

-----------------------------------------------------------------------------
(* What a line says: a reference for the readers, cell by cell. *)

IsSeq(s) == s \in Seq(Range(s))

Names == Range(HEADER_V8)

\* Places are texts, none of them blank.
ArePlaces(places) ==
    IsSeq(places) /\ \A i \in DOMAIN places : places[i].kind = "text" /\ places[i] # Blank

IsRow(row) == row = [c \in Names |-> row[c]] /\ ArePlaces(row["locations"])

\* A value without the quotes that only the reader of the places takes off.
Bared(name, value) == IF name = "locations" THEN value ELSE UnwrapCsvQuoted(value)

Bare(row) == [c \in DOMAIN row |-> Bared(c, row[c])]

\* The cell under a column says this of the row.
Says(name, cell, row) ==
    IF name = "locations" THEN row["locations"] = DecodeLocations(cell)
    ELSE IF name = "location" THEN row["locations"] = IF cell = Blank THEN <<>> ELSE <<cell>>
    ELSE row[name] = Bared(name, cell)

\* A column that the version of the file does not have yet.
Default(name) ==
    IF name = "locations" THEN <<>>
    ELSE IF name = "hm_outreach_status" THEN Text("To do") ELSE Blank

IsLineOf(cells, header, row) ==
    /\ IsSeq(cells) /\ Len(cells) >= Len(header)
    /\ \A i \in DOMAIN header : Says(header[i], cells[i], row)
    /\ \A c \in Names \ Range(header) :
          \/ c = "locations" /\ "location" \in Range(header)
          \/ row[c] = Default(c)

\* A file, or none, that has these rows.
IsFileOf(file, rows) ==
    /\ IsSeq(file.lines) /\ IsSeq(rows) /\ Len(file.lines) = Len(rows)
    /\ file = [header |-> file.header, lines |-> file.lines]
    /\ \A i \in DOMAIN rows : IsRow(rows[i])
    /\ \/ file.header = <<>> /\ rows = <<>>
       \/ /\ file.header \in Range(Headers)
          /\ \A i \in DOMAIN rows : IsLineOf(file.lines[i], file.header, rows[i])
=============================================================================
