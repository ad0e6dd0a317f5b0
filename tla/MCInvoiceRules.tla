---------------------------- MODULE MCInvoiceRules ----------------------------
(***************************************************************************)
(* Invoices are validated one after another: figures some cents off with   *)
(* sound dates, and sound figures with dates and rate tables of all kinds. *)
(***************************************************************************)
EXTENDS RuleCalls, InvoiceRules

CONSTANTS MoneyTolerance,      \* money_tolerance, in cents
          Extractions          \* [invoice, rows, unit, day]: what is validated, with the configuration and the day

IsText(t) == t \in [form : STRING, y : Int, m : Int, d : Int]

ASSUME ExtractionsAssumption ==
    /\ MoneyTolerance \in Nat
    /\ \A e \in Extractions :
          /\ {e.invoice.net, e.invoice.vat, e.invoice.gross, e.day} \subseteq Int
          /\ e.invoice.lines \in Seq([rate : Int, base : Int, vat : Int])
          /\ e.invoice.hasTotals \in BOOLEAN
          /\ \A t \in {e.invoice.date, e.invoice.due} \union {row.valid_from : row \in e.rows} : IsText(t)

VARIABLES invoice, rates, unit, today, verdict

invoiceVars == <<invoice, rates, unit, today, verdict>>

Day(form, y, m, d) == [form |-> form, y |-> y, m |-> m, d |-> d]
Days == {Day(f, 2024, 2, 29) : f \in {"fi", "iso"}}
        \union {Day("fi", 2023, 2, 29), Day("iso", 2024, 9, 1), Day("fi", 2024, 8, 31), Day("iso", 1900, 2, 29),
                Day("blank", 0, 0, 0), Day("other", 0, 0, 0)}

\* 14 percent from 2013, 10 percent from September 2024.
Scale(u) == IF u = "percent" THEN 1000 ELSE 10
Row(percent, day, u, complete) == [rate |-> percent * Scale(u), valid_from |-> day, complete |-> complete]
Table(u) == {Row(14, Day("iso", 2013, 1, 1), u, TRUE), Row(10, Day("iso", 2024, 9, 1), u, TRUE)}
Tables(u) == {Table(u), {Row(14, Day("iso", 2013, 1, 1), u, FALSE)}, {Row(10, Day("iso", 2024, 9, 1), u, TRUE)},
              {Row(14, Day("other", 0, 0, 0), u, TRUE)}}

Line(percent, off, u) == [rate |-> percent * Scale(u), base |-> 50, vat |-> (percent \div 2) + off]
Lines(u) == {Line(p, off, u) : p \in {10, 14}, off \in -1..2}

\* The VAT that the lines' own bases and rates give, in 1/Unit cents.
LinesVat(lines, u) == SumOf([n \in DOMAIN lines |-> _line_vat(lines[n], u)])

Invoice(lines, net, off, grossOff, u) ==
    LET vat == (LinesVat(lines, u) \div Unit) + off
    IN  [hasTotals |-> TRUE, net |-> net, vat |-> vat, gross |-> net + vat + grossOff, lines |-> lines,
         date |-> Day("iso", 2024, 9, 1), due |-> Day("fi", 2024, 9, 1)]

Sound(u) == Invoice(<<Line(14, 0, u)>>, 50, 0, 0, u)

Extraction(i, rows, u, day) == [invoice |-> i, rows |-> rows, unit |-> u, day |-> day]

\* Figures some cents off with sound dates, and sound figures with any dates.
Figures(u) == UNION {{Extraction(Invoice(lines, net, off, grossOff, u), Table(u), u, 20240901) :
                         lines \in [1..n -> Lines(u)], off \in -4..4, grossOff \in -2..2, net \in IF n = 1 THEN {100, -1} ELSE {100}} : n \in 0..2}
Dated(u) == {Extraction([Sound(u) EXCEPT !.date = date, !.due = due, !.hasTotals = known], rows, u, day) :
                date \in Days, due \in Days, rows \in Tables(u), day \in {20240229, 20240901}, known \in BOOLEAN}
SomeExtractions == UNION {Figures(u) \union Dated(u) : u \in {"percent", "fraction"}}

NoInvoice == Sound("percent")
NoVerdict == [dates |-> "passed", vat_math |-> "passed", vat_rates |-> "unverified_config"]

InvoiceInit == /\ phase = "idle" /\ invoice = NoInvoice /\ rates = {} /\ unit = "percent" /\ today = 0
               /\ verdict = NoVerdict

Validate(e) ==
    /\ phase' = "validated"
    /\ invoice' = e.invoice /\ rates' = e.rows /\ unit' = e.unit /\ today' = e.day
    /\ verdict' = validate(e.invoice, e.rows, MoneyTolerance, e.unit, e.day)

InvoiceDone == /\ phase = "validated"
               /\ phase' = "idle" /\ invoice' = NoInvoice /\ rates' = {} /\ unit' = "percent" /\ today' = 0
               /\ verdict' = NoVerdict

InvoiceNext == InvoiceDone \/ (phase = "idle" /\ \E e \in Extractions : Validate(e))

InvoiceSpec == InvoiceInit /\ [][InvoiceNext]_<<phase, invoiceVars>>

-----------------------------------------------------------------------------
\* The invoice's lines are exact: each VAT is what its base and rate give.
ExactLines == \A n \in DOMAIN invoice.lines : invoice.lines[n].vat * Unit = _line_vat(invoice.lines[n], unit)

\* What passing all rules is worth.  The gross amount differs from the net amount
\* and the VAT that the lines' own bases and rates give by at most one tolerance
\* for each line and two more (vat_math applies the tolerance to each line, to
\* their sum and to the total); every rate had come into force (vat_rates); and
\* the dates are in order (dates).  And an invoice with exact figures passes
\* vat_math whether rates are percentages or fractions.
PassedAddsUp ==
    phase = "validated" =>
        /\ verdict.vat_math = "passed" /\ invoice.lines # <<>> =>
              _within(invoice.gross * Unit, invoice.net * Unit + LinesVat(invoice.lines, unit),
                      (Len(invoice.lines) + 2) * MoneyTolerance * Unit)
        /\ verdict.dates = "passed" /\ verdict.vat_rates = "passed" =>
              /\ parse_date(invoice.date) \in 1..today /\ parse_date(invoice.date) <= parse_date(invoice.due)
              /\ \A n \in DOMAIN invoice.lines : \E r \in rates :
                    /\ r.complete /\ r.rate = invoice.lines[n].rate
                    /\ parse_date(r.valid_from) \in 1..parse_date(invoice.date)
        /\ /\ invoice.hasTotals /\ invoice.net >= 0 /\ invoice.vat >= 0 /\ ExactLines
           /\ invoice.vat * Unit = LinesVat(invoice.lines, unit) /\ invoice.gross = invoice.net + invoice.vat
           => verdict.vat_math = "passed"
=============================================================================
