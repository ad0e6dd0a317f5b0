----------------------------- MODULE InvoiceRules -----------------------------
(***************************************************************************)
(* The VAT and date rules of P02 (validators/vat.py, validators/dates.py)  *)
(* and the rates they use (config.py load_vat_rates).  Amounts are in      *)
(* cents and rates in thousandths of the configured unit: 25.5 percent is  *)
(* 25500, or 255 as a fraction.  Decimal is exact at this size; products   *)
(* of the two are kept in 1/100000 cent so that nothing is rounded.        *)
(*                                                                         *)
(* An invoice is [hasTotals, net, vat, gross, lines, date, due], a line is *)
(* [rate, base, vat], a date's text is [form, y, m, d] with form "fi" for  *)
(* d.m.yyyy, "iso", "blank", or "other" for any other text.                *)
(***************************************************************************)
EXTENDS Sums

NoDate == 0
Unit == 100000

DaysIn(y, m) ==
    IF m = 2 THEN IF (y % 4 = 0 /\ y % 100 # 0) \/ y % 400 = 0 THEN 29 ELSE 28
    ELSE IF m \in {4, 6, 9, 11} THEN 30 ELSE 31

\* date(year, month, day), as a number that keeps the order, or None.
parse_date(text) ==
    IF text.form \in {"fi", "iso"} /\ text.y >= 1 /\ text.m \in 1..12 /\ text.d \in 1..DaysIn(text.y, text.m)
    THEN text.y * 10000 + text.m * 100 + text.d
    ELSE NoDate

dates(date, due, today) ==
    IF date.form = "blank" THEN "missing_invoice_date"
    ELSE IF parse_date(date) = NoDate THEN "unparsed_invoice_date"
    ELSE IF parse_date(date) > today THEN "invoice_in_future"
    ELSE IF due.form = "blank" THEN "missing_due_date"
    ELSE IF parse_date(due) = NoDate THEN "unparsed_due_date"
    ELSE IF parse_date(due) < parse_date(date) THEN "due_before_invoice"
    ELSE "passed"

-----------------------------------------------------------------------------
_within(actual, expected, tolerance) == actual - expected \in -tolerance..tolerance

_line_vat(line, rate_unit) == line.base * line.rate * (IF rate_unit = "fraction" THEN 100 ELSE 1)

SumVat(lines) == SumOf([n \in DOMAIN lines |-> lines[n].vat])

\* Mutant of vat_math: the lines are not added up.
vat_mathNoSum(i, tolerance, rate_unit) ==
    IF ~i.hasTotals THEN "missing_totals"
    ELSE IF i.net < 0 \/ i.vat < 0 \/ i.gross < 0 THEN "negative"
    ELSE IF ~_within(i.gross, i.net + i.vat, tolerance) THEN "net_plus_vat"
    ELSE IF \E n \in DOMAIN i.lines :
               ~_within(i.lines[n].vat * Unit, _line_vat(i.lines[n], rate_unit), tolerance * Unit) THEN "line_vat"
    ELSE "passed"

vat_math(i, tolerance, rate_unit) ==
    IF ~i.hasTotals THEN "missing_totals"
    ELSE IF i.net < 0 \/ i.vat < 0 \/ i.gross < 0 THEN "negative"
    ELSE IF ~_within(i.gross, i.net + i.vat, tolerance) THEN "net_plus_vat"
    ELSE IF \E n \in DOMAIN i.lines :
               ~_within(i.lines[n].vat * Unit, _line_vat(i.lines[n], rate_unit), tolerance * Unit) THEN "line_vat"
    ELSE IF i.lines # <<>> /\ ~_within(SumVat(i.lines), i.vat, tolerance) THEN "vat_sum"
    ELSE "passed"

-----------------------------------------------------------------------------
\* A row of vat_rates.yaml is [rate, valid_from, complete]; a placeholder is left out.
load_vat_rates(rows) == {row \in rows : row.complete}

inForce(rates, on) ==
    {r \in rates : on = NoDate \/ (parse_date(r.valid_from) # NoDate /\ parse_date(r.valid_from) <= on)}

vat_rates(lines, rates, date) ==
    LET allowed == {r.rate : r \in inForce(rates, parse_date(date))}
    IN  IF rates = {} THEN "unverified_config"
        ELSE IF allowed = {} THEN "no_rate_in_force"
        ELSE IF \E n \in DOMAIN lines : lines[n].rate \notin allowed THEN "unknown_rate"
        ELSE IF lines = <<>> THEN "empty_breakdown"
        ELSE "passed"

\* validate_extraction, as far as these rules go.
validate(i, rows, tolerance, rate_unit, today) ==
    [dates |-> dates(i.date, i.due, today),
     vat_math |-> vat_math(i, tolerance, rate_unit),
     vat_rates |-> vat_rates(i.lines, load_vat_rates(rows), i.date)]
=============================================================================
