--------------------------- MODULE MCBillingQuery ---------------------------
EXTENDS BillingQuery

AllFilters == InvoiceStatus \cup {"UNSPECIFIED"}
SomeLimits == {-1, 0, 1, 3}

\* Two orders of one instant, and one before and one after them.
TwoTied == <<1, 2, 2, 3>>
=============================================================================
