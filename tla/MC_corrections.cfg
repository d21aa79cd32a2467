CONSTANTS
    QuantizeLimit = 100
    Requests = {"q1", "q2"}
    Answers <- MCAnswers
    Edits <- MCEdits
    Odd = {"vendor_name", "payment_terms", "invoice_date", "due_date", "total_amount", "tax_amount", "currency", "line_items", "effective_date", "termination_date", "notice_period_days", "payment_currency", "payment_amount", "pay_period_start", "pay_period_end", "deductions", "net_pay", "merchant_name", "subtotal", "items"}
SPECIFICATION Spec
INVARIANTS
    TypeOK
    RecoveryIsFieldwise
    LossIsVisible
    OnlyHugeAmountsEscape
    OwnDataIsNoChange
    DiffReplays
PROPERTIES
    CorrectionsAreKept
