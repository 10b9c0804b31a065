\* Three requests outstanding: a poll, a certificate and a tribe's change, or two of one kind.
SPECIFICATION ProxySpec
CONSTANTS
  Request = {r1, r2, r3}
INVARIANTS
  SlotIsServed
  MailGoesOn
