SPECIFICATION Spec
CONSTANT MaxParts = 2
INVARIANT CommandObeyed
