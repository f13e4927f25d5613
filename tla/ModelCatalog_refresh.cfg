\* A refresh while one request waits for a provider, and another after it.
SPECIFICATION CatalogSpec

CONSTANTS
    Sources = {p1}
    Gets = {g1, g2}
    ModelTTL = 2
    ResponseTTL = 1

INVARIANT RefreshTakes
